------------------------- MODULE SessionRequestsProofs -------------------------
(***************************************************************************)
(* The inductive invariant of SessionRequests, for any number of requests  *)
(* in flight: what a transaction has written and not yet committed is      *)
(* right for the log it will commit to, because it holds the row lock; and *)
(* what a snapshot has read stays true of a log that grows at its end.     *)
(***************************************************************************)
EXTENDS SessionRequests, SessionLogProofs

Projections == ProjectionRow \cup {Missing}

Answers == [key: Keys, type: EventTypes]

Pcs == {"idle", "check", "insert", "read", "latest", "lifecycle", "stale", "missing", "lock",
        "flushed", "committed"}

RequestRow ==
  [pc: Pcs, op: ClientOps \cup {"snapshot"}, key: Keys, device: Devices \cup {NoDevice},
   loaded: Projections, mem: Projections, latest: Nat,
   write: [rows: SUBSET Row(Keys, Devices), proj: Projections], floor: SUBSET Answers]

Typed ==
  /\ clock \in Nat
  /\ vehicleArchived \in BOOLEAN
  /\ events \in SUBSET Row(Keys, Devices)
  /\ row \in Projections
  /\ lock \in Requests \cup {NoRequest}
  /\ req \in [Requests -> RequestRow]
  /\ answered \in SUBSET Answers

-----------------------------------------------------------------------------
(* The committed rows *)

GoodLog(rows) ==
  /\ Replayable(rows) /\ HasHead(rows)
  /\ \E e \in rows : e.key = CreationKey /\ e.type = "session_started"

(* A projection that says what the log says; an archived session has no    *)
(* editor, and a lease has an expiry exactly when it has a device.         *)
GoodRow(p, rows) ==
  /\ rows # {}
  /\ p.seq = Latest(rows).seq
  /\ p.status = Status(rows)
  /\ p.device = NoDevice <=> p.expires = 0
  /\ p.status = "archived" => p.device = NoDevice

Has(rows, a) == \E e \in rows : e.key = a.key /\ e.type = a.type

-----------------------------------------------------------------------------
(* The requests in flight *)

(* The log as a request will have left it. *)
After(q, log) == IF q.pc = "flushed" THEN log \cup q.write.rows ELSE log

(* Where a request can be, and what it knows there. *)
Phase(q, log, p) ==
  /\ q.pc # "flushed" => q.write = Nothing
  /\ q.pc \in {"check", "insert"} => q.op = "create"
  /\ q.pc \in {"read", "missing", "latest", "lifecycle", "stale"} => q.op \in Snapshotting
  /\ q.pc = "lock" => q.op \in LeaseOps \cup Mutations
  /\ q.pc \in {"check", "insert", "lock"} => q.device \in Devices
  /\ q.op \in Mutations => q.key # CreationKey
  /\ q.pc \in {"missing", "latest", "lifecycle", "stale", "committed"} => log # {}
  /\ q.pc \in {"latest", "lifecycle", "stale"} =>
       /\ p # Missing /\ q.loaded # Missing
       /\ q.loaded.device = NoDevice <=> q.loaded.expires = 0

(* The row to be added is the first of the log, or follows the last one    *)
(* under a key of its own and is written by the editor.                    *)
Extends(rows, log, p) ==
  \E e \in rows :
    /\ rows = {e}
    /\ IF log = {}
       THEN e = [seq |-> 1, type |-> "session_started", key |-> CreationKey, device |-> e.device]
       ELSE /\ e.seq = Latest(log).seq + 1
            /\ Follows(Status(log), e.type)
            /\ \A f \in log : f.key # e.key
            /\ p # Missing /\ p.device = e.device

(* What becomes of a live lease. *)
KeepsLease(q, p, now) ==
  p # Missing /\ p.device # NoDevice /\ p.expires > now =>
    \/ q.write.proj.device = p.device
    \/ q.write.proj.device # NoDevice /\ q.op = "takeover"
    \/ /\ q.write.proj.device = NoDevice
       /\ \/ q.op = "session_archived"
          \/ /\ q.loaded # Missing /\ q.loaded.device # NoDevice
             /\ q.loaded.expires <= now

Pending(q, log, p, now) ==
  q.pc = "flushed" =>
    /\ After(q, log) # {}
    /\ q.write.rows # {} => q.write.proj # Missing /\ Extends(q.write.rows, log, p)
    /\ q.write.proj # Missing => GoodRow(q.write.proj, After(q, log)) /\ KeepsLease(q, p, now)

(* What a snapshot was asked to show, and what it shows. *)
Reports(m, floor, log) ==
  /\ m # Missing
  /\ m.seq <= Latest(log).seq
  /\ m.status = Status(Before(log, m.seq + 1))
  /\ \A a \in floor : \E e \in log :
       e.key = a.key /\ e.type = a.type /\ e.seq <= m.seq

Shows(q, log) ==
  /\ \A a \in q.floor : Has(log, a)
  /\ q.op \in Snapshotting /\ q.pc \in {"latest", "lifecycle", "stale", "flushed", "committed"} =>
       Reports(q.mem, q.floor, After(q, log))

(* A mutation that is done has its row. *)
Done(q, log) ==
  q.pc \in {"flushed", "committed"} =>
    /\ q.op = "create" => Has(After(q, log), [key |-> CreationKey, type |-> "session_started"])
    /\ q.op \in Mutations => Has(After(q, log), [key |-> q.key, type |-> q.op])

Right(q, log, p, now) ==
  Phase(q, log, p) /\ Pending(q, log, p, now) /\ Shows(q, log) /\ Done(q, log)

Writes(q) == q.pc = "flushed" /\ q.write # Nothing

RInv ==
  /\ Typed
  /\ events # {} => GoodLog(events)
  /\ row # Missing => GoodRow(row, events)
  /\ \A a \in answered : Has(events, a)
  /\ \A r \in Requests : Right(req[r], events, row, clock)
  /\ \A r \in Requests : Writes(req[r]) => lock = r
-----------------------------------------------------------------------------
(* What a client asks for is of one kind. *)
LEMMA OpsApart ==
  /\ Snapshotting \cap (LeaseOps \cup Mutations) = {}
  /\ LeaseOps \cap Mutations = {}
  /\ ClientOps \cup {"snapshot"} \subseteq Snapshotting \cup LeaseOps \cup Mutations
BY OpsAssumption DEF Ops, Snapshotting, LeaseOps, Mutations, EventTypes,
   LIFECYCLE_EVENT_TYPES, DOMAIN_EVENT_TYPES

(* Missing is no row, and "no device" no device. *)
LEMMA RowsAreRows ==
  /\ \A p \in ProjectionRow : p # Missing
  /\ \A d \in Devices : d # NoDevice
BY NullAssumption

(* The prefix that ends with the last row is the log. *)
LEMMA WholeLog ==
  ASSUME NEW log \in SUBSET Row(Keys, Devices), HasHead(log)
  PROVE  Before(log, Latest(log).seq + 1) = log
<1>1. Latest(log) \in log /\ \A e \in log : e.seq <= Latest(log).seq
  BY LatestIsLast
<1>2. \A e \in log : e.seq \in Nat
  BY DEF Row
<1>3. QED
  BY <1>1, <1>2 DEF Before

(* What a nonempty committed log has. *)
LEMMA CommittedLog ==
  ASSUME NEW log \in SUBSET Row(Keys, Devices), GoodLog(log)
  PROVE  /\ Latest(log) \in log
         /\ Latest(log).seq \in Nat \ {0}
         /\ \A e \in log : e.seq <= Latest(log).seq
         /\ Status(log) \in Statuses
         /\ Has(log, [key |-> CreationKey, type |-> "session_started"])
<1>1. Latest(log) \in log /\ \A e \in log : e.seq <= Latest(log).seq
  BY LatestIsLast DEF GoodLog
<1>2. Latest(log).seq \in Nat \ {0}
  BY <1>1 DEF Row
<1>3. Status(log) \in Statuses
  BY ReplayableHasStatus DEF GoodLog
<1>4. Has(log, [key |-> CreationKey, type |-> "session_started"])
  BY DEF GoodLog, Has
<1>5. QED
  BY <1>1, <1>2, <1>3, <1>4

(* A whole row that is read shows all that the log has. *)
LEMMA WholeRowReports ==
  ASSUME NEW log \in SUBSET Row(Keys, Devices), GoodLog(log),
         NEW p \in ProjectionRow, p.seq = Latest(log).seq, p.status = Status(log),
         NEW floor, \A a \in floor : Has(log, a)
  PROVE  Reports(p, floor, log)
<1>1. Before(log, p.seq + 1) = log
  BY WholeLog DEF GoodLog
<1>2. \A e \in log : e.seq <= p.seq
  BY CommittedLog
<1>3. p.seq <= Latest(log).seq
  BY DEF ProjectionRow
<1>4. QED
  BY <1>1, <1>2, <1>3, RowsAreRows DEF Reports, Has

(* What a snapshot read is not undone by rows added at the end.            *)
LEMMA ReportsStay ==
  ASSUME NEW log \in SUBSET Row(Keys, Devices), NEW new \in SUBSET Row(Keys, Devices),
         log # {}, HasHead(log), HasHead(new), log \subseteq new,
         \A e \in new \ log : Latest(log).seq < e.seq,
         NEW m \in Projections, NEW floor, Reports(m, floor, log)
  PROVE  Reports(m, floor, new)
<1>1. Latest(log) \in log /\ Latest(new) \in new /\ Latest(log).seq <= Latest(new).seq
  BY LatestIsLast
<1>2. m \in ProjectionRow /\ m.seq \in Nat
  BY DEF Projections, Reports, ProjectionRow
<1>3. m.seq <= Latest(log).seq
  BY DEF Reports
<1>4. \A e \in new : e.seq \in Nat
  BY DEF Row
<1>5. Before(new, m.seq + 1) = Before(log, m.seq + 1)
  BY <1>1, <1>2, <1>3, <1>4 DEF Before
<1>6. m.seq <= Latest(new).seq
  BY <1>1, <1>2, <1>3, <1>4
<1>7. QED
  BY <1>5, <1>6 DEF Reports

(* A request that has nothing to write stays right while others commit.    *)
LEMMA OthersCommit ==
  ASSUME NEW log \in SUBSET Row(Keys, Devices), NEW new \in SUBSET Row(Keys, Devices),
         log # {} => HasHead(log), HasHead(new), new # {}, log \subseteq new,
         log # {} => \A e \in new \ log : Latest(log).seq < e.seq,
         NEW p, NEW p1, p # Missing => p1 # Missing, NEW now,
         NEW q \in RequestRow, Right(q, log, p, now), ~Writes(q)
  PROVE  Right(q, new, p1, now)
<1>1. q.write = Nothing
  BY DEF Right, Phase, Writes
<1>2. After(q, log) = log /\ After(q, new) = new
  BY <1>1 DEF After, Nothing
<1>3. Phase(q, new, p1)
  BY DEF Right, Phase
<1>4. Pending(q, new, p1, now)
  BY <1>1, <1>2 DEF Pending, Nothing
<1>5. Shows(q, new)
  <2>1. \A a \in q.floor : Has(new, a)
    BY DEF Right, Shows, Has
  <2>2. ASSUME q.op \in Snapshotting,
               q.pc \in {"latest", "lifecycle", "stale", "flushed", "committed"}
        PROVE  Reports(q.mem, q.floor, new)
    <3>1. Reports(q.mem, q.floor, log)
      BY <1>2, <2>2 DEF Right, Shows
    <3>2. log # {}
      BY <1>2, <2>2 DEF Right, Phase, Pending
    <3>3. q.mem \in Projections
      BY DEF RequestRow
    <3>4. QED
      BY <3>1, <3>2, <3>3, ReportsStay
  <2>3. QED
    BY <1>2, <2>1, <2>2 DEF Shows
<1>6. Done(q, new)
  BY <1>2 DEF Right, Done, Has
<1>7. QED
  BY <1>3, <1>4, <1>5, <1>6 DEF Right
-----------------------------------------------------------------------------
(* Steps that commit nothing *)

(* One request moves on to q; the lock is left to whoever else has it.     *)
LEMMA QuietStep ==
  ASSUME RInv, NEW r \in Requests, NEW q \in RequestRow,
         req' = [req EXCEPT ![r] = q], Right(q, events, row, clock),
         UNCHANGED <<clock, vehicleArchived, events, row>>,
         answered' \in SUBSET Answers, \A a \in answered' : Has(events, a),
         lock' \in Requests \cup {NoRequest},
         \A t \in Requests : t # r /\ lock = t => lock' = t,
         Writes(q) => lock' = r
  PROVE  RInv'
<1>1. req \in [Requests -> RequestRow]
  BY DEF RInv, Typed
<1>2. /\ req' \in [Requests -> RequestRow]
      /\ req'[r] = q
      /\ \A t \in Requests : t # r => req'[t] = req[t]
  BY <1>1
<1>3. Typed'
  BY <1>2 DEF RInv, Typed
<1>4. ASSUME NEW t \in Requests PROVE Right(req'[t], events', row', clock')
  BY <1>2 DEF RInv
<1>5. ASSUME NEW t \in Requests, Writes(req'[t]) PROVE lock' = t
  BY <1>2, <1>5 DEF RInv
<1>6. /\ events' # {} => GoodLog(events')
      /\ row' # Missing => GoodRow(row', events')
      /\ \A a \in answered' : Has(events', a)
  BY DEF RInv
<1>7. QED
  BY <1>3, <1>4, <1>5, <1>6 DEF RInv

(* The request goes on to the next statement. *)
LEMMA GotoStep ==
  ASSUME RInv, NEW r \in Requests, NEW pc \in Pcs, Goto(r, pc),
         pc = "flushed" => req[r].write = Nothing,
         UNCHANGED <<clock, vehicleArchived, events, row, lock, answered>>
  PROVE  \E q \in RequestRow :
           /\ q.pc = pc /\ q.op = req[r].op /\ q.key = req[r].key
           /\ q.device = req[r].device /\ q.loaded = req[r].loaded /\ q.mem = req[r].mem
           /\ q.write = req[r].write /\ q.floor = req[r].floor
           /\ Right(q, events, row, clock) => RInv'
<1>1. req \in [Requests -> RequestRow] /\ req[r] \in RequestRow
  BY DEF RInv, Typed
<1>2. PICK q : q = [req[r] EXCEPT !.pc = pc]
  OBVIOUS
<1>3. /\ q \in RequestRow
      /\ q.pc = pc /\ q.op = req[r].op /\ q.key = req[r].key
      /\ q.device = req[r].device /\ q.loaded = req[r].loaded /\ q.mem = req[r].mem
      /\ q.write = req[r].write /\ q.floor = req[r].floor
  BY <1>1, <1>2 DEF RequestRow
<1>4. req' = [req EXCEPT ![r] = q]
  BY <1>1, <1>2 DEF Goto
<1>5. ~Writes(q)
  <2>1. pc # "flushed" \/ q.write = Nothing
    BY <1>3
  <2>2. QED
    BY <1>3, <2>1 DEF Writes
<1>6. Right(q, events, row, clock) => RInv'
  BY <1>3, <1>4, <1>5, QuietStep DEF RInv, Typed
<1>7. QED
  BY <1>3, <1>6

(* The request has the lock, and flushes what it will commit. *)
LEMMA FlushStep ==
  ASSUME RInv, NEW r \in Requests, NEW m \in Projections, NEW p \in Projections,
         NEW rows \in SUBSET Row(Keys, Devices), Flush(r, m, rows, p),
         MayLock(r), lock' = r,
         UNCHANGED <<clock, vehicleArchived, events, row, answered>>
  PROVE  \E q \in RequestRow :
           /\ q.pc = "flushed" /\ q.op = req[r].op /\ q.key = req[r].key
           /\ q.device = req[r].device /\ q.loaded = req[r].loaded /\ q.mem = m
           /\ q.write = [rows |-> rows, proj |-> p] /\ q.floor = req[r].floor
           /\ Right(q, events, row, clock) => RInv'
<1>1. req \in [Requests -> RequestRow] /\ req[r] \in RequestRow
  BY DEF RInv, Typed
<1>2. PICK q : q = [req[r] EXCEPT !.pc = "flushed", !.mem = m,
                                  !.write = [rows |-> rows, proj |-> p]]
  OBVIOUS
<1>3. /\ q \in RequestRow
      /\ q.pc = "flushed" /\ q.op = req[r].op /\ q.key = req[r].key
      /\ q.device = req[r].device /\ q.loaded = req[r].loaded /\ q.mem = m
      /\ q.write = [rows |-> rows, proj |-> p] /\ q.floor = req[r].floor
  BY <1>1, <1>2 DEF RequestRow, Pcs
<1>4. req' = [req EXCEPT ![r] = q]
  BY <1>1, <1>2 DEF Flush
<1>5. \A t \in Requests : t # r => lock # t
  BY NullAssumption DEF MayLock
<1>6. Right(q, events, row, clock) => RInv'
  BY <1>3, <1>4, <1>5, QuietStep DEF RInv, Typed
<1>7. QED
  BY <1>3, <1>6

(* The request is over: rolled back, answered, or its answer lost. *)
LEMMA IdleIsRight ==
  /\ Idle \in RequestRow
  /\ ~Writes(Idle)
  /\ \A log, p, now : Right(Idle, log, p, now)
<1>1. Idle \in RequestRow
  BY KeyAssumption DEF Idle, RequestRow, Nothing, Projections, Pcs
<1>2. ~Writes(Idle)
  BY DEF Writes, Idle
<1>3. ASSUME NEW log, NEW p, NEW now PROVE Right(Idle, log, p, now)
  <2>1. Phase(Idle, log, p)
    BY OpsApart DEF Phase, Idle, Snapshotting
  <2>2. Pending(Idle, log, p, now) /\ Shows(Idle, log) /\ Done(Idle, log)
    BY DEF Pending, Shows, Done, Idle
  <2>3. QED
    BY <2>1, <2>2 DEF Right
<1>4. QED
  BY <1>1, <1>2, <1>3

LEMMA RaiseHolds ==
  ASSUME RInv, NEW r \in Requests, Raise(r)
  PROVE  RInv'
<1>1. lock' \in Requests \cup {NoRequest} /\ \A t \in Requests : t # r /\ lock = t => lock' = t
  BY DEF RInv, Typed, Raise
<1>2. QED
  BY <1>1, IdleIsRight, QuietStep DEF RInv, Typed, Raise
-----------------------------------------------------------------------------
(* Requests that arrive, and the reads without a lock *)

LEMMA BeginHolds ==
  ASSUME RInv, NEW r \in Requests, NEW op \in ClientOps, NEW k \in Keys, NEW d \in Devices,
         Begin(r, op, k, d)
  PROVE  RInv'
<1>1. PICK pc : pc = CASE op = "create"   -> "check"
                       [] op = "snapshot" -> "read"
                       [] OTHER           -> "lock"
  OBVIOUS
<1>2. PICK q : q = [Idle EXCEPT !.op = op, !.key = k,
                       !.device = IF op = "snapshot" THEN NoDevice ELSE d,
                       !.floor = IF op \in Snapshotting THEN answered ELSE {},
                       !.pc = pc]
  OBVIOUS
<1>3. /\ pc \in {"check", "read", "lock"}
      /\ pc = "check" => op = "create"
      /\ pc = "read" => op = "snapshot"
      /\ pc = "lock" => op \notin {"create", "snapshot"}
  BY <1>1
<1>4. /\ q.pc = pc /\ q.op = op /\ q.key = k /\ q.write = Nothing
      /\ q.device = IF op = "snapshot" THEN NoDevice ELSE d
      /\ q.floor \in SUBSET answered
  BY <1>2 DEF Idle
<1>5. q \in RequestRow
  BY <1>2, <1>3, KeyAssumption DEF RInv, Typed, Idle, RequestRow, Nothing, Projections, Pcs
<1>6. Phase(q, events, row)
  <2>1. pc = "lock" => op \in LeaseOps \cup Mutations
    BY <1>3, OpsApart DEF Snapshotting
  <2>2. op \in Mutations => k # CreationKey
    BY DEF Begin
  <2>3. pc = "read" => op \in Snapshotting
    BY <1>3 DEF Snapshotting
  <2>4. pc \in {"check", "lock"} => q.device \in Devices
    BY <1>3, <1>4
  <2>5. QED
    BY <1>3, <1>4, <2>1, <2>2, <2>3, <2>4 DEF Phase
<1>7. Pending(q, events, row, clock) /\ Done(q, events)
  BY <1>3, <1>4 DEF Pending, Done
<1>8. Shows(q, events)
  BY <1>3, <1>4 DEF Shows, RInv
<1>9. req' = [req EXCEPT ![r] = q]
  BY <1>1, <1>2 DEF Begin
<1>10. ~Writes(q)
  BY <1>4 DEF Writes
<1>11. QED
  BY <1>5, <1>6, <1>7, <1>8, <1>9, <1>10, QuietStep DEF Right, RInv, Typed, Begin

LEMMA CheckVehicleHolds ==
  ASSUME RInv, NEW r \in Requests, CheckVehicle(r)
  PROVE  RInv'
<1>1. Right(req[r], events, row, clock) /\ req[r].pc = "check"
  BY DEF RInv, CheckVehicle, At
<1>2. PICK q \in RequestRow :
         /\ q.pc = "insert" /\ q.op = req[r].op /\ q.key = req[r].key
         /\ q.device = req[r].device /\ q.write = req[r].write /\ q.floor = req[r].floor
         /\ Right(q, events, row, clock) => RInv'
  BY GotoStep DEF CheckVehicle, Pcs
<1>3. Right(q, events, row, clock)
  BY <1>1, <1>2 DEF Right, Phase, Pending, Shows, Done
<1>4. QED
  BY <1>2, <1>3

LEMMA SessionExistsHolds ==
  ASSUME RInv, NEW r \in Requests, SessionExists(r)
  PROVE  RInv'
<1>1. Right(req[r], events, row, clock) /\ req[r].pc = "insert"
  BY DEF RInv, SessionExists, At
<1>2. PICK q \in RequestRow :
         /\ q.pc = "read" /\ q.op = req[r].op /\ q.key = req[r].key
         /\ q.device = req[r].device /\ q.write = req[r].write /\ q.floor = req[r].floor
         /\ Right(q, events, row, clock) => RInv'
  BY GotoStep DEF SessionExists, Pcs
<1>3. q.op \in Snapshotting
  BY <1>1, <1>2 DEF Right, Phase, Snapshotting
<1>4. Right(q, events, row, clock)
  BY <1>1, <1>2, <1>3 DEF Right, Phase, Pending, Shows, Done
<1>5. QED
  BY <1>2, <1>4

(* The row is read, and says what the log says: so it shows every write.   *)
LEMMA ReadRowIsRight ==
  ASSUME RInv, NEW r \in Requests, req[r].pc \in {"read", "missing"}, events # {},
         NEW q \in RequestRow, q.op = req[r].op, q.key = req[r].key, q.write = req[r].write,
         q.floor = req[r].floor,
         \/ q.pc = "missing"
         \/ q.pc = "latest" /\ row # Missing /\ q.loaded = row /\ q.mem = row
  PROVE  Right(q, events, row, clock)
<1>1. Right(req[r], events, row, clock)
  BY DEF RInv
<1>2. q.op \in Snapshotting /\ q.write = Nothing /\ (q.op \in Mutations => q.key # CreationKey)
  BY <1>1 DEF Right, Phase
<1>3. q.pc = "latest" => row.device = NoDevice <=> row.expires = 0
  BY DEF RInv, GoodRow
<1>4. Phase(q, events, row)
  BY <1>2, <1>3 DEF Phase
<1>5. Pending(q, events, row, clock) /\ Done(q, events)
  BY DEF Pending, Done
<1>6. \A a \in q.floor : Has(events, a)
  BY <1>1 DEF Right, Shows
<1>7. q.pc = "latest" => Reports(q.mem, q.floor, events)
  <2> SUFFICES ASSUME q.pc = "latest" PROVE Reports(row, q.floor, events)
    OBVIOUS
  <2>1. row \in ProjectionRow /\ GoodLog(events) /\ events \in SUBSET Row(Keys, Devices)
    BY DEF RInv, Typed, Projections
  <2>2. row.seq = Latest(events).seq /\ row.status = Status(events)
    BY DEF RInv, GoodRow
  <2>3. QED
    BY <1>6, <2>1, <2>2, WholeRowReports
<1>8. Shows(q, events)
  BY <1>6, <1>7 DEF Shows, After
<1>9. QED
  BY <1>4, <1>5, <1>8 DEF Right

LEMMA ReadBundleHolds ==
  ASSUME RInv, NEW r \in Requests, ReadBundle(r)
  PROVE  RInv'
<1>1. req[r] \in RequestRow /\ req \in [Requests -> RequestRow] /\ row \in Projections
  BY DEF RInv, Typed
<1>2. req[r].pc = "read" /\ events # {}
  BY DEF ReadBundle, At
<1>3. PICK q : q = [req[r] EXCEPT !.loaded = row, !.mem = row,
                                  !.pc = IF row = Missing THEN "missing" ELSE "latest"]
  OBVIOUS
<1>4. /\ q \in RequestRow
      /\ q.op = req[r].op /\ q.key = req[r].key /\ q.write = req[r].write
      /\ q.floor = req[r].floor /\ q.loaded = row /\ q.mem = row
      /\ q.pc = IF row = Missing THEN "missing" ELSE "latest"
  BY <1>1, <1>3 DEF RequestRow, Pcs
<1>5. Right(q, events, row, clock)
  BY <1>2, <1>4, ReadRowIsRight
<1>6. req' = [req EXCEPT ![r] = q]
  BY <1>1, <1>3 DEF ReadBundle
<1>7. ~Writes(q)
  BY <1>4 DEF Writes
<1>8. QED
  BY <1>4, <1>5, <1>6, <1>7, QuietStep DEF RInv, Typed, ReadBundle

LEMMA ReadLatestHolds ==
  ASSUME RInv, NEW r \in Requests, ReadLatest(r)
  PROVE  RInv'
<1>1. req[r] \in RequestRow /\ req \in [Requests -> RequestRow]
  BY DEF RInv, Typed
<1>2. Right(req[r], events, row, clock) /\ req[r].pc = "latest"
  BY DEF RInv, ReadLatest, At
<1>3. events # {} /\ Latest(events).seq \in Nat
  BY <1>2, CommittedLog DEF RInv, Typed, Right, Phase
<1>4. PICK q : q = [req[r] EXCEPT !.latest = Latest(events).seq, !.pc = "lifecycle"]
  OBVIOUS
<1>5. /\ q \in RequestRow
      /\ q.op = req[r].op /\ q.key = req[r].key /\ q.write = req[r].write
      /\ q.floor = req[r].floor /\ q.loaded = req[r].loaded /\ q.mem = req[r].mem
      /\ q.pc = "lifecycle"
  BY <1>1, <1>3, <1>4 DEF RequestRow, Pcs
<1>6. Right(q, events, row, clock)
  BY <1>2, <1>5 DEF Right, Phase, Pending, Shows, Done, After
<1>7. req' = [req EXCEPT ![r] = q]
  BY <1>1, <1>4 DEF ReadLatest
<1>8. ~Writes(q)
  BY <1>5 DEF Writes
<1>9. QED
  BY <1>5, <1>6, <1>7, <1>8, QuietStep DEF RInv, Typed, ReadLatest

(* What was read goes out as it is, or is rebuilt. *)
LEMMA ReadLifecycleHolds ==
  ASSUME RInv, NEW r \in Requests, ReadLifecycle(r)
  PROVE  RInv'
<1>1. Right(req[r], events, row, clock) /\ req[r].pc = "lifecycle"
  BY DEF RInv, ReadLifecycle, At
<1>2. events # {} /\ req[r].write = Nothing /\ req[r].op \in Snapshotting
  BY <1>1 DEF Right, Phase
<1>3. PICK pc \in {"flushed", "stale"} : Goto(r, pc)
  BY DEF ReadLifecycle
<1>4. PICK q \in RequestRow :
         /\ q.pc = pc /\ q.op = req[r].op /\ q.key = req[r].key /\ q.loaded = req[r].loaded
         /\ q.mem = req[r].mem /\ q.write = req[r].write /\ q.floor = req[r].floor
         /\ Right(q, events, row, clock) => RInv'
  BY <1>2, <1>3, GotoStep DEF ReadLifecycle, Pcs
<1>5. After(q, events) = events /\ After(req[r], events) = events
  BY <1>1, <1>2, <1>4 DEF After, Nothing
<1>6. Phase(q, events, row)
  BY <1>1, <1>4 DEF Right, Phase
<1>7. Pending(q, events, row, clock)
  BY <1>2, <1>4, <1>5 DEF Pending, Nothing
<1>8. Shows(q, events)
  BY <1>1, <1>4, <1>5 DEF Right, Shows
<1>9. Done(q, events)
  BY <1>2, <1>4, <1>5, OpsApart, CommittedLog DEF Done, RInv, Typed
<1>10. QED
  BY <1>4, <1>6, <1>7, <1>8, <1>9 DEF Right
-----------------------------------------------------------------------------
(* Requests that take the lock *)

LEMMA InsertSessionHolds ==
  ASSUME RInv, NEW r \in Requests, InsertSession(r)
  PROVE  RInv'
<1>1. Right(req[r], events, row, clock) /\ req[r] \in RequestRow
  BY DEF RInv, Typed
<1>2. req[r].pc = "insert" /\ events = {} /\ MayLock(r) /\ lock' = r
  BY DEF InsertSession, At
<1>3. req[r].op = "create" /\ req[r].device \in Devices
  BY <1>1, <1>2 DEF Right, Phase
<1>4. PICK d \in Devices : d = req[r].device
  BY <1>3
<1>5. PICK e : e = [seq |-> 1, type |-> "session_started", key |-> CreationKey, device |-> d]
  OBVIOUS
<1>6. PICK p : p = [status |-> "active", seq |-> 1, device |-> d, expires |-> LeaseExpiry]
  OBVIOUS
<1>7. LeaseExpiry \in Nat \ {0}
  BY TimeAssumption DEF RInv, Typed, LeaseExpiry
<1>8. p \in ProjectionRow /\ p # Missing
  BY <1>6, <1>7, RowsAreRows DEF ProjectionRow, Statuses
<1>9. /\ {e} \in SUBSET Row(Keys, Devices) /\ Replayable({e}) /\ HasHead({e})
      /\ Latest({e}) = e /\ Status({e}) = "active"
  BY <1>5, StartReplayable, KeyAssumption
<1>10. GoodLog({e}) /\ GoodRow(p, {e})
  BY <1>5, <1>6, <1>7, <1>9, RowsAreRows DEF GoodLog, GoodRow
<1>11. Flush(r, p, {e}, p)
  BY <1>4, <1>5, <1>6 DEF InsertSession
<1>12. PICK q \in RequestRow :
         /\ q.pc = "flushed" /\ q.op = req[r].op /\ q.key = req[r].key /\ q.mem = p
         /\ q.write = [rows |-> {e}, proj |-> p] /\ q.floor = req[r].floor
         /\ Right(q, events, row, clock) => RInv'
  <2>1. PICK rows \in SUBSET Row(Keys, Devices) : rows = {e}
    BY <1>9
  <2>2. p \in Projections /\ Flush(r, p, rows, p)
    BY <1>8, <1>11, <2>1 DEF Projections
  <2>3. UNCHANGED <<clock, vehicleArchived, events, row, answered>>
    BY DEF InsertSession
  <2>4. PICK q \in RequestRow :
          /\ q.pc = "flushed" /\ q.op = req[r].op /\ q.key = req[r].key /\ q.mem = p
          /\ q.write = [rows |-> rows, proj |-> p] /\ q.floor = req[r].floor
          /\ Right(q, events, row, clock) => RInv'
    BY <1>2, <2>2, <2>3, FlushStep
  <2>5. QED
    BY <2>1, <2>4
<1>13. After(q, events) = {e} /\ q.write.rows = {e} /\ q.write.proj = p
  BY <1>2, <1>12 DEF After
<1>14. Phase(q, events, row)
  BY <1>3, <1>12, OpsApart DEF Phase, Snapshotting
<1>15. Extends({e}, events, row)
  BY <1>2, <1>5 DEF Extends
<1>16. KeepsLease(q, row, clock)
  BY <1>2 DEF KeepsLease, RInv, GoodRow
<1>17. Pending(q, events, row, clock)
  BY <1>8, <1>10, <1>13, <1>15, <1>16 DEF Pending
<1>18. q.floor = {}
  BY <1>1, <1>2, <1>12 DEF Right, Shows, Has
<1>19. Reports(p, {}, {e})
  BY <1>6, <1>5, <1>8, <1>9, <1>10, WholeRowReports
<1>20. Shows(q, events)
  BY <1>12, <1>13, <1>18, <1>19 DEF Shows
<1>21. Done(q, events)
  BY <1>3, <1>5, <1>12, <1>13, OpsApart DEF Done, Has, Snapshotting
<1>22. QED
  BY <1>12, <1>14, <1>17, <1>20, <1>21 DEF Right

(* A rebuilt row says what the log says; the lease is the copy's or none.  *)
LEMMA RebuiltIsRight ==
  ASSUME RInv, events # {}, NEW p \in Projections
  PROVE  /\ Rebuilt(p) \in ProjectionRow
         /\ GoodRow(Rebuilt(p), events)
         /\ \/ Rebuilt(p).device = NoDevice /\ Rebuilt(p).expires = 0
            \/ p # Missing /\ Rebuilt(p).device = p.device /\ Rebuilt(p).expires = p.expires
         /\ p = Missing => Rebuilt(p).device = NoDevice
         /\ p # Missing /\ p.device # NoDevice /\ p.expires > clock /\ Status(events) # "archived"
              => Rebuilt(p).device = p.device
<1>1. Status(events) \in Statuses /\ Latest(events).seq \in Nat \ {0} /\ clock \in Nat
  BY CommittedLog DEF RInv, Typed
<1>2. p # Missing => p.device \in Devices \cup {NoDevice} /\ p.expires \in Nat
  BY DEF Projections, ProjectionRow
<1>3. PICK keeps \in BOOLEAN : keeps <=> /\ p # Missing
                                        /\ p.device # NoDevice
                                        /\ p.expires > clock
                                        /\ Status(events) # "archived"
  OBVIOUS
<1>4. Rebuilt(p) = [status |-> Status(events), seq |-> Latest(events).seq,
                    device |-> IF keeps THEN p.device ELSE NoDevice,
                    expires |-> IF keeps THEN p.expires ELSE 0]
  BY <1>3 DEF Rebuilt
<1>5. CASE keeps
  BY <1>1, <1>2, <1>3, <1>4, <1>5 DEF ProjectionRow, GoodRow
<1>6. CASE ~keeps
  BY <1>1, <1>2, <1>3, <1>4, <1>6 DEF ProjectionRow, GoodRow
<1>7. QED
  BY <1>5, <1>6

(* A snapshot that rebuilds the row, with the lock. *)
LEMMA SnapshotWrites ==
  ASSUME RInv, NEW r \in Requests, req[r].pc \in {"missing", "stale"},
         NEW new \in ProjectionRow, new.seq = Latest(events).seq, new.status = Status(events),
         NEW w \in ProjectionRow, GoodRow(w, events),
         NEW q \in RequestRow, q.pc = "flushed", q.op = req[r].op, q.key = req[r].key,
         q.mem = new, q.write = [rows |-> {}, proj |-> w], q.floor = req[r].floor,
         KeepsLease(q, row, clock)
  PROVE  Right(q, events, row, clock)
<1>1. Right(req[r], events, row, clock)
  BY DEF RInv
<1>2. events # {} /\ q.op \in Snapshotting
  BY <1>1 DEF Right, Phase
<1>3. GoodLog(events) /\ events \in SUBSET Row(Keys, Devices)
  BY <1>2 DEF RInv, Typed
<1>4. After(q, events) = events /\ q.write.rows = {} /\ q.write.proj = w
  BY DEF After
<1>5. Phase(q, events, row)
  BY <1>2, OpsApart DEF Phase
<1>6. Pending(q, events, row, clock)
  BY <1>2, <1>4, RowsAreRows DEF Pending
<1>7. \A a \in q.floor : Has(events, a)
  BY <1>1 DEF Right, Shows
<1>8. Shows(q, events)
  BY <1>3, <1>4, <1>7, WholeRowReports DEF Shows
<1>9. Done(q, events)
  BY <1>2, <1>3, <1>4, OpsApart, CommittedLog DEF Done
<1>10. QED
  BY <1>5, <1>6, <1>8, <1>9 DEF Right

LEMMA RepairMissingHolds ==
  ASSUME RInv, NEW r \in Requests, RepairMissing(r)
  PROVE  RInv'
<1>1. req[r] \in RequestRow /\ req \in [Requests -> RequestRow] /\ row \in Projections
  BY DEF RInv, Typed
<1>2. req[r].pc = "missing" /\ MayLock(r) /\ lock' = r
  BY DEF RepairMissing, At
<1>3. Right(req[r], events, row, clock) /\ events # {}
  BY <1>2 DEF RInv, Right, Phase
<1>4. CASE row = Missing
  <2>1. PICK p : p = Rebuilt(Missing)
    OBVIOUS
  <2>2. p \in ProjectionRow /\ GoodRow(p, events)
    BY <1>3, <2>1, RebuiltIsRight DEF Projections
  <2>3. Flush(r, p, {}, p)
    BY <1>4, <2>1 DEF RepairMissing
  <2>4. PICK q \in RequestRow :
          /\ q.pc = "flushed" /\ q.op = req[r].op /\ q.key = req[r].key /\ q.mem = p
          /\ q.write = [rows |-> {}, proj |-> p] /\ q.floor = req[r].floor
          /\ Right(q, events, row, clock) => RInv'
    BY <1>2, <2>2, <2>3, FlushStep DEF RepairMissing, Projections
  <2>5. KeepsLease(q, row, clock)
    BY <1>4 DEF KeepsLease
  <2>6. Right(q, events, row, clock)
    BY <1>2, <2>2, <2>4, <2>5, SnapshotWrites DEF GoodRow
  <2>7. QED
    BY <2>4, <2>6
<1>5. CASE row # Missing
  <2>1. PICK q : q = [req[r] EXCEPT !.loaded = row, !.mem = row, !.pc = "latest"]
    OBVIOUS
  <2>2. /\ q \in RequestRow
        /\ q.op = req[r].op /\ q.key = req[r].key /\ q.write = req[r].write
        /\ q.floor = req[r].floor /\ q.loaded = row /\ q.mem = row /\ q.pc = "latest"
    BY <1>1, <2>1 DEF RequestRow, Pcs
  <2>3. Right(q, events, row, clock)
    BY <1>2, <1>3, <1>5, <2>2, ReadRowIsRight
  <2>4. req' = [req EXCEPT ![r] = q]
    BY <1>1, <1>5, <2>1 DEF RepairMissing
  <2>5. ~Writes(q)
    BY <2>2 DEF Writes
  <2>6. \A t \in Requests : t # r => lock # t
    BY <1>2, NullAssumption DEF MayLock
  <2>7. QED
    BY <1>2, <2>2, <2>3, <2>4, <2>5, <2>6, QuietStep DEF RInv, Typed, RepairMissing
<1>6. QED
  BY <1>4, <1>5

(* Only the columns that differ from the copy are written: over a row that *)
(* has moved on since, the result is still right, and a live lease stays   *)
(* unless the copy's had expired.                                          *)
LEMMA RebuildStaleHolds ==
  ASSUME RInv, NEW r \in Requests, RebuildStale(r)
  PROVE  RInv'
<1>1. Right(req[r], events, row, clock) /\ req[r] \in RequestRow
  BY DEF RInv, Typed
<1>2. req[r].pc = "stale" /\ MayLock(r) /\ lock' = r
  BY DEF RebuildStale, At
<1>3. PICK l : l = req[r].loaded
  OBVIOUS
<1>4. /\ events # {} /\ row # Missing /\ l # Missing
      /\ l.device = NoDevice <=> l.expires = 0
  BY <1>1, <1>2, <1>3 DEF Right, Phase
<1>5. l \in ProjectionRow /\ row \in ProjectionRow /\ GoodRow(row, events) /\ clock \in Nat
  BY <1>1, <1>3, <1>4 DEF RInv, Typed, Projections, RequestRow
<1>6. PICK new : new = Rebuilt(l)
  OBVIOUS
<1>7. /\ new \in ProjectionRow /\ GoodRow(new, events)
      /\ \/ new.device = NoDevice /\ new.expires = 0
         \/ new.device = l.device /\ new.expires = l.expires
      /\ l.device # NoDevice /\ l.expires > clock /\ Status(events) # "archived"
           => new.device = l.device
  BY <1>4, <1>5, <1>6, RebuiltIsRight DEF Projections
<1>8. PICK w : w = ChangedColumns(l, new)
  OBVIOUS
<1>9. /\ w \in ProjectionRow
      /\ w.seq = IF new.seq # l.seq THEN new.seq ELSE row.seq
      /\ w.status = IF new.status # l.status THEN new.status ELSE row.status
      /\ w.device = IF new.device # l.device THEN new.device ELSE row.device
      /\ w.expires = IF new.expires # l.expires THEN new.expires ELSE row.expires
  BY <1>5, <1>7, <1>8 DEF ChangedColumns, ProjectionRow
<1>10. w.seq = Latest(events).seq /\ w.status = Status(events)
  BY <1>5, <1>7, <1>9 DEF GoodRow
<1>11. \/ w.device = NoDevice /\ w.expires = 0
       \/ w.device = row.device /\ w.expires = row.expires
  BY <1>4, <1>7, <1>9
<1>12. GoodRow(w, events)
  BY <1>4, <1>5, <1>10, <1>11 DEF GoodRow
<1>13. Flush(r, new, {}, w)
  BY <1>3, <1>6, <1>8 DEF RebuildStale
<1>14. PICK q \in RequestRow :
         /\ q.pc = "flushed" /\ q.op = req[r].op /\ q.key = req[r].key
         /\ q.device = req[r].device /\ q.loaded = req[r].loaded /\ q.mem = new
         /\ q.write = [rows |-> {}, proj |-> w] /\ q.floor = req[r].floor
         /\ Right(q, events, row, clock) => RInv'
  <2>1. new \in Projections /\ w \in Projections /\ {} \in SUBSET Row(Keys, Devices)
    BY <1>7, <1>9 DEF Projections
  <2>2. UNCHANGED <<clock, vehicleArchived, events, row, answered>>
    BY DEF RebuildStale
  <2>3. QED
    BY <1>2, <1>13, <2>1, <2>2, FlushStep
<1>15. KeepsLease(q, row, clock)
  <2> SUFFICES ASSUME row.device # NoDevice, row.expires > clock, w.device # row.device
               PROVE  w.device = NoDevice /\ l.device # NoDevice /\ l.expires <= clock
    BY <1>3, <1>4, <1>14 DEF KeepsLease
  <2>1. w.device = NoDevice /\ new.device # l.device
    BY <1>9, <1>11
  <2>2. l.device # NoDevice
    BY <1>9, <2>1
  <2>3. Status(events) # "archived"
    BY <1>5 DEF GoodRow
  <2>4. l.expires \in Nat
    BY <1>5 DEF ProjectionRow
  <2>5. QED
    BY <1>5, <1>7, <2>1, <2>2, <2>3, <2>4
<1>16. Right(q, events, row, clock)
  BY <1>2, <1>7, <1>9, <1>12, <1>14, <1>15, SnapshotWrites DEF GoodRow
<1>17. QED
  BY <1>14, <1>16
-----------------------------------------------------------------------------
(* Requests that lock first *)

LEMMA LoadedIsRight ==
  ASSUME RInv, events # {}
  PROVE  /\ Loaded \in ProjectionRow
         /\ GoodRow(Loaded, events)
         /\ row = Missing => Loaded.device = NoDevice
         /\ row # Missing => Loaded = row
<1>1. CASE row = Missing
  BY <1>1, RebuiltIsRight DEF Loaded, Projections
<1>2. CASE row # Missing
  BY <1>2 DEF Loaded, RInv, Typed, Projections
<1>3. QED
  BY <1>1, <1>2

LEMMA LockedRequest ==
  ASSUME RInv, NEW r \in Requests, Takes(r),
         NEW q \in RequestRow, q.pc = "flushed", q.op = req[r].op, q.key = req[r].key,
         q.floor = req[r].floor, Pending(q, events, row, clock),
         q.op \in Mutations => Has(After(q, events), [key |-> q.key, type |-> q.op])
  PROVE  Right(q, events, row, clock)
<1>1. Right(req[r], events, row, clock) /\ req[r].pc = "lock"
  BY DEF RInv, Takes, At
<1>2. q.op \in LeaseOps \cup Mutations
  BY <1>1 DEF Right, Phase
<1>3. q.op \notin Snapshotting /\ q.op # "create"
  BY <1>2, OpsApart DEF Snapshotting
<1>4. Phase(q, events, row)
  BY <1>1 DEF Right, Phase
<1>5. Shows(q, events)
  BY <1>1, <1>3 DEF Right, Shows
<1>6. Done(q, events)
  BY <1>3 DEF Done
<1>7. QED
  BY <1>4, <1>5, <1>6 DEF Right

LEMMA AcquireEditLeaseHolds ==
  ASSUME RInv, NEW r \in Requests, AcquireEditLease(r)
  PROVE  RInv'
<1>1. Takes(r) /\ req[r].pc = "lock" /\ events # {} /\ MayLock(r) /\ lock' = r
  BY DEF AcquireEditLease, Takes, At
<1>2. PICK d \in Devices : d = req[r].device
  BY <1>1 DEF RInv, Right, Phase
<1>3. PICK l : l = Loaded
  OBVIOUS
<1>4. /\ l \in ProjectionRow /\ GoodRow(l, events)
      /\ row # Missing => l = row
      /\ l.status # "archived"
      /\ req[r].op = "takeover" \/ LeaseView(l, d) # "held_by_other"
      /\ req[r].op \in LeaseOps
  BY <1>1, <1>2, <1>3, LoadedIsRight DEF AcquireEditLease
<1>5. LeaseExpiry \in Nat \ {0} /\ clock \in Nat
  BY TimeAssumption DEF RInv, Typed, LeaseExpiry
<1>6. PICK p : p = [l EXCEPT !.device = d, !.expires = LeaseExpiry]
  OBVIOUS
<1>7. /\ p \in ProjectionRow
      /\ p.seq = l.seq /\ p.status = l.status /\ p.device = d /\ p.expires = LeaseExpiry
  BY <1>4, <1>5, <1>6 DEF ProjectionRow
<1>8. GoodRow(p, events)
  BY <1>4, <1>5, <1>7, RowsAreRows DEF GoodRow
<1>9. Flush(r, Missing, {}, p)
  BY <1>2, <1>3, <1>6 DEF AcquireEditLease
<1>10. PICK q \in RequestRow :
         /\ q.pc = "flushed" /\ q.op = req[r].op /\ q.key = req[r].key
         /\ q.write = [rows |-> {}, proj |-> p] /\ q.floor = req[r].floor
         /\ Right(q, events, row, clock) => RInv'
  <2>1. PICK rows \in SUBSET Row(Keys, Devices) : rows = {}
    OBVIOUS
  <2>2. Missing \in Projections /\ p \in Projections /\ Flush(r, Missing, rows, p)
    BY <1>7, <1>9, <2>1 DEF Projections
  <2>3. UNCHANGED <<clock, vehicleArchived, events, row, answered>>
    BY DEF AcquireEditLease
  <2>4. PICK q \in RequestRow :
          /\ q.pc = "flushed" /\ q.op = req[r].op /\ q.key = req[r].key
          /\ q.write = [rows |-> rows, proj |-> p] /\ q.floor = req[r].floor
          /\ Right(q, events, row, clock) => RInv'
    BY <1>1, <2>2, <2>3, FlushStep
  <2>5. QED
    BY <2>1, <2>4
<1>11. After(q, events) = events /\ q.write.rows = {} /\ q.write.proj = p
  BY <1>10 DEF After
<1>12. KeepsLease(q, row, clock)
  <2> SUFFICES ASSUME row # Missing, row.device # NoDevice, row.expires > clock
               PROVE  d = row.device \/ q.op = "takeover"
    BY <1>7, <1>11, RowsAreRows DEF KeepsLease
  <2>1. row.expires \in Nat
    BY DEF RInv, Typed, Projections, ProjectionRow
  <2>2. QED
    BY <1>4, <1>5, <1>10, <2>1 DEF LeaseView
<1>13. Pending(q, events, row, clock)
  BY <1>1, <1>8, <1>11, <1>12 DEF Pending
<1>14. q.op \notin Mutations
  BY <1>4, <1>10, OpsApart
<1>15. QED
  BY <1>1, <1>10, <1>13, <1>14, LockedRequest

(* Who may append is the editor, and what is appended follows the log. *)
LEMMA AppenderIsEditor ==
  ASSUME RInv, NEW r \in Requests, AppendEvent(r)
  PROVE  /\ row # Missing /\ row \in ProjectionRow /\ GoodRow(row, events) /\ Loaded = row
         /\ req[r].device \in Devices /\ row.device = req[r].device
         /\ req[r].op \in Mutations /\ Follows(row.status, req[r].op)
<1>1. Takes(r) /\ req[r].pc = "lock" /\ events # {}
  BY DEF AppendEvent, Takes, At
<1>2. req[r].device \in Devices
  BY <1>1 DEF RInv, Right, Phase
<1>3. Loaded \in ProjectionRow /\ GoodRow(Loaded, events)
  BY <1>1, LoadedIsRight
<1>4. Loaded.device # NoDevice /\ Loaded.device = req[r].device
  BY DEF AppendEvent, MayAppend, LeaseView
<1>5. row # Missing /\ Loaded = row
  BY <1>1, <1>4, LoadedIsRight
<1>6. Follows(row.status, req[r].op)
  <2>1. row.status \in Statuses /\ row.status # "archived"
    BY <1>3, <1>5 DEF ProjectionRow, AppendEvent, MayAppend
  <2>2. StatusTransition(row.status, req[r].op)
    BY <1>5 DEF AppendEvent, MayAppend
  <2>3. QED
    BY <2>1, <2>2 DEF StatusTransition, Follows, Statuses
<1>7. QED
  BY <1>2, <1>3, <1>4, <1>5, <1>6 DEF AppendEvent

LEMMA AppendEventHolds ==
  ASSUME RInv, NEW r \in Requests, AppendEvent(r)
  PROVE  RInv'
<1>1. /\ Takes(r) /\ events # {} /\ MayLock(r) /\ lock' = r
      /\ RowsUnder(req[r].key) = {} /\ req[r] \in RequestRow /\ req[r].pc = "lock"
  BY DEF AppendEvent, Takes, RInv, Typed, At
<1>2. PICK d \in Devices, op \in Mutations, k \in Keys :
        d = req[r].device /\ op = req[r].op /\ k = req[r].key
  BY <1>1, AppenderIsEditor DEF RequestRow
<1>3. /\ row # Missing /\ row \in ProjectionRow /\ GoodRow(row, events) /\ Loaded = row
      /\ row.device = d /\ Follows(row.status, op)
  BY <1>2, AppenderIsEditor
<1>4. /\ events \in SUBSET Row(Keys, Devices) /\ GoodLog(events)
      /\ row.seq = Latest(events).seq /\ row.status = Status(events) /\ row.seq \in Nat \ {0}
  BY <1>1, <1>3 DEF RInv, Typed, GoodRow, ProjectionRow
<1>5. LeaseExpiry \in Nat \ {0}
  BY TimeAssumption DEF RInv, Typed, LeaseExpiry
<1>6. op \in EventTypes /\ op # "session_started"
  BY DEF Mutations
<1>7. PICK e : e = [seq |-> row.seq + 1, type |-> op, key |-> k, device |-> d]
  OBVIOUS
<1>8. e \in Row(Keys, Devices)
  BY <1>4, <1>6, <1>7 DEF Row
<1>9. PICK rows \in SUBSET Row(Keys, Devices) : rows = {e}
  BY <1>8
<1>10. PICK p : p = [status  |-> IF op \in DOMAIN_EVENT_TYPES
                                 THEN row.status ELSE StatusAfterEvent(op),
                     seq     |-> row.seq + 1,
                     device  |-> IF op = "session_archived" THEN NoDevice ELSE d,
                     expires |-> IF op = "session_archived" THEN 0 ELSE LeaseExpiry]
  OBVIOUS
<1>11. /\ Replayable(events \cup {e}) /\ HasHead(events \cup {e})
       /\ Latest(events \cup {e}) = e
       /\ Status(events \cup {e}) = IF op \in LIFECYCLE_EVENT_TYPES
                                    THEN StatusAfterEvent(op) ELSE Status(events)
  BY <1>3, <1>4, <1>7, <1>8, ExtendReplayable DEF GoodLog
<1>12. p.status = Status(events \cup {e})
  BY <1>4, <1>6, <1>10, <1>11 DEF EventTypes, LIFECYCLE_EVENT_TYPES, DOMAIN_EVENT_TYPES
<1>13. p \in ProjectionRow
  <2>1. p.status \in Statuses
    BY <1>3, <1>10 DEF ProjectionRow, StatusAfterEvent, Statuses
  <2>2. QED
    BY <1>4, <1>5, <1>10, <2>1 DEF ProjectionRow
<1>14. GoodRow(p, events \cup {e})
  <2>1. p.seq = Latest(events \cup {e}).seq
    BY <1>7, <1>10, <1>11
  <2>2. p.device = NoDevice <=> p.expires = 0
    BY <1>5, <1>10, RowsAreRows
  <2>3. p.status = "archived" => op = "session_archived"
    BY <1>3, <1>6, <1>10 DEF Follows, StatusAfterEvent, EventTypes,
       LIFECYCLE_EVENT_TYPES, DOMAIN_EVENT_TYPES
  <2>4. QED
    BY <1>10, <1>12, <2>1, <2>2, <2>3 DEF GoodRow
<1>15. Flush(r, Missing, rows, p)
  BY <1>2, <1>3, <1>7, <1>9, <1>10 DEF AppendEvent
<1>16. PICK q \in RequestRow :
         /\ q.pc = "flushed" /\ q.op = req[r].op /\ q.key = req[r].key
         /\ q.write = [rows |-> rows, proj |-> p] /\ q.floor = req[r].floor
         /\ Right(q, events, row, clock) => RInv'
  <2>1. Missing \in Projections /\ p \in Projections
    BY <1>13 DEF Projections
  <2>2. UNCHANGED <<clock, vehicleArchived, events, row, answered>>
    BY DEF AppendEvent
  <2>3. QED
    BY <1>1, <1>15, <2>1, <2>2, FlushStep
<1>17. After(q, events) = events \cup {e} /\ q.write.rows = {e} /\ q.write.proj = p
  BY <1>9, <1>16 DEF After
<1>18. Extends({e}, events, row)
  BY <1>1, <1>2, <1>3, <1>4, <1>7 DEF Extends, RowsUnder
<1>19. KeepsLease(q, row, clock)
  BY <1>2, <1>3, <1>10, <1>16, <1>17 DEF KeepsLease
<1>20. Pending(q, events, row, clock)
  BY <1>13, <1>14, <1>17, <1>18, <1>19, RowsAreRows DEF Pending
<1>21. Has(After(q, events), [key |-> q.key, type |-> q.op])
  BY <1>2, <1>7, <1>16, <1>17 DEF Has
<1>22. QED
  BY <1>1, <1>16, <1>20, <1>21, LockedRequest

LEMMA RepeatEventHolds ==
  ASSUME RInv, NEW r \in Requests, RepeatEvent(r)
  PROVE  RInv'
<1>1. /\ Takes(r) /\ req[r].pc = "lock" /\ events # {} /\ MayLock(r) /\ lock' = r
      /\ \E e \in events : e.key = req[r].key /\ e.type = req[r].op
  BY DEF RepeatEvent, Takes, RowsUnder, At
<1>2. PICK p : p = IF row = Missing THEN Loaded ELSE Missing
  OBVIOUS
<1>3. p \in Projections /\ (p # Missing => row = Missing /\ GoodRow(p, events))
  BY <1>1, <1>2, LoadedIsRight DEF Projections
<1>4. Flush(r, Missing, {}, p)
  BY <1>2 DEF RepeatEvent
<1>5. PICK q \in RequestRow :
         /\ q.pc = "flushed" /\ q.op = req[r].op /\ q.key = req[r].key
         /\ q.write = [rows |-> {}, proj |-> p] /\ q.floor = req[r].floor
         /\ Right(q, events, row, clock) => RInv'
  <2>1. Missing \in Projections /\ {} \in SUBSET Row(Keys, Devices)
    BY DEF Projections
  <2>2. UNCHANGED <<clock, vehicleArchived, events, row, answered>>
    BY DEF RepeatEvent
  <2>3. QED
    BY <1>1, <1>3, <1>4, <2>1, <2>2, FlushStep
<1>6. After(q, events) = events /\ q.write.rows = {} /\ q.write.proj = p
  BY <1>5 DEF After
<1>7. Pending(q, events, row, clock)
  BY <1>1, <1>3, <1>6 DEF Pending, KeepsLease
<1>8. Has(After(q, events), [key |-> q.key, type |-> q.op])
  BY <1>1, <1>5, <1>6 DEF Has
<1>9. QED
  BY <1>1, <1>5, <1>7, <1>8, LockedRequest
-----------------------------------------------------------------------------
(* The commit, the answer, and what happens around the requests *)

(* What a transaction commits: the log grows at its end, and the row says  *)
(* what the log then says.                                                 *)
LEMMA WriteGrowsLog ==
  ASSUME RInv, NEW r \in Requests, Writes(req[r])
  PROVE  /\ After(req[r], events) = events \cup req[r].write.rows
         /\ After(req[r], events) \in SUBSET Row(Keys, Devices)
         /\ GoodLog(After(req[r], events))
         /\ events # {} => \A e \in req[r].write.rows : Latest(events).seq < e.seq
         /\ req[r].write.proj \in ProjectionRow
         /\ GoodRow(req[r].write.proj, After(req[r], events))
<1>1. /\ req[r] \in RequestRow /\ events \in SUBSET Row(Keys, Devices)
      /\ Right(req[r], events, row, clock)
  BY DEF RInv, Typed
<1>2. req[r].pc = "flushed" /\ req[r].write # Nothing
  BY DEF Writes
<1>3. PICK rows \in SUBSET Row(Keys, Devices), p \in Projections :
        req[r].write = [rows |-> rows, proj |-> p] /\ req[r].write.rows = rows
          /\ req[r].write.proj = p
  BY <1>1 DEF RequestRow
<1>4. After(req[r], events) = events \cup rows
  BY <1>2, <1>3 DEF After
<1>5. /\ events \cup rows # {}
      /\ rows # {} => p # Missing /\ Extends(rows, events, row)
      /\ p # Missing => GoodRow(p, events \cup rows)
  BY <1>1, <1>2, <1>3, <1>4 DEF Right, Pending
<1>6. p # Missing
  BY <1>2, <1>3, <1>5 DEF Nothing
<1>7. p \in ProjectionRow
  BY <1>6 DEF Projections
<1>8. GoodLog(events \cup rows) /\ (events # {} => \A e \in rows : Latest(events).seq < e.seq)
  <2>1. CASE rows = {}
    <3>1. events \cup rows = events
      BY <2>1
    <3>2. QED
      BY <1>5, <2>1, <3>1 DEF RInv
  <2>2. CASE rows # {} /\ events = {}
    <3>1. PICK e \in rows : rows = {e} /\
            e = [seq |-> 1, type |-> "session_started", key |-> CreationKey, device |-> e.device]
      BY <1>5, <2>2 DEF Extends
    <3>2. e.device \in Devices
      BY DEF Row
    <3>3. Replayable({e}) /\ HasHead({e})
      BY <3>1, <3>2, StartReplayable, KeyAssumption
    <3>4. events \cup rows = {e}
      BY <2>2, <3>1
    <3>5. e.key = CreationKey /\ e.type = "session_started"
      BY <3>1
    <3>6. GoodLog({e})
      BY <3>3, <3>5 DEF GoodLog
    <3>7. QED
      BY <2>2, <3>4, <3>6
  <2>3. CASE rows # {} /\ events # {}
    <3>1. PICK e \in rows : rows = {e} /\ e.seq = Latest(events).seq + 1
                            /\ Follows(Status(events), e.type)
      BY <1>5, <2>3 DEF Extends
    <3>2. GoodLog(events) /\ e \in Row(Keys, Devices) /\ Latest(events).seq \in Nat
      BY <1>1, <2>3, CommittedLog DEF RInv
    <3>3. Replayable(events \cup {e}) /\ HasHead(events \cup {e})
      BY <1>1, <3>1, <3>2, ExtendReplayable DEF GoodLog
    <3>4. GoodLog(events \cup rows)
      BY <3>1, <3>2, <3>3 DEF GoodLog
    <3>5. QED
      BY <3>1, <3>2, <3>4
  <2>4. QED
    BY <2>1, <2>2, <2>3
<1>9. QED
  BY <1>1, <1>3, <1>4, <1>5, <1>6, <1>7, <1>8

(* A request that has committed is as right as it was. *)
LEMMA CommittedIsRight ==
  ASSUME NEW log, NEW p, NEW p1, NEW now, NEW q0, Right(q0, log, p, now), q0.pc = "flushed",
         NEW q, q.pc = "committed", q.op = q0.op, q.key = q0.key, q.mem = q0.mem,
         q.floor = q0.floor, q.write = Nothing
  PROVE  Right(q, After(q0, log), p1, now)
<1> DEFINE new == After(q0, log)
<1>1. new # {} /\ log \subseteq new
  BY DEF Right, Pending, After
<1>2. After(q, new) = new
  BY DEF After
<1> HIDE DEF new
<1>3. Phase(q, new, p1)
  BY <1>1 DEF Right, Phase
<1>4. Pending(q, new, p1, now)
  BY DEF Pending
<1>5. Shows(q, new)
  BY <1>1, <1>2 DEF Right, Shows, Has, new
<1>6. Done(q, new)
  BY <1>2 DEF Right, Done, new
<1>7. QED
  BY <1>3, <1>4, <1>5, <1>6 DEF Right, new

LEMMA CommitHolds ==
  ASSUME RInv, NEW r \in Requests, Commit(r)
  PROVE  RInv'
<1>1. /\ req[r] \in RequestRow /\ req \in [Requests -> RequestRow]
      /\ Right(req[r], events, row, clock) /\ req[r].pc = "flushed"
  BY DEF RInv, Typed, Commit, At
<1>2. PICK q : q = [req[r] EXCEPT !.pc = "committed", !.loaded = Missing, !.latest = 0,
                                  !.device = NoDevice, !.write = Nothing]
  OBVIOUS
<1>3. /\ q \in RequestRow
      /\ q.pc = "committed" /\ q.op = req[r].op /\ q.key = req[r].key /\ q.mem = req[r].mem
      /\ q.floor = req[r].floor /\ q.write = Nothing
  BY <1>1, <1>2 DEF RequestRow, Pcs, Projections, Nothing
<1>4. req' = [req EXCEPT ![r] = q]
  BY <1>1, <1>2 DEF Commit
<1>5. \A p1 : Right(q, After(req[r], events), p1, clock)
  BY <1>1, <1>3, CommittedIsRight
<1>6. ~Writes(q)
  BY <1>3 DEF Writes
<1>7. /\ lock' \in Requests \cup {NoRequest}
      /\ \A t \in Requests : t # r /\ lock = t => lock' = t
  BY DEF RInv, Typed, Commit
<1>8. CASE ~Writes(req[r])
  <2>1. req[r].write = Nothing
    BY <1>1, <1>8 DEF Writes
  <2>2. events' = events /\ row' = row /\ After(req[r], events) = events
    BY <2>1 DEF Commit, Nothing, After
  <2>3. Right(q, events, row, clock)
    BY <1>5, <2>2
  <2>4. QED
    BY <1>3, <1>4, <1>6, <1>7, <2>2, <2>3, QuietStep DEF RInv, Typed, Commit
<1>9. CASE Writes(req[r])
  <2>1. PICK new : new = After(req[r], events)
    OBVIOUS
  <2>2. PICK p1 : p1 = req[r].write.proj
    OBVIOUS
  <2>3. /\ new = events \cup req[r].write.rows /\ new \in SUBSET Row(Keys, Devices)
        /\ GoodLog(new) /\ p1 \in ProjectionRow /\ GoodRow(p1, new)
        /\ events # {} => \A e \in new \ events : Latest(events).seq < e.seq
    BY <1>9, <2>1, <2>2, WriteGrowsLog
  <2>4. events' = new /\ row' = p1 /\ p1 # Missing /\ UNCHANGED <<clock, answered>>
    BY <2>2, <2>3, RowsAreRows DEF Commit
  <2>5. lock = r
    BY <1>9 DEF RInv
  <2>6. ASSUME NEW t \in Requests, t # r PROVE Right(req[t], new, p1, clock) /\ ~Writes(req[t])
    <3>1. ~Writes(req[t])
      BY <2>5, <2>6 DEF RInv
    <3>2. req[t] \in RequestRow /\ Right(req[t], events, row, clock)
      BY <1>1 DEF RInv
    <3>3. /\ events \in SUBSET Row(Keys, Devices) /\ (events # {} => HasHead(events))
          /\ HasHead(new) /\ new # {} /\ events \subseteq new
      BY <2>3 DEF RInv, Typed, GoodLog, GoodRow
    <3>4. QED
      BY <2>3, <2>4, <3>1, <3>2, <3>3, OthersCommit
  <2>7. /\ req' \in [Requests -> RequestRow] /\ req'[r] = q
        /\ \A t \in Requests : t # r => req'[t] = req[t]
    BY <1>1, <1>3, <1>4
  <2>8. \A t \in Requests : Right(req'[t], events', row', clock') /\ ~Writes(req'[t])
    <3>1. Right(q, new, p1, clock)
      BY <1>5, <2>1
    <3>2. QED
      BY <1>6, <2>4, <2>6, <2>7, <3>1
  <2>9. Typed'
    BY <1>7, <2>3, <2>4, <2>7 DEF RInv, Typed, Projections, Commit
  <2>10. \A a \in answered' : Has(events', a)
    BY <2>3, <2>4 DEF RInv, Has
  <2>11. GoodLog(events') /\ GoodRow(row', events')
    BY <2>3, <2>4
  <2>12. ASSUME NEW t \in Requests, Writes(req[t])' PROVE lock' = t
    BY <2>8, <2>12 DEF Writes
  <2>13. QED
    BY <2>8, <2>9, <2>10, <2>11, <2>12 DEF RInv
<1>10. QED
  BY <1>8, <1>9
LEMMA AnswerHolds ==
  ASSUME RInv, NEW r \in Requests, Answer(r) \/ LoseAnswer(r)
  PROVE  RInv'
<1>1. /\ req[r] \in RequestRow /\ Right(req[r], events, row, clock) /\ req[r].pc = "committed"
      /\ events \in SUBSET Row(Keys, Devices)
  BY DEF RInv, Typed, Answer, LoseAnswer, At
<1>2. GoodLog(events)
  BY <1>1 DEF RInv, Right, Phase
<1>3. AnsweredBy(r) \in SUBSET Answers
  BY <1>1, KeyAssumption DEF AnsweredBy, Answers, RequestRow, Mutations, EventTypes,
     LIFECYCLE_EVENT_TYPES
<1>4. \A a \in AnsweredBy(r) : Has(events, a)
  BY <1>1 DEF AnsweredBy, Right, Done, After
<1>5. answered' \in SUBSET Answers /\ \A a \in answered' : Has(events, a)
  BY <1>3, <1>4 DEF RInv, Typed, Answer, LoseAnswer
<1>6. UNCHANGED <<clock, vehicleArchived, events, row, lock>> /\ req' = [req EXCEPT ![r] = Idle]
  BY DEF Answer, LoseAnswer
<1>7. lock' \in Requests \cup {NoRequest}
  BY <1>6 DEF RInv, Typed
<1>8. QED
  BY <1>5, <1>6, <1>7, IdleIsRight, QuietStep

(* Time takes a lease away, and never gives one. *)
LEMMA TickHolds == RInv /\ Tick => RInv'
<1> SUFFICES ASSUME RInv, Tick PROVE RInv'
  OBVIOUS
<1>1. clock' = clock + 1 /\ clock \in Nat
      /\ UNCHANGED <<vehicleArchived, events, row, lock, req, answered>>
  BY DEF Tick, RInv, Typed
<1>2. PICK now : now = clock + 1
  OBVIOUS
<1>3. ASSUME NEW r \in Requests PROVE Right(req[r], events, row, now)
  <2>1. req[r] \in RequestRow /\ Right(req[r], events, row, clock) /\ row \in Projections
    BY DEF RInv, Typed
  <2>2. KeepsLease(req[r], row, clock) => KeepsLease(req[r], row, now)
    <3>1. req[r].loaded # Missing => req[r].loaded.expires \in Nat
      BY <2>1 DEF RequestRow, Projections, ProjectionRow
    <3>2. row # Missing => row.expires \in Nat
      BY <2>1 DEF Projections, ProjectionRow
    <3>3. QED
      BY <1>1, <1>2, <3>1, <3>2 DEF KeepsLease
  <2>3. Pending(req[r], events, row, now)
    BY <2>1, <2>2 DEF Right, Pending
  <2>4. QED
    BY <2>1, <2>3 DEF Right
<1>4. \A r \in Requests : Right(req'[r], events', row', clock')
  BY <1>1, <1>2, <1>3
<1>5. QED
  BY <1>1, <1>4 DEF RInv, Typed, Writes

LEMMA ArchiveVehicleHolds == RInv /\ ArchiveVehicle => RInv'
BY DEF RInv, Typed, ArchiveVehicle, Writes

LEMMA LoseProjectionHolds == RInv /\ LoseProjection => RInv'
<1> SUFFICES ASSUME RInv, LoseProjection PROVE RInv'
  OBVIOUS
<1>1. /\ row' = Missing
      /\ UNCHANGED <<clock, vehicleArchived, events, lock, req, answered>>
      /\ \A r \in Requests : req[r].pc = "idle"
  BY DEF LoseProjection, At
<1>2. ASSUME NEW r \in Requests PROVE Right(req[r], events, Missing, clock)
  <2>1. Right(req[r], events, row, clock) /\ req[r].pc = "idle"
    BY <1>1 DEF RInv
  <2>2. QED
    BY <2>1 DEF Right, Phase, Pending, Shows, Done
<1>3. \A r \in Requests : Right(req'[r], events', row', clock')
  BY <1>1, <1>2
<1>4. QED
  BY <1>1, <1>3 DEF RInv, Typed, Projections, Writes

LEMMA InitHolds == Init => RInv
<1> SUFFICES ASSUME Init PROVE RInv
  OBVIOUS
<1>1. Typed
  BY IdleIsRight DEF Init, Typed, Projections
<1>2. \A r \in Requests : req[r] = Idle
  BY DEF Init
<1>3. \A r \in Requests : Right(req[r], events, row, clock) /\ ~Writes(req[r])
  BY <1>2, IdleIsRight
<1>4. QED
  BY <1>1, <1>3 DEF RInv, Init

LEMMA StepHolds == RInv /\ [Next]_vars => RInv'
<1> SUFFICES ASSUME RInv, [Next]_vars PROVE RInv'
  OBVIOUS
<1>1. ASSUME UNCHANGED vars PROVE RInv'
  BY <1>1 DEF vars, RInv, Typed, Writes
<1>2. ASSUME Tick \/ ArchiveVehicle \/ LoseProjection PROVE RInv'
  BY <1>2, TickHolds, ArchiveVehicleHolds, LoseProjectionHolds
<1>3. ASSUME NEW r \in Requests, NEW op \in ClientOps, NEW k \in Keys, NEW d \in Devices,
             Begin(r, op, k, d)
      PROVE  RInv'
  BY <1>3, BeginHolds
<1>4. ASSUME NEW r \in Requests, Unlocked(r) PROVE RInv'
  BY <1>4, CheckVehicleHolds, SessionExistsHolds, ReadBundleHolds, ReadLatestHolds,
     ReadLifecycleHolds, CommitHolds, RaiseHolds DEF Unlocked, VehicleRefused, NotFound
<1>5. ASSUME NEW r \in Requests, Locking(r) PROVE RInv'
  BY <1>5, InsertSessionHolds, RepairMissingHolds, RebuildStaleHolds, AcquireEditLeaseHolds,
     AppendEventHolds, RepeatEventHolds, RaiseHolds
     DEF Locking, LeaseRefused, MutationRefused
<1>6. ASSUME NEW r \in Requests, Rollback(r) \/ Answer(r) \/ LoseAnswer(r) PROVE RInv'
  BY <1>6, RaiseHolds, AnswerHolds DEF Rollback
<1>7. QED
  BY <1>1, <1>2, <1>3, <1>4, <1>5, <1>6 DEF Next

(* Whatever requests overlap, the invariant holds in every state.          *)
THEOREM RequestsInvariant == Spec => []RInv
BY InitHolds, StepHolds, PTL DEF Spec
-----------------------------------------------------------------------------
(* The properties *)

(* Every variable keeps its type, and only the transaction that holds the  *)
(* row lock of the session has something to commit.                        *)
THEOREM RequestsTyped == Spec => []TypeOK
<1>1. RInv => TypeOK
  <2> SUFFICES ASSUME RInv PROVE TypeOK
    OBVIOUS
  <2>1. Typed
    BY DEF RInv
  <2>2. ASSUME NEW r \in Requests
        PROVE  /\ req[r].pc \in Pcs
               /\ req[r].op \in ClientOps \cup {"snapshot"}
               /\ {req[r].mem, req[r].loaded} \subseteq ProjectionRow \cup {Missing}
               /\ req[r].write.rows \subseteq Row(Keys, Devices)
               /\ req[r].write.proj \in ProjectionRow \cup {Missing}
               /\ req[r].pc = "flushed" /\ req[r].write # Nothing => lock = r
    <3>1. req[r] \in RequestRow
      BY <2>1 DEF Typed
    <3>2. QED
      BY <3>1 DEF RInv, Writes, RequestRow, Projections
  <2>3. QED
    BY <2>1, <2>2 DEF TypeOK, Typed, Projections, Answers, Pcs
<1>2. QED
  BY <1>1, RequestsInvariant, PTL

(* What is committed of the projection is what the committed log says.     *)
THEOREM CommittedRowAlwaysRight == Spec => []CommittedRowIsRight
<1>1. RInv => CommittedRowIsRight
  BY DEF RInv, GoodRow, CommittedRowIsRight
<1>2. QED
  BY <1>1, RequestsInvariant, PTL

(* An answered write is in the log, and in every later snapshot.           *)
THEOREM AnswersAlwaysKept == Spec => []AnswersAreKept
<1>1. RInv => AnswersAreKept
  <2> SUFFICES ASSUME RInv PROVE AnswersAreKept
    OBVIOUS
  <2>1. AnsweredIsCommitted
    BY DEF RInv, Has, AnsweredIsCommitted
  <2>2. ASSUME NEW r \in Requests, req[r].pc = "committed", req[r].op \in Snapshotting
        PROVE  Reports(req[r].mem, req[r].floor, events)
    BY <2>2 DEF RInv, Right, Shows, After
  <2>3. SnapshotShowsAnsweredWrites
    BY <2>2 DEF SnapshotShowsAnsweredWrites, Snapshots, At, Reports, RowsUnder
  <2>4. QED
    BY <2>1, <2>3 DEF AnswersAreKept
<1>2. QED
  BY <1>1, RequestsInvariant, PTL

(* The status a snapshot reports is the one its last event left.           *)
THEOREM SnapshotsAlwaysConsistent == Spec => []SnapshotIsConsistent
<1>1. RInv => SnapshotIsConsistent
  <2> SUFFICES ASSUME RInv, NEW r \in Requests, req[r].pc = "committed",
                      req[r].op \in Snapshotting
               PROVE  req[r].mem.status = Status(Before(events, req[r].mem.seq + 1))
    BY DEF SnapshotIsConsistent, Snapshots, At
  <2>1. Reports(req[r].mem, req[r].floor, events)
    BY DEF RInv, Right, Shows, After
  <2>2. QED
    BY <2>1 DEF Reports
<1>2. QED
  BY <1>1, RequestsInvariant, PTL
-----------------------------------------------------------------------------
(* The log changes by commits alone, and a commit extends it by one row.   *)
LEMMA OnlyCommitsWrite ==
  ASSUME RInv, [Next]_vars, \/ events' # events
                            \/ row' # row /\ row' # Missing
  PROVE  \E r \in Requests :
           /\ Commits(r) /\ Writes(req[r]) /\ req[r] \in RequestRow
           /\ Right(req[r], events, row, clock)
           /\ events' = events \cup req[r].write.rows
           /\ row' = req[r].write.proj
           /\ req[r].write.rows # {} => Extends(req[r].write.rows, events, row)
<1>1. PICK r \in Requests : Commit(r)
  <2>1. \A r \in Requests : Raise(r) => UNCHANGED <<events, row>>
    BY DEF Raise
  <2>2. ASSUME NEW r \in Requests, Locking(r) PROVE UNCHANGED <<events, row>>
    BY <2>1, <2>2 DEF Locking, InsertSession, RepairMissing, RebuildStale, AcquireEditLease,
       LeaseRefused, AppendEvent, RepeatEvent, MutationRefused
  <2>3. ASSUME NEW r \in Requests, Unlocked(r) PROVE UNCHANGED <<events, row>> \/ Commit(r)
    BY <2>1, <2>3 DEF Unlocked, CheckVehicle, VehicleRefused, SessionExists, ReadBundle,
       NotFound, ReadLatest, ReadLifecycle
  <2>4. ASSUME NEW r \in Requests, Rollback(r) \/ Answer(r) \/ LoseAnswer(r)
        PROVE  UNCHANGED <<events, row>>
    BY <2>1, <2>4 DEF Rollback, Answer, LoseAnswer
  <2>5. QED
    BY <2>2, <2>3, <2>4 DEF Next, vars, Tick, ArchiveVehicle, LoseProjection, Begin
<1>2. /\ req \in [Requests -> RequestRow] /\ req[r] \in RequestRow /\ req[r].pc = "flushed"
      /\ Right(req[r], events, row, clock)
  BY <1>1 DEF RInv, Typed, Commit, At
<1>3. Commits(r)
  BY <1>1, <1>2 DEF Commit, Commits, At
<1>4. req[r].write # Nothing
  BY <1>1 DEF Commit, Nothing
<1>5. Writes(req[r])
  BY <1>2, <1>4 DEF Writes
<1>6. req[r].write.proj # Missing
  BY <1>5, WriteGrowsLog, RowsAreRows
<1>7. events' = events \cup req[r].write.rows /\ row' = req[r].write.proj
  BY <1>1, <1>6 DEF Commit
<1>8. req[r].write.rows # {} => Extends(req[r].write.rows, events, row)
  BY <1>2 DEF Right, Pending
<1>9. QED
  BY <1>2, <1>3, <1>5, <1>7, <1>8

LEMMA SameLogOperators ==
  /\ History!EventTypes = EventTypes
  /\ \A rows : History!Latest(rows) = Latest(rows)
  /\ \A rows : History!Status(rows) = Status(rows)
  /\ \A status, type : History!Follows(status, type) <=> Follows(status, type)
<1>1. /\ History!LIFECYCLE_EVENT_TYPES = LIFECYCLE_EVENT_TYPES
      /\ History!DOMAIN_EVENT_TYPES = DOMAIN_EVENT_TYPES
  BY DEF History!LIFECYCLE_EVENT_TYPES, LIFECYCLE_EVENT_TYPES,
         History!DOMAIN_EVENT_TYPES, DOMAIN_EVENT_TYPES
<1>2. History!EventTypes = EventTypes
  BY <1>1 DEF History!EventTypes, EventTypes
<1>3. ASSUME NEW rows PROVE History!Latest(rows) = Latest(rows)
  BY DEF History!Latest, Latest
<1>4. ASSUME NEW rows PROVE History!Status(rows) = Status(rows)
  <2>1. History!LifecycleRows(rows) = LifecycleRows(rows)
    BY <1>1 DEF History!LifecycleRows, LifecycleRows
  <2>2. \A type : History!StatusAfterEvent(type) = StatusAfterEvent(type)
    BY DEF History!StatusAfterEvent, StatusAfterEvent
  <2>3. QED
    BY <2>1, <2>2, <1>3 DEF History!Status, Status
<1>5. ASSUME NEW status, NEW type
      PROVE  History!Follows(status, type) <=> Follows(status, type)
  BY <1>1 DEF History!Follows, Follows
<1>6. QED
  BY <1>2, <1>3, <1>4, <1>5

(* Every change of the log is a step of the abstract history.              *)
LEMMA RequestsRefine ==
  RInv /\ [Next]_vars => [events' # events => History!Next]_vars
<1> SUFFICES ASSUME RInv, [Next]_vars, events' # events PROVE History!Next
  OBVIOUS
<1>1. PICK r \in Requests :
        /\ req[r] \in RequestRow
        /\ events' = events \cup req[r].write.rows
        /\ req[r].write.rows # {} => Extends(req[r].write.rows, events, row)
  BY OnlyCommitsWrite
<1>2. PICK rows \in SUBSET Row(Keys, Devices) : rows = req[r].write.rows
  BY <1>1 DEF RequestRow
<1>3. rows # {} /\ events' = events \cup rows /\ Extends(rows, events, row)
  BY <1>1, <1>2
<1>4. CASE events = {}
  <2>1. PICK e \in rows : rows = {e} /\
          e = [seq |-> 1, type |-> "session_started", key |-> CreationKey, device |-> e.device]
    BY <1>3, <1>4 DEF Extends
  <2>2. e.device \in Devices
    BY DEF Row
  <2>3. events' = {[seq |-> 1, type |-> "session_started", key |-> CreationKey,
                    device |-> e.device]}
    BY <1>3, <1>4, <2>1
  <2>4. History!Start(CreationKey, CreationKey, e.device)
    BY <1>4, <2>3 DEF History!Start
  <2>5. QED
    BY <2>2, <2>4, KeyAssumption DEF History!Next
<1>5. CASE events # {}
  <2>1. PICK e \in rows : /\ rows = {e} /\ e.seq = Latest(events).seq + 1
                          /\ Follows(Status(events), e.type)
                          /\ \A f \in events : f.key # e.key
    BY <1>3, <1>5 DEF Extends
  <2>2. e \in Row(Keys, Devices) /\ e.type \in EventTypes /\ e.key \in Keys /\ e.device \in Devices
    BY DEF Row
  <2>3. e = [seq |-> Latest(events).seq + 1, type |-> e.type, key |-> e.key, device |-> e.device]
    BY <2>1, <2>2 DEF Row
  <2>4. events' = events \cup {[seq |-> Latest(events).seq + 1, type |-> e.type, key |-> e.key,
                                device |-> e.device]}
    BY <1>3, <2>1, <2>3
  <2>5. History!Extend(CreationKey, e.type, e.key, e.device)
    BY <1>5, <2>1, <2>4, SameLogOperators DEF History!Extend
  <2>6. QED
    BY <2>2, <2>5, SameLogOperators DEF History!Next
<1>6. QED
  BY <1>4, <1>5

(* Overlapping requests implement the abstract history.                    *)
THEOREM RequestsImplementHistory == Spec => ImplementsHistory
<1>1. Init => History!Init
  BY DEF Init, History!Init
<1>2. QED
  BY <1>1, RequestsInvariant, RequestsRefine, PTL DEF Spec, ImplementsHistory

(* A request lets a mutation through only by a step that flushes one.      *)
LEMMA NotLetThrough ==
  ASSUME RInv, NEW t \in Requests, NEW q, req' = [req EXCEPT ![t] = q],
         q.op \in Mutations /\ q.write.rows # {} => LetThrough(t),
         NEW r \in Requests, LetThrough(r)'
  PROVE  LetThrough(r)
<1>1. req \in [Requests -> RequestRow]
  BY DEF RInv, Typed
<1>2. req'[r].op \in Mutations /\ req'[r].write.rows # {}
  BY DEF LetThrough
<1>3. CASE r = t
  BY <1>1, <1>2, <1>3
<1>4. CASE r # t
  <2>1. req'[r] = req[r]
    BY <1>1, <1>4
  <2>2. QED
    BY <1>2, <2>1 DEF LetThrough
<1>5. QED
  BY <1>3, <1>4

LEMMA EndLetsNothingThrough ==
  ASSUME RInv, NEW t \in Requests, Raise(t) \/ Answer(t) \/ LoseAnswer(t),
         NEW r \in Requests, LetThrough(r)'
  PROVE  LetThrough(r)
<1>1. req' = [req EXCEPT ![t] = Idle]
  BY DEF Raise, Answer, LoseAnswer
<1>2. Idle.write.rows = {}
  BY DEF Idle, Nothing
<1>3. QED
  BY <1>1, <1>2, NotLetThrough

LEMMA FlushLetsNothingThrough ==
  ASSUME RInv, NEW t \in Requests, NEW mem, NEW rows, NEW proj, Flush(t, mem, rows, proj),
         rows = {} \/ req[t].op \notin Mutations,
         NEW r \in Requests, LetThrough(r)'
  PROVE  LetThrough(r)
<1>1. req[t] \in RequestRow /\ req \in [Requests -> RequestRow]
  BY DEF RInv, Typed
<1>2. PICK q : q = [req[t] EXCEPT !.pc = "flushed", !.mem = mem,
                                  !.write = [rows |-> rows, proj |-> proj]]
  OBVIOUS
<1>3. q.op = req[t].op /\ q.write.rows = rows
  BY <1>1, <1>2 DEF RequestRow
<1>4. req' = [req EXCEPT ![t] = q]
  BY <1>1, <1>2 DEF Flush
<1>5. QED
  BY <1>3, <1>4, NotLetThrough

LEMMA ReadLetsNothingThrough ==
  ASSUME RInv, NEW t \in Requests, NEW pc, NEW loaded, NEW mem, NEW latest,
         req' = [req EXCEPT ![t].pc = pc, ![t].loaded = loaded, ![t].mem = mem,
                            ![t].latest = latest],
         NEW r \in Requests, LetThrough(r)'
  PROVE  LetThrough(r)
<1>1. req[t] \in RequestRow /\ req \in [Requests -> RequestRow]
  BY DEF RInv, Typed
<1>2. PICK q : q = [req[t] EXCEPT !.pc = pc, !.loaded = loaded, !.mem = mem, !.latest = latest]
  OBVIOUS
<1>3. q.op = req[t].op /\ q.write = req[t].write
  BY <1>1, <1>2 DEF RequestRow
<1>4. req' = [req EXCEPT ![t] = q]
  BY <1>1, <1>2
<1>5. q.op \in Mutations /\ q.write.rows # {} => LetThrough(t)
  BY <1>3 DEF LetThrough
<1>6. QED
  BY <1>4, <1>5, NotLetThrough

LEMMA UnlockedLetsNothingThrough ==
  ASSUME RInv, NEW t \in Requests, Unlocked(t), NEW r \in Requests, LetThrough(r)'
  PROVE  LetThrough(r)
<1>1. req[t] \in RequestRow /\ req \in [Requests -> RequestRow]
  BY DEF RInv, Typed
<1>2. ASSUME NEW pc, Goto(t, pc) PROVE LetThrough(r)
  <2>1. req' = [req EXCEPT ![t].pc = pc, ![t].loaded = req[t].loaded, ![t].mem = req[t].mem,
                           ![t].latest = req[t].latest]
    BY <1>1, <1>2 DEF Goto, RequestRow
  <2>2. QED
    BY <2>1, ReadLetsNothingThrough
<1>3. CASE ReadBundle(t)
  <2>1. PICK pc : pc = IF row = Missing THEN "missing" ELSE "latest"
    OBVIOUS
  <2>2. req' = [req EXCEPT ![t].pc = pc, ![t].loaded = row, ![t].mem = row,
                           ![t].latest = req[t].latest]
    BY <1>1, <1>3, <2>1 DEF ReadBundle, RequestRow
  <2>3. QED
    BY <2>2, ReadLetsNothingThrough
<1>4. CASE ReadLatest(t)
  <2>1. req' = [req EXCEPT ![t].pc = "lifecycle", ![t].loaded = req[t].loaded,
                           ![t].mem = req[t].mem, ![t].latest = Latest(events).seq]
    BY <1>1, <1>4 DEF ReadLatest, RequestRow
  <2>2. QED
    BY <2>1, ReadLetsNothingThrough
<1>5. CASE Commit(t)
  <2>1. PICK q : q = [req[t] EXCEPT !.pc = "committed", !.loaded = Missing, !.latest = 0,
                                    !.device = NoDevice, !.write = Nothing]
    OBVIOUS
  <2>2. q.write.rows = {}
    BY <1>1, <2>1 DEF RequestRow, Nothing
  <2>3. req' = [req EXCEPT ![t] = q]
    BY <1>1, <1>5, <2>1 DEF Commit
  <2>4. QED
    BY <2>2, <2>3, NotLetThrough
<1>6. CASE Raise(t)
  BY <1>6, EndLetsNothingThrough
<1>7. QED
  BY <1>2, <1>3, <1>4, <1>5, <1>6 DEF Unlocked, CheckVehicle, VehicleRefused, SessionExists,
     NotFound, ReadLifecycle

(* Of the requests that lock, append_status_event and the domain mutations. *)
LEMMA LockingLetsThrough ==
  ASSUME RInv, NEW t \in Requests, Locking(t), NEW r \in Requests, LetThrough(r)'
  PROVE  LetThrough(r) \/ AppendEvent(t)
<1>1. req[t] \in RequestRow /\ req \in [Requests -> RequestRow]
      /\ Right(req[t], events, row, clock)
  BY DEF RInv, Typed
<1>2. CASE InsertSession(t)
  <2>1. req[t].op = "create" /\ req[t].op \notin Mutations
    BY <1>1, <1>2, OpsApart DEF InsertSession, At, Right, Phase, Snapshotting
  <2>2. \E mem, rows, proj : Flush(t, mem, rows, proj)
    BY <1>2 DEF InsertSession
  <2>3. QED
    BY <2>1, <2>2, FlushLetsNothingThrough
<1>3. CASE RepairMissing(t)
  <2>1. CASE row = Missing
    BY <1>3, <2>1, FlushLetsNothingThrough DEF RepairMissing
  <2>2. CASE row # Missing
    <3>1. req' = [req EXCEPT ![t].loaded = row, ![t].mem = row, ![t].pc = "latest"]
      BY <1>3, <2>2 DEF RepairMissing
    <3>2. req' = [req EXCEPT ![t].pc = "latest", ![t].loaded = row, ![t].mem = row,
                             ![t].latest = req[t].latest]
      BY <1>1, <3>1 DEF RequestRow
    <3>3. QED
      BY <3>2, ReadLetsNothingThrough
  <2>3. QED
    BY <2>1, <2>2
<1>4. CASE RebuildStale(t)
  <2>1. \E mem, proj : Flush(t, mem, {}, proj)
    BY <1>4 DEF RebuildStale
  <2>2. QED
    BY <2>1, FlushLetsNothingThrough
<1>5. CASE AcquireEditLease(t) \/ RepeatEvent(t)
  <2>1. \E mem, proj : Flush(t, mem, {}, proj)
    BY <1>5 DEF AcquireEditLease, RepeatEvent
  <2>2. QED
    BY <2>1, FlushLetsNothingThrough
<1>6. CASE LeaseRefused(t) \/ MutationRefused(t)
  BY <1>6, EndLetsNothingThrough DEF LeaseRefused, MutationRefused
<1>7. QED
  BY <1>2, <1>3, <1>4, <1>5, <1>6 DEF Locking

LEMMA LetThroughByAppend ==
  ASSUME RInv, [Next]_vars, NEW r \in Requests, LetThrough(r)', ~LetThrough(r)
  PROVE  AppendEvent(r)
<1>1. req' # req
  BY DEF LetThrough
<1>2. ASSUME NEW t \in Requests, NEW op \in ClientOps, NEW k \in Keys, NEW d \in Devices,
             Begin(t, op, k, d)
      PROVE  FALSE
  <2>1. PICK a, b, c :
          req' = [req EXCEPT ![t] = [Idle EXCEPT !.op = op, !.key = k, !.device = a,
                                                 !.floor = b, !.pc = c]]
    BY <1>2 DEF Begin
  <2>2. PICK q : q = [Idle EXCEPT !.op = op, !.key = k, !.device = a, !.floor = b, !.pc = c]
    OBVIOUS
  <2>3. q.write.rows = {}
    BY <2>2 DEF Idle, Nothing
  <2>4. QED
    BY <2>1, <2>2, <2>3, NotLetThrough
<1>3. PICK t \in Requests : AppendEvent(t)
  BY <1>1, <1>2, UnlockedLetsNothingThrough, LockingLetsThrough, EndLetsNothingThrough
     DEF Next, vars, Tick, ArchiveVehicle, LoseProjection, Rollback
<1>4. t = r
  <2>1. req \in [Requests -> RequestRow]
    BY DEF RInv, Typed
  <2>2. t # r => req'[r] = req[r]
    BY <1>3, <2>1 DEF AppendEvent, Flush
  <2>3. QED
    BY <2>2 DEF LetThrough
<1>5. QED
  BY <1>3, <1>4

(* A mutation that was let through has the row lock until its end.         *)
LEMMA LetThroughHolds ==
  ASSUME RInv, [Next]_vars, NEW r \in Requests, LetThrough(r), LetThrough(r)'
  PROVE  row' = row
<1>1. req[r].pc = "flushed" /\ req[r].write # Nothing
  BY DEF LetThrough, RInv, Right, Phase, Nothing
<1>2. lock = r
  BY <1>1 DEF RInv, Writes
<1>3. ASSUME row' # row, row' # Missing PROVE FALSE
  <2>1. PICK t \in Requests : Commits(t) /\ Writes(req[t])
    BY <1>3, OnlyCommitsWrite
  <2>2. t = r
    BY <1>2, <2>1 DEF RInv
  <2>3. req'[r].pc = "committed"
    BY <2>1, <2>2 DEF Commits
  <2>4. req'[r].write = Nothing
    BY <2>3, StepHolds DEF RInv, Right, Phase
  <2>5. QED
    BY <2>4 DEF LetThrough, Nothing
<1>4. ASSUME row' # row, row' = Missing PROVE FALSE
  <2>1. ~LoseProjection
    BY <1>1 DEF LoseProjection, At
  <2>2. \A t \in Requests : Raise(t) => UNCHANGED row
    BY DEF Raise
  <2>3. ASSUME NEW t \in Requests, Locking(t) PROVE UNCHANGED row
    BY <2>2, <2>3 DEF Locking, InsertSession, RepairMissing, RebuildStale, AcquireEditLease,
       LeaseRefused, AppendEvent, RepeatEvent, MutationRefused
  <2>4. ASSUME NEW t \in Requests, Unlocked(t) PROVE UNCHANGED row \/ Commit(t)
    BY <2>2, <2>4 DEF Unlocked, CheckVehicle, VehicleRefused, SessionExists, ReadBundle,
       NotFound, ReadLatest, ReadLifecycle
  <2>5. ASSUME NEW t \in Requests, Commit(t) PROVE row' = row \/ row' # Missing
    BY <2>5 DEF Commit
  <2>6. ASSUME NEW t \in Requests, Rollback(t) \/ Answer(t) \/ LoseAnswer(t) PROVE UNCHANGED row
    BY <2>2, <2>6 DEF Rollback, Answer, LoseAnswer
  <2>7. QED
    BY <1>4, <2>1, <2>3, <2>4, <2>5, <2>6 DEF Next, vars, Tick, ArchiveVehicle, Begin
<1>5. QED
  BY <1>3, <1>4

(* A mutation is let through with a live lease, keeps the row as it was    *)
(* checked until it commits, and lands while its device is the editor.     *)
THEOREM OnlyTheEditorWrites == Spec => WriterIsTheEditor
<1> DEFINE Step ==
      /\ \A r \in Requests :
           LetThrough(r)' => IF LetThrough(r) THEN row' = row
                             ELSE Live(row) /\ row.device = req[r].device
      /\ \A e \in events' \ events :
           events # {} => row # Missing /\ row.device = e.device
<1>1. RInv /\ [Next]_vars => [Step]_vars
  <2> SUFFICES ASSUME RInv, [Next]_vars PROVE Step
    OBVIOUS
  <2>1. ASSUME NEW r \in Requests, LetThrough(r)', LetThrough(r) PROVE row' = row
    BY <2>1, LetThroughHolds
  <2>2. ASSUME NEW r \in Requests, LetThrough(r)', ~LetThrough(r)
        PROVE  Live(row) /\ row.device = req[r].device
    <3>1. AppendEvent(r)
      BY <2>2, LetThroughByAppend
    <3>2. row # Missing /\ Loaded = row /\ row.device = req[r].device /\ row \in ProjectionRow
      BY <3>1, AppenderIsEditor
    <3>3. row.device # NoDevice /\ ~(row.expires <= clock)
      BY <3>1, <3>2 DEF AppendEvent, MayAppend, LeaseView
    <3>4. row.expires > clock
      BY <3>2, <3>3 DEF RInv, Typed, ProjectionRow
    <3>5. QED
      BY <3>2, <3>3, <3>4 DEF Live
  <2>3. ASSUME NEW e \in events' \ events, events # {}
        PROVE  row # Missing /\ row.device = e.device
    <3>1. PICK r \in Requests :
            /\ events' = events \cup req[r].write.rows
            /\ req[r].write.rows # {} => Extends(req[r].write.rows, events, row)
      BY <2>3, OnlyCommitsWrite
    <3>2. QED
      BY <2>3, <3>1 DEF Extends
  <2>4. QED
    BY <2>1, <2>2, <2>3
<1>2. QED
  BY <1>1, RequestsInvariant, PTL DEF Spec, WriterIsTheEditor

(* A live lease moves by a takeover, and is cleared by the archive or by a *)
(* rebuild that had loaded a lease that has expired since.                 *)
LEMMA LiveLeaseStep ==
  ASSUME RInv, [Next]_vars, Live(row), row' # Missing, row'.device # row.device
  PROVE  \E r \in Requests :
           /\ Commits(r)
           /\ row'.device # NoDevice => req[r].op = "takeover"
           /\ row'.device = NoDevice =>
                \/ req[r].op = "session_archived"
                \/ /\ req[r].loaded # Missing /\ req[r].loaded.device # NoDevice
                   /\ req[r].loaded.expires <= clock /\ req[r].loaded # row
<1>1. PICK r \in Requests :
        /\ Commits(r) /\ Writes(req[r])
        /\ Right(req[r], events, row, clock)
        /\ row' = req[r].write.proj
  BY OnlyCommitsWrite
<1>2. KeepsLease(req[r], row, clock)
  BY <1>1, WriteGrowsLog, RowsAreRows DEF Right, Pending, Writes
<1>3. row # Missing /\ row.device # NoDevice /\ row.expires > clock
  BY DEF Live
<1>4. row.expires \in Nat /\ clock \in Nat
  BY <1>3 DEF RInv, Typed, Projections, ProjectionRow
<1>5. \/ row'.device # NoDevice /\ req[r].op = "takeover"
      \/ /\ row'.device = NoDevice
         /\ \/ req[r].op = "session_archived"
            \/ /\ req[r].loaded # Missing /\ req[r].loaded.device # NoDevice
               /\ req[r].loaded.expires <= clock
  BY <1>1, <1>2, <1>3 DEF KeepsLease
<1>6. req[r].loaded.expires <= clock => req[r].loaded # row
  BY <1>3, <1>4
<1>7. QED
  BY <1>1, <1>5, <1>6

(* No editor loses a live lease in any other way.                          *)
THEOREM LeasesAreNotLost == Spec => LeaseIsNotLost
<1> DEFINE Moves == Live(row) /\ row' # Missing /\ row'.device \notin {row.device, NoDevice}
                      => \E r \in Requests : Commits(r) /\ req[r].op = "takeover"
           Drops == Live(row) /\ row' # Missing /\ row'.device = NoDevice
                      => \E r \in Requests : Commits(r) /\
                           \/ req[r].op = "session_archived"
                           \/ /\ req[r].loaded # Missing
                              /\ req[r].loaded.device # NoDevice
                              /\ req[r].loaded.expires <= clock
                              /\ req[r].loaded # row
<1>1. RInv /\ [Next]_vars => [Moves]_vars
  <2> SUFFICES ASSUME RInv, [Next]_vars, Live(row), row' # Missing,
                      row'.device \notin {row.device, NoDevice}
               PROVE  \E r \in Requests : Commits(r) /\ req[r].op = "takeover"
    OBVIOUS
  <2>1. QED
    BY LiveLeaseStep
<1>2. RInv /\ [Next]_vars => [Drops]_vars
  <2> SUFFICES ASSUME RInv, [Next]_vars, Live(row), row' # Missing, row'.device = NoDevice
               PROVE  \E r \in Requests : Commits(r) /\
                        \/ req[r].op = "session_archived"
                        \/ /\ req[r].loaded # Missing
                           /\ req[r].loaded.device # NoDevice
                           /\ req[r].loaded.expires <= clock
                           /\ req[r].loaded # row
    OBVIOUS
  <2>1. row'.device # row.device
    BY DEF Live
  <2>2. QED
    BY <2>1, LiveLeaseStep
<1> HIDE DEF Moves, Drops
<1>3. Spec => [][Moves]_vars /\ [][Drops]_vars
  BY <1>1, <1>2, RequestsInvariant, PTL DEF Spec
<1>4. QED
  BY <1>3 DEF LeaseIsNotLost, LeaseMovesOnlyByTakeover, LeaseDropsOnlyByArchiveOrStaleCopy,
     Moves, Drops
===============================================================================
