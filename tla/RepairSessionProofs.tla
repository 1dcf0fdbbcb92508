-------------------------- MODULE RepairSessionProofs --------------------------
(***************************************************************************)
(* The inductive invariant of RepairSession, and what follows from it for  *)
(* every set of sessions, keys, devices and vehicles and every lease       *)
(* length: the invariants of the run RepairSession, that the service       *)
(* implements SessionHistory, and that the loop of ReplayAlgorithm is what *)
(* SessionLog says of a log.                                               *)
(***************************************************************************)
EXTENDS ReplayAlgorithm, SessionLogProofs, FiniteSetTheorems

(* A projection row as any sequence of requests and damages leaves it.     *)
GoodRow(p, rows) ==
  /\ p \in ProjectionRow
  /\ p.device = NoDevice <=> p.expires = 0
  /\ p.seq <= Latest(rows).seq
  /\ p.seq = Latest(rows).seq => p.status = Status(rows)
  /\ p.status = "archived" => p.device = NoDevice /\ Status(rows) = "archived"

(* What the three tables hold for one session. *)
Good(r, rows, p) ==
  \/ r = NoSession /\ rows = {} /\ p = Missing
  \/ /\ r \in SessionRow
     /\ rows \in SUBSET Row(Keys, Devices)
     /\ Replayable(rows)
     /\ HasHead(rows)
     /\ (\E e \in rows : e.type = "session_archived") <=> Status(rows) = "archived"
     /\ r.archived <=> Status(rows) = "archived"
     /\ p # Missing => GoodRow(p, rows)

IInv ==
  /\ clock \in Nat
  /\ archivedVehicles \subseteq Vehicles
  /\ session \in [Sessions -> SessionRow \cup {NoSession}]
  /\ events \in [Sessions -> SUBSET Row(Keys, Devices)]
  /\ projection \in [Sessions -> ProjectionRow \cup {Missing}]
  /\ \A s \in Sessions : Good(session[s], events[s], projection[s])

-----------------------------------------------------------------------------
(* A step that writes the rows of one session keeps the invariant when the *)
(* rows it leaves are good.                                                *)
LEMMA OneSessionStep ==
  ASSUME IInv, NEW s \in Sessions, NEW r, NEW rows, NEW p,
         session' = [session EXCEPT ![s] = r],
         events' = [events EXCEPT ![s] = rows],
         projection' = [projection EXCEPT ![s] = p],
         UNCHANGED <<clock, archivedVehicles>>,
         Good(r, rows, p)
  PROVE  IInv'
<1>1. r \in SessionRow \cup {NoSession} /\ rows \in SUBSET Row(Keys, Devices)
      /\ p \in ProjectionRow \cup {Missing}
  BY DEF Good, GoodRow
<1>2. \A t \in Sessions : Good(session'[t], events'[t], projection'[t])
  BY DEF IInv
<1>3. QED
  BY <1>1, <1>2 DEF IInv

(* A session that exists has good rows. *)
LEMMA ExistingIsGood ==
  ASSUME IInv, NEW s \in Sessions, session[s] # NoSession
  PROVE  /\ session[s] \in SessionRow
         /\ events[s] \in SUBSET Row(Keys, Devices)
         /\ Replayable(events[s]) /\ HasHead(events[s])
         /\ Status(events[s]) \in Statuses
         /\ ArchivedInLog(s) <=> Status(events[s]) = "archived"
         /\ session[s].archived <=> Status(events[s]) = "archived"
         /\ projection[s] # Missing => GoodRow(projection[s], events[s])
         /\ Latest(events[s]) \in events[s]
         /\ Latest(events[s]).seq \in Nat \ {0}
<1>1. Good(session[s], events[s], projection[s])
  BY DEF IInv
<1>2. Latest(events[s]) \in events[s]
  BY <1>1, LatestIsLast DEF Good
<1>3. Latest(events[s]).seq \in Nat \ {0}
  BY <1>1, <1>2 DEF Good, Row
<1>4. Status(events[s]) \in Statuses
  BY <1>1, ReplayableHasStatus DEF Good
<1>5. QED
  BY <1>1, <1>2, <1>3, <1>4 DEF Good, ArchivedInLog

(* What rebuild_projection writes is a good row, whatever row it replaces. *)
LEMMA RebuiltIsGood ==
  ASSUME IInv, NEW s \in Sessions, session[s] # NoSession
  PROVE  GoodRow(RebuiltProjection(s), events[s])
<1> DEFINE q == RebuiltProjection(s)
<1>1. q.status = Status(events[s]) /\ q.seq = Latest(events[s]).seq
  BY DEF RebuiltProjection
<1>2. CASE PreservesLease(s)
  <2>1. projection[s] \in ProjectionRow /\ Status(events[s]) # "archived"
    BY <1>2, ExistingIsGood DEF PreservesLease, GoodRow
  <2>2. q.device = projection[s].device /\ q.expires = projection[s].expires
    BY <1>2 DEF RebuiltProjection
  <2>3. q.device # NoDevice /\ q.expires # 0
    BY <1>2, <2>2, ExistingIsGood DEF PreservesLease, GoodRow
  <2>4. q \in ProjectionRow
    BY <1>1, <2>1, <2>2, ExistingIsGood DEF ProjectionRow, RebuiltProjection
  <2>5. QED
    BY <1>1, <2>1, <2>3, <2>4, ExistingIsGood DEF GoodRow, ProjectionRow
<1>3. CASE ~PreservesLease(s)
  <2>1. q.device = NoDevice /\ q.expires = 0
    BY <1>3 DEF RebuiltProjection
  <2>2. q \in ProjectionRow
    BY <1>1, <2>1, ExistingIsGood DEF ProjectionRow, RebuiltProjection
  <2>3. QED
    BY <1>1, <2>1, <2>2, ExistingIsGood DEF GoodRow, ProjectionRow
<1>4. QED
  BY <1>2, <1>3
-----------------------------------------------------------------------------
(* Each request keeps the invariant. *)

LEMMA CreateKeeps ==
  ASSUME IInv, NEW s \in Sessions, NEW v \in Vehicles, NEW d \in Devices,
         CreateRepairSession(s, v, d)
  PROVE  IInv'
<1> DEFINE e == [seq |-> 1, type |-> "session_started", key |-> s, device |-> d]
           p == [status |-> "active", seq |-> 1, device |-> d, expires |-> LeaseExpiry]
           r == [vehicle |-> v, archived |-> FALSE]
<1>1. s \in Keys
  BY SessionsAssumption
<1>2. /\ {e} \in SUBSET Row(Keys, Devices)
      /\ Replayable({e}) /\ HasHead({e}) /\ Latest({e}) = e /\ Status({e}) = "active"
  BY <1>1, StartReplayable
<1>3. LeaseExpiry \in Nat \ {0}
  BY LeaseAssumption DEF LeaseExpiry, IInv
<1>4. GoodRow(p, {e})
  BY <1>2, <1>3, NullAssumption DEF GoodRow, ProjectionRow, Statuses
<1>5. Good(r, {e}, p)
  BY <1>2, <1>4 DEF Good, SessionRow
<1>6. /\ session' = [session EXCEPT ![s] = r]
      /\ events' = [events EXCEPT ![s] = {e}]
      /\ projection' = [projection EXCEPT ![s] = p]
      /\ UNCHANGED <<clock, archivedVehicles>>
  BY DEF CreateRepairSession
<1>7. QED
  BY ONLY <1>5, <1>6, IInv, s \in Sessions, OneSessionStep

(* Writing the archive flag the log already implies changes nothing.      *)
LEMMA SameFlag ==
  ASSUME IInv, NEW s \in Sessions, session[s] # NoSession, NEW flag,
         flag = session[s].archived
  PROVE  [session EXCEPT ![s].archived = flag] = session
<1>1. session[s] \in SessionRow
  BY ExistingIsGood
<1>2. [session[s] EXCEPT !.archived = flag] = session[s]
  BY <1>1 DEF SessionRow
<1>3. QED
  BY <1>2 DEF IInv

(* A request that writes no event and leaves a good projection row.        *)
LEMMA SameLogKeeps ==
  ASSUME IInv, NEW s \in Sessions, session[s] # NoSession, NEW p,
         projection' = [projection EXCEPT ![s] = p],
         UNCHANGED <<clock, archivedVehicles, session, events>>,
         p # Missing => GoodRow(p, events[s])
  PROVE  IInv'
<1>1. Good(session[s], events[s], p)
  BY ExistingIsGood DEF Good, ArchivedInLog
<1>2. /\ session' = [session EXCEPT ![s] = session[s]]
      /\ events' = [events EXCEPT ![s] = events[s]]
  BY DEF IInv
<1>3. QED
  BY <1>1, <1>2, OneSessionStep

LEMMA RebuildKeeps ==
  ASSUME IInv, NEW s \in Sessions, session[s] # NoSession,
         RebuildProjection(s), UNCHANGED <<clock, archivedVehicles, events>>
  PROVE  IInv'
<1>1. ArchivedInLog(s) = session[s].archived
  BY ExistingIsGood DEF ArchivedInLog, SessionRow
<1>2. GoodRow(RebuiltProjection(s), events[s])
  BY RebuiltIsGood
<1>3. session' = session
  BY <1>1, SameFlag DEF RebuildProjection
<1>4. projection' = [projection EXCEPT ![s] = RebuiltProjection(s)]
  BY DEF RebuildProjection
<1>5. QED
  BY <1>2, <1>3, <1>4, SameLogKeeps

LEMMA AcquireKeeps ==
  ASSUME IInv, NEW s \in Sessions, NEW d \in Devices, NEW takeover \in BOOLEAN,
         AcquireEditLease(s, d, takeover)
  PROVE  IInv'
<1> DEFINE p == LockedProjection(s)
           q == [p EXCEPT !.device = d, !.expires = LeaseExpiry]
           flag == IF projection[s] = Missing THEN ArchivedInLog(s) ELSE session[s].archived
<1>1. session[s] # NoSession /\ p.status # "archived"
  BY DEF AcquireEditLease
<1>2. GoodRow(p, events[s])
  BY <1>1, RebuiltIsGood, ExistingIsGood DEF LockedProjection
<1>3. LeaseExpiry \in Nat \ {0}
  BY LeaseAssumption DEF LeaseExpiry, IInv
<1>4. GoodRow(q, events[s])
  BY <1>1, <1>2, <1>3, NullAssumption DEF GoodRow, ProjectionRow
<1>5. flag = session[s].archived
  BY <1>1, ExistingIsGood DEF ArchivedInLog, SessionRow
<1>6. /\ session' = session
      /\ projection' = [projection EXCEPT ![s] = q]
      /\ UNCHANGED <<clock, archivedVehicles, events>>
  BY <1>1, <1>5, SameFlag DEF AcquireEditLease
<1> HIDE DEF q
<1>7. QED
  BY <1>1, <1>4, <1>6, SameLogKeeps

LEMMA LoseKeeps ==
  ASSUME IInv, NEW s \in Sessions, LoseProjection(s)
  PROVE  IInv'
<1>1. session[s] # NoSession
  BY NullAssumption DEF IInv, Good, LoseProjection
<1>2. QED
  BY <1>1, SameLogKeeps DEF LoseProjection

LEMMA StaleKeeps ==
  ASSUME IInv, NEW s \in Sessions, NEW e \in events[s], NEW status \in Statuses,
         StaleProjection(s, e.seq, status)
  PROVE  IInv'
<1> DEFINE p == projection[s]
           q == [p EXCEPT !.seq = e.seq, !.status = status]
           n == e.seq
<1>1. session[s] # NoSession
  BY NullAssumption DEF IInv, Good, StaleProjection
<1>2. /\ GoodRow(p, events[s])
      /\ n \in Nat \ {0} /\ Latest(events[s]).seq \in Nat /\ n < Latest(events[s]).seq
  BY <1>1, ExistingIsGood DEF StaleProjection, Row
<1>3. Status(Before(events[s], n + 1)) # "archived"
  <2>1. n + 1 \in 1..Latest(events[s]).seq
    BY <1>1, <1>2, ExistingIsGood
  <2>2. PICK f \in events[s] : f.seq = n + 1
    BY <1>1, <2>1, ExistingIsGood DEF Replayable
  <2>3. QED
    BY <1>1, <2>2, NoRowAfterArchive, ExistingIsGood
<1>4. status = "archived" => p.status = "archived"
  BY <1>3 DEF StaleProjection
<1>5. GoodRow(q, events[s])
  <2>1. p \in ProjectionRow
    BY <1>2 DEF GoodRow
  <2>2. /\ q.seq = n /\ q.status = status /\ q.device = p.device /\ q.expires = p.expires
        /\ q \in ProjectionRow
    BY <2>1, <1>2 DEF ProjectionRow
  <2>3. QED
    BY <2>2, <1>2, <1>4 DEF GoodRow
<1>6. /\ projection' = [projection EXCEPT ![s] = q]
      /\ UNCHANGED <<clock, archivedVehicles, session, events>>
  BY DEF StaleProjection
<1> HIDE DEF q
<1>7. QED
  BY <1>1, <1>5, <1>6, SameLogKeeps

(* The heart of the argument.  A mutation numbers its row after the one    *)
(* the projection names.  If the projection is behind the log that number  *)
(* is taken, and the insert fails; if it is not, its status is the log's,  *)
(* so the row may follow.                                                  *)
LEMMA AppendExtends ==
  ASSUME IInv, NEW s \in Sessions, session[s] # NoSession, projection[s] # Missing,
         NEW type \in EventTypes, NEW k \in Keys, NEW d \in Devices,
         SequenceFree(s, projection[s].seq + 1)
  PROVE  /\ projection[s].seq = Latest(events[s]).seq
         /\ projection[s].status = Status(events[s])
<1> DEFINE n == projection[s].seq
           m == Latest(events[s]).seq
<1>1. GoodRow(projection[s], events[s]) /\ m \in Nat \ {0} /\ Latest(events[s]) \in events[s]
  BY ExistingIsGood
<1>2. n \in Nat \ {0} /\ n <= m
  BY <1>1 DEF GoodRow, ProjectionRow
<1>3. n < m => \E f \in events[s] : f.seq = n + 1
  <2>1. n < m => n + 1 \in 1..m
    BY <1>1, <1>2
  <2>2. QED
    BY <2>1, <1>1, ExistingIsGood DEF Replayable
<1>4. n = m
  BY <1>1, <1>2, <1>3 DEF SequenceFree
<1>5. QED
  BY <1>1, <1>4 DEF GoodRow

LEMMA AppendStatusKeeps ==
  ASSUME IInv, NEW s \in Sessions, NEW type \in LIFECYCLE_EVENT_TYPES,
         NEW k \in Keys, NEW d \in Devices, AppendStatusEvent(s, type, k, d)
  PROVE  IInv'
<1> DEFINE p == projection[s]
           rows == events[s]
           e == [seq |-> p.seq + 1, type |-> type, key |-> k, device |-> d]
           end == type = "session_archived"
           q == [status  |-> StatusAfterEvent(type),
                 seq     |-> p.seq + 1,
                 device  |-> IF end THEN NoDevice ELSE d,
                 expires |-> IF end THEN 0 ELSE LeaseExpiry]
           r == [session[s] EXCEPT !.archived = @ \/ end]
<1>1. /\ session[s] # NoSession /\ p # Missing /\ StatusTransition(p.status, type)
      /\ SequenceFree(s, p.seq + 1)
  BY DEF AppendStatusEvent, AppendRow
<1>2. p.seq = Latest(rows).seq /\ p.status = Status(rows)
  BY <1>1, AppendExtends DEF EventTypes
<1>3. Follows(Status(rows), type) /\ Status(rows) # "archived"
  BY <1>1, <1>2 DEF StatusTransition, Follows
<1>4. /\ rows \in SUBSET Row(Keys, Devices) /\ Replayable(rows) /\ HasHead(rows)
      /\ Latest(rows).seq \in Nat \ {0}
      /\ session[s] \in SessionRow
      /\ session[s].archived = FALSE
      /\ ~ArchivedInLog(s)
  BY <1>1, <1>3, ExistingIsGood DEF SessionRow
<1>5. e \in Row(Keys, Devices)
  BY <1>2, <1>4 DEF Row, EventTypes
<1>6. /\ Replayable(rows \cup {e}) /\ HasHead(rows \cup {e}) /\ Latest(rows \cup {e}) = e
      /\ Status(rows \cup {e}) = StatusAfterEvent(type)
  BY <1>2, <1>3, <1>4, <1>5, ExtendReplayable
<1>7. StatusAfterEvent(type) = "archived" <=> end
  BY DEF StatusAfterEvent, LIFECYCLE_EVENT_TYPES
<1>8. GoodRow(q, rows \cup {e})
  <2>1. LeaseExpiry \in Nat \ {0}
    BY LeaseAssumption DEF LeaseExpiry, IInv
  <2>2. q \in ProjectionRow
    BY <2>1, <1>2, <1>4 DEF ProjectionRow, Statuses, StatusAfterEvent
  <2>3. q.device = NoDevice <=> q.expires = 0
    BY <2>1, NullAssumption
  <2>4. QED
    BY <2>2, <2>3, <1>6, <1>7, <1>2, <1>4 DEF GoodRow
<1>9. Good(r, rows \cup {e}, q)
  <2>1. r \in SessionRow /\ (r.archived <=> end)
    BY <1>4 DEF SessionRow
  <2>2. (\E f \in rows \cup {e} : f.type = "session_archived") <=> end
    <3>1. \A f \in rows : f.type # "session_archived"
      BY <1>4 DEF ArchivedInLog
    <3>2. e.type = type
      OBVIOUS
    <3>3. QED
      BY <3>1, <3>2
  <2>3. QED
    BY <2>1, <2>2, <1>4, <1>5, <1>6, <1>7, <1>8 DEF Good
<1>10. /\ session' = [session EXCEPT ![s] = r]
       /\ events' = [events EXCEPT ![s] = rows \cup {e}]
       /\ projection' = [projection EXCEPT ![s] = q]
       /\ UNCHANGED <<clock, archivedVehicles>>
  BY DEF AppendStatusEvent, AppendRow, IInv
<1> HIDE DEF r, e, q, rows
<1>11. QED
  BY <1>9, <1>10, OneSessionStep

LEMMA AppendDomainKeeps ==
  ASSUME IInv, NEW s \in Sessions, NEW k \in Keys, NEW d \in Devices,
         session[s] # NoSession, projection[s] # Missing,
         projection[s].status # "archived", AppendDomainEvent(s, k, d)
  PROVE  IInv'
<1> DEFINE p == projection[s]
           rows == events[s]
           e == [seq |-> p.seq + 1, type |-> "domain", key |-> k, device |-> d]
           q == [p EXCEPT !.seq = @ + 1, !.device = d, !.expires = LeaseExpiry]
<1>1. /\ session[s] # NoSession /\ p # Missing /\ p.status # "archived"
      /\ SequenceFree(s, p.seq + 1)
  BY DEF AppendDomainEvent, AppendRow
<1>2. p.seq = Latest(rows).seq /\ p.status = Status(rows)
  BY <1>1, AppendExtends DEF EventTypes, DOMAIN_EVENT_TYPES
<1>3. /\ rows \in SUBSET Row(Keys, Devices) /\ Replayable(rows) /\ HasHead(rows)
      /\ Latest(rows).seq \in Nat \ {0}
      /\ session[s] \in SessionRow
      /\ session[s].archived = FALSE
      /\ ~ArchivedInLog(s)
      /\ GoodRow(p, rows) /\ Status(rows) \in Statuses
  BY <1>1, <1>2, ExistingIsGood DEF SessionRow
<1>4. Follows(Status(rows), "domain")
  BY <1>1, <1>2, <1>3 DEF Follows, DOMAIN_EVENT_TYPES, Statuses
<1>5. e \in Row(Keys, Devices)
  BY <1>2, <1>3 DEF Row, EventTypes, DOMAIN_EVENT_TYPES
<1>6. /\ Replayable(rows \cup {e}) /\ HasHead(rows \cup {e}) /\ Latest(rows \cup {e}) = e
      /\ Status(rows \cup {e}) = Status(rows)
  <2>1. "domain" \notin LIFECYCLE_EVENT_TYPES
    BY DEF LIFECYCLE_EVENT_TYPES
  <2>2. QED
    BY <2>1, <1>2, <1>3, <1>4, <1>5, ExtendReplayable
<1>7. GoodRow(q, rows \cup {e})
  <2>1. LeaseExpiry \in Nat \ {0}
    BY LeaseAssumption DEF LeaseExpiry, IInv
  <2>2. p \in ProjectionRow /\ p.seq + 1 \in Nat \ {0}
    BY <1>2, <1>3 DEF GoodRow
  <2>3. /\ q.seq = p.seq + 1 /\ q.status = p.status /\ q.device = d /\ q.expires = LeaseExpiry
        /\ q \in ProjectionRow
    <3> DEFINE n == p.seq + 1
               x == LeaseExpiry
    <3>1. n \in Nat \ {0} /\ x \in Nat /\ p \in ProjectionRow
      BY <2>1, <2>2
    <3>2. q = [p EXCEPT !.seq = n, !.device = d, !.expires = x]
      OBVIOUS
    <3> HIDE DEF n, x, p
    <3>3. LET c == [p EXCEPT !.seq = n, !.device = d, !.expires = x] IN
          /\ c.seq = n /\ c.status = p.status /\ c.device = d /\ c.expires = x
          /\ c \in ProjectionRow
      BY <3>1 DEF ProjectionRow
    <3>4. QED
      BY <3>2, <3>3 DEF n, x
  <2>4. QED
    BY <2>1, <2>3, <1>1, <1>2, <1>3, <1>6, NullAssumption DEF GoodRow
<1>8. Good(session[s], rows \cup {e}, q)
  <2>1. ~(\E f \in rows \cup {e} : f.type = "session_archived")
    BY <1>3 DEF ArchivedInLog
  <2>2. QED
    BY <2>1, <1>1, <1>2, <1>3, <1>5, <1>6, <1>7 DEF Good
<1>9. /\ session' = [session EXCEPT ![s] = session[s]]
      /\ events' = [events EXCEPT ![s] = rows \cup {e}]
      /\ projection' = [projection EXCEPT ![s] = q]
      /\ UNCHANGED <<clock, archivedVehicles>>
  BY DEF AppendDomainEvent, AppendRow, IInv
<1> HIDE DEF e, q, rows
<1>10. QED
  BY <1>8, <1>9, OneSessionStep

-----------------------------------------------------------------------------
(* The row a domain mutation writes comes after every other of its log. *)
LEMMA DomainRowIsLast ==
  ASSUME IInv, NEW s \in Sessions, NEW k \in Keys, NEW d \in Devices,
         session[s] # NoSession, projection[s] # Missing, AppendDomainEvent(s, k, d)
  PROVE  \E e \in Row(Keys, Devices) :
           /\ events' = [events EXCEPT ![s] = events[s] \cup {e}]
           /\ e.key = k /\ e.device = d /\ e.type = "domain"
           /\ \A f \in events[s] : f.key # k /\ f.seq \in Nat /\ f.seq < e.seq
<1> DEFINE e == [seq |-> projection[s].seq + 1, type |-> "domain", key |-> k, device |-> d]
<1>1. /\ events' = [events EXCEPT ![s] = events[s] \cup {e}]
      /\ SequenceFree(s, projection[s].seq + 1) /\ KeyUnused(s, k)
  BY DEF AppendDomainEvent, AppendRow, IInv
<1>2. projection[s].seq = Latest(events[s]).seq
  BY <1>1, AppendExtends DEF EventTypes, DOMAIN_EVENT_TYPES
<1>3. /\ events[s] \in SUBSET Row(Keys, Devices) /\ HasHead(events[s])
      /\ Latest(events[s]).seq \in Nat \ {0}
  BY ExistingIsGood
<1>4. e \in Row(Keys, Devices)
  BY <1>2, <1>3 DEF Row, EventTypes, DOMAIN_EVENT_TYPES
<1>5. \A f \in events[s] : f.key # k /\ f.seq \in Nat /\ f.seq < projection[s].seq + 1
  BY <1>1, <1>2, <1>3, LatestIsLast DEF Row, KeyUnused
<1>6. QED
  BY <1>1, <1>4, <1>5

(* Any rows of a log have a last one themselves. *)
LEMMA SomeRowIsLast ==
  ASSUME IInv, NEW s \in Sessions, NEW rows \in SUBSET events[s], rows # {}
  PROVE  HasHead(rows) /\ Latest(rows) \in rows
<1>1. session[s] # NoSession
  <2>1. Good(session[s], events[s], projection[s]) /\ events[s] # {}
    BY DEF IInv
  <2>2. CASE session[s] \in SessionRow
    BY <2>2, NullAssumption
  <2>3. QED
    BY <2>1, <2>2 DEF Good
<1>2. PICK n \in Nat : \A f \in events[s] : f.seq \in Nat /\ f.seq <= n
  BY <1>1, ExistingIsGood, LatestIsLast DEF Row
<1> DEFINE T == {n - f.seq : f \in rows}
<1>3. T \in SUBSET Nat /\ T # {}
  BY <1>2
<1> HIDE DEF T
<1>4. PICK least \in T : \A m \in T : least <= m
  BY <1>3, LeastNatural
<1>5. PICK e \in rows : least = n - e.seq
  BY <1>4 DEF T
<1>6. ASSUME NEW f \in rows PROVE f.seq <= e.seq
  <2>1. n - f.seq \in T
    BY DEF T
  <2>2. QED
    BY <2>1, <1>2, <1>4, <1>5
<1>7. QED
  BY <1>6, LatestIsLast DEF HasHead

LEMMA InitIInv == Init => IInv
BY DEF Init, IInv, Good

LEMMA NextIInv == IInv /\ [Next]_vars => IInv'
<1> SUFFICES ASSUME IInv, [Next]_vars PROVE IInv'
  OBVIOUS
<1>1. CASE Tick \/ \E v \in Vehicles : ArchiveUserVehicle(v)
  BY <1>1 DEF IInv, Tick, ArchiveUserVehicle
<1>2. ASSUME NEW s \in Sessions, ResumeRepairSession(s) PROVE IInv'
  BY <1>2, RebuildKeeps DEF ResumeRepairSession
<1>3. ASSUME NEW s \in Sessions, NEW v \in Vehicles,
             RepeatCreateRepairSession(s, v) PROVE IInv'
  BY <1>3, <1>2 DEF RepeatCreateRepairSession
<1>4. ASSUME NEW s \in Sessions, EventHistory(s) PROVE IInv'
  BY <1>4, RebuildKeeps DEF EventHistory
<1>5. ASSUME NEW s \in Sessions, NEW k \in Keys, RepeatMutation(s, k) PROVE IInv'
  BY <1>5, RebuildKeeps DEF RepeatMutation
<1>6. ASSUME NEW s \in Sessions, NEW k \in Keys, NEW d \in Devices,
             DomainMutation(s, k, d) PROVE IInv'
  BY <1>6, AppendDomainKeeps DEF DomainMutation, PrepareDomainMutation, HasEditLease
<1>7. CASE UNCHANGED vars
  BY <1>7 DEF IInv, vars
<1>8. QED
  BY <1>1, <1>2, <1>3, <1>4, <1>5, <1>6, <1>7, CreateKeeps, AcquireKeeps, LoseKeeps,
     StaleKeeps, AppendStatusKeeps DEF Next

(* The inductive invariant holds of every reachable state. *)
LEMMA SpecIInv == Spec => []IInv
BY InitIInv, NextIInv, PTL DEF Spec

LEMMA IInvTyped == IInv => TypeOK
<1> SUFFICES ASSUME IInv PROVE TypeOK
  OBVIOUS
<1>1. ASSUME NEW s \in Sessions, projection[s] # Missing
      PROVE  projection[s].device = NoDevice <=> projection[s].expires = 0
  BY <1>1 DEF IInv, Good, GoodRow
<1>2. QED
  BY <1>1 DEF IInv, TypeOK

(* Every variable keeps its type, and a lease has an expiry exactly when   *)
(* it has a device (the lease-pair CHECK of migration 0007).               *)
THEOREM TypeCorrect == Spec => []TypeOK
BY IInvTyped, SpecIInv, PTL

(* Rebuilding a projection never raises REPAIR_SESSION_STATE_CORRUPT.      *)
THEOREM HistoryAlwaysReplays == Spec => []HistoryReplays
<1>1. IInv => HistoryReplays
  BY ExistingIsGood DEF HistoryReplays
<1>2. QED
  BY <1>1, SpecIInv, PTL

(* A projection tells the log's status or is behind the log. *)
THEOREM ProjectionSafe == Spec => []ProjectionBehindOrRight
<1>1. IInv => ProjectionBehindOrRight
  BY DEF IInv, Good, GoodRow, ProjectionBehindOrRight
<1>2. QED
  BY <1>1, SpecIInv, PTL

(* The list of sessions and the archive flag agree with the log. *)
THEOREM ListIsRight == Spec => []ListedSessionsAreOpen
<1>1. IInv => ListedSessionsAreOpen
  <2> SUFFICES ASSUME IInv, NEW s \in Sessions
               PROVE  /\ Listed(s) => projection[s].status # "archived"
                      /\ session[s] # NoSession => (session[s].archived <=> Closed(s))
    BY DEF ListedSessionsAreOpen
  <2>1. QED
    BY ExistingIsGood DEF Listed, GoodRow, Closed, ArchivedInLog
<1>2. QED
  BY <1>1, SpecIInv, PTL

(* An archived session whose projection is current has no editor. *)
THEOREM ArchiveEndsEditing == Spec => []ArchivedSessionHasNoEditor
<1>1. IInv => ArchivedSessionHasNoEditor
  BY DEF IInv, Good, GoodRow, ArchivedSessionHasNoEditor, ProjectionCurrent
<1>2. QED
  BY <1>1, SpecIInv, PTL

-----------------------------------------------------------------------------
(* The service implements the abstract history: every request and every    *)
(* damage is a step of SessionHistory or leaves the history alone.         *)
LEMMA SameOperators ==
  /\ History!EventTypes = EventTypes
  /\ \A rows : History!Latest(rows) = Latest(rows)
  /\ \A rows : History!Status(rows) = Status(rows)
  /\ \A status, type : History!Follows(status, type) <=> Follows(status, type)
<1>1. /\ History!LIFECYCLE_EVENT_TYPES = LIFECYCLE_EVENT_TYPES
      /\ History!DOMAIN_EVENT_TYPES = DOMAIN_EVENT_TYPES
  BY DEF History!LIFECYCLE_EVENT_TYPES, LIFECYCLE_EVENT_TYPES,
         History!DOMAIN_EVENT_TYPES, DOMAIN_EVENT_TYPES
<1>2. History!EventTypes = EventTypes
  BY <1>1 DEF History!EventTypes, EventTypes
<1>3. ASSUME NEW rows PROVE History!Latest(rows) = Latest(rows)
  BY DEF History!Latest, Latest
<1>4. ASSUME NEW rows PROVE History!Status(rows) = Status(rows)
  <2>1. History!LifecycleRows(rows) = LifecycleRows(rows)
    BY <1>1 DEF History!LifecycleRows, LifecycleRows
  <2>2. \A type : History!StatusAfterEvent(type) = StatusAfterEvent(type)
    BY DEF History!StatusAfterEvent, StatusAfterEvent
  <2>3. QED
    BY <2>1, <2>2, <1>3 DEF History!Status, Status
<1>5. ASSUME NEW status, NEW type
      PROVE  History!Follows(status, type) <=> Follows(status, type)
  BY <1>1 DEF History!Follows, Follows
<1>6. QED
  BY <1>2, <1>3, <1>4, <1>5

(* A domain event extends the history, whoever holds the lease by then.    *)
LEMMA DomainExtends ==
  ASSUME IInv, NEW s \in Sessions, NEW k \in Keys, NEW d \in Devices,
         session[s] # NoSession, projection[s] # Missing, projection[s].status # "archived",
         KeyUnused(s, k), AppendDomainEvent(s, k, d)
  PROVE  History!Next
<1>1. "domain" \in EventTypes
  BY DEF EventTypes, DOMAIN_EVENT_TYPES
<1>2. SequenceFree(s, projection[s].seq + 1) /\ \A e \in events[s] : e.key # k
  BY DEF AppendDomainEvent, AppendRow, KeyUnused
<1>3. projection[s].seq = Latest(events[s]).seq /\ projection[s].status = Status(events[s])
  BY <1>1, <1>2, AppendExtends
<1>4. Follows(Status(events[s]), "domain")
  BY <1>2, <1>3, ExistingIsGood DEF Follows, DOMAIN_EVENT_TYPES, Statuses
<1>5. events[s] # {}
  BY ExistingIsGood
<1>6. History!Extend(s, "domain", k, d)
  BY <1>2, <1>3, <1>4, <1>5, SameOperators DEF History!Extend, AppendDomainEvent, AppendRow
<1>7. QED
  BY <1>1, <1>6, SameOperators DEF History!Next

LEMMA StepRefines == IInv /\ [Next]_vars => [History!Next]_events
<1> SUFFICES ASSUME IInv, [Next]_vars, events' # events PROVE History!Next
  OBVIOUS
<1>1. ASSUME NEW s \in Sessions, NEW v \in Vehicles, NEW d \in Devices,
             CreateRepairSession(s, v, d)
      PROVE  History!Next
  <2>1. events[s] = {}
    BY <1>1, NullAssumption DEF IInv, Good, CreateRepairSession
  <2>2. History!Start(s, s, d)
    BY <1>1, <2>1 DEF History!Start, CreateRepairSession
  <2>3. QED
    BY <2>2, SessionsAssumption DEF History!Next
<1>2. ASSUME NEW s \in Sessions, NEW type \in LIFECYCLE_EVENT_TYPES,
             NEW k \in Keys, NEW d \in Devices, AppendStatusEvent(s, type, k, d)
      PROVE  History!Next
  <2>1. type \in EventTypes
    BY DEF EventTypes
  <2>2. /\ session[s] # NoSession /\ projection[s] # Missing
        /\ StatusTransition(projection[s].status, type)
        /\ SequenceFree(s, projection[s].seq + 1)
        /\ \A e \in events[s] : e.key # k
    BY <1>2 DEF AppendStatusEvent, AppendRow, KeyUnused
  <2>3. projection[s].seq = Latest(events[s]).seq /\ projection[s].status = Status(events[s])
    BY <2>1, <2>2, AppendExtends
  <2>4. Follows(Status(events[s]), type)
    BY <2>2, <2>3 DEF StatusTransition, Follows
  <2>5. events[s] # {}
    BY <2>2, ExistingIsGood
  <2>6. History!Extend(s, type, k, d)
    BY <1>2, <2>2, <2>3, <2>4, <2>5, SameOperators DEF History!Extend, AppendStatusEvent, AppendRow
  <2>7. QED
    BY <2>1, <2>6, SameOperators DEF History!Next
<1>3. ASSUME NEW s \in Sessions, NEW k \in Keys, NEW d \in Devices,
             DomainMutation(s, k, d)
      PROVE  History!Next
  BY <1>3, DomainExtends DEF DomainMutation, PrepareDomainMutation, HasEditLease
<1>4. QED
  BY <1>1, <1>2, <1>3 DEF Next, vars, Tick, ArchiveUserVehicle, RepeatCreateRepairSession,
     ResumeRepairSession, EventHistory, AcquireEditLease, RepeatMutation,
     LoseProjection, StaleProjection

THEOREM HistoryRefinement == Spec => ImplementsHistory
<1>1. Init => History!Init
  BY DEF Init, History!Init
<1>2. QED
  BY <1>1, StepRefines, SpecIInv, PTL DEF Spec, ImplementsHistory, History!Spec
-----------------------------------------------------------------------------
(* The two action properties.  Only the appends write a row in a session   *)
(* that exists, and both ask for the lease; only a rebuild and the archive *)
(* clear a lease, and a rebuild of a row that is there keeps a live one    *)
(* unless the log is archived.                                             *)

LEMMA LeaseIsLive ==
  ASSUME IInv, NEW s \in Sessions, NEW d \in Devices, session[s] # NoSession,
         projection[s] # Missing, HasEditLease(projection[s], d)
  PROVE  LiveEditor(s, d)
<1>1. projection[s].expires \in Nat /\ clock \in Nat
  BY ExistingIsGood DEF IInv, GoodRow, ProjectionRow
<1>2. ~(projection[s].expires <= clock) /\ projection[s].device = d
  BY DEF HasEditLease, LeaseView
<1>3. QED
  BY <1>1, <1>2 DEF LiveEditor

(* A step that writes a row of session s is an append by the editor of an  *)
(* open session, or the creation of s.                                     *)
LEMMA WriteStep ==
  ASSUME IInv, [Next]_vars, NEW s \in Sessions, session[s] # NoSession,
         NEW e \in events'[s] \ events[s]
  PROVE  ~Closed(s) /\ LiveEditor(s, e.device)
<1>1. ASSUME NEW t \in Sessions, NEW v \in Vehicles, NEW d \in Devices,
             CreateRepairSession(t, v, d)
      PROVE  FALSE
  BY <1>1 DEF CreateRepairSession, IInv
<1>2. ASSUME NEW t \in Sessions, NEW type \in LIFECYCLE_EVENT_TYPES,
             NEW k \in Keys, NEW d \in Devices, AppendStatusEvent(t, type, k, d)
      PROVE  ~Closed(s) /\ LiveEditor(s, e.device)
  <2>1. t = s /\ e.device = d
    BY <1>2 DEF AppendStatusEvent, AppendRow, IInv
  <2>2. /\ projection[s] # Missing /\ HasEditLease(projection[s], d)
        /\ StatusTransition(projection[s].status, type)
        /\ SequenceFree(s, projection[s].seq + 1)
    BY <1>2, <2>1 DEF AppendStatusEvent, AppendRow
  <2>3. Status(events[s]) # "archived"
    BY <2>2, AppendExtends DEF EventTypes, StatusTransition
  <2>4. QED
    BY <2>1, <2>2, <2>3, LeaseIsLive, ExistingIsGood DEF Closed, ArchivedInLog
<1>3. ASSUME NEW t \in Sessions, NEW k \in Keys, NEW d \in Devices,
             DomainMutation(t, k, d)
      PROVE  ~Closed(s) /\ LiveEditor(s, e.device)
  <2>1. t = s /\ e.device = d
    BY <1>3 DEF DomainMutation, AppendDomainEvent, AppendRow, IInv
  <2>2. /\ projection[s] # Missing /\ HasEditLease(projection[s], d)
        /\ SequenceFree(s, projection[s].seq + 1)
    BY <1>3, <2>1 DEF DomainMutation, PrepareDomainMutation, AppendDomainEvent, AppendRow
  <2>3. Status(events[s]) # "archived"
    BY <2>2, AppendExtends DEF EventTypes, DOMAIN_EVENT_TYPES, HasEditLease
  <2>4. QED
    BY <2>1, <2>2, <2>3, LeaseIsLive, ExistingIsGood DEF Closed, ArchivedInLog
<1>4. CASE UNCHANGED events
  BY <1>4
<1>5. QED
  BY <1>1, <1>2, <1>3, <1>4 DEF Next, vars, Tick, ArchiveUserVehicle,
     RepeatCreateRepairSession, ResumeRepairSession, EventHistory, AcquireEditLease,
     RepeatMutation, LoseProjection, StaleProjection

(* No device writes a row unless it held the lease and the session was     *)
(* open when the request ran.                                              *)
THEOREM EditorsWrite == Spec => OnlyTheEditorWrites
<1> DEFINE A == \A s \in Sessions : \A e \in events'[s] \ events[s] :
                  session[s] # NoSession => ~Closed(s) /\ LiveEditor(s, e.device)
<1>1. IInv /\ [Next]_vars => [A]_vars
  BY WriteStep
<1>2. QED
  BY <1>1, SpecIInv, PTL DEF Spec, OnlyTheEditorWrites

(* A rebuild keeps a live lease of a session the log does not close.       *)
LEMMA RebuildKeepsLease ==
  ASSUME IInv, NEW s \in Sessions, NEW d \in Devices, LiveEditor(s, d),
         NEW t \in Sessions, RebuildProjection(t), projection'[s].device = NoDevice
  PROVE  Closed(s)
<1>1. projection[s] # Missing /\ session[s] # NoSession /\ d # NoDevice
  BY NullAssumption DEF LiveEditor, IInv, Good
<1>2. t = s
  BY <1>1 DEF RebuildProjection, IInv, LiveEditor
<1>3. projection'[s] = RebuiltProjection(s)
  BY <1>2 DEF RebuildProjection, IInv
<1>4. ~PreservesLease(s)
  BY <1>1, <1>3 DEF RebuiltProjection, LiveEditor
<1>5. Status(events[s]) = "archived"
  BY <1>1, <1>4 DEF PreservesLease, LiveEditor
<1>6. QED
  BY <1>1, <1>5, ExistingIsGood DEF Closed, ArchivedInLog

LEMMA LeaseStep ==
  ASSUME IInv, [Next]_vars, NEW s \in Sessions, NEW d \in Devices, LiveEditor(s, d),
         projection'[s] # Missing, projection'[s].device = NoDevice
  PROVE  \E e \in events'[s] : e.type = "session_archived"
<1>1. /\ projection[s] # Missing /\ session[s] # NoSession
      /\ d # NoDevice /\ projection[s].device = d
  BY NullAssumption DEF LiveEditor, IInv, Good
<1>2. ASSUME NEW t \in Sessions, RebuildProjection(t), UNCHANGED events
      PROVE  \E e \in events'[s] : e.type = "session_archived"
  BY <1>2, RebuildKeepsLease DEF Closed
<1>3. ASSUME NEW t \in Sessions, NEW v \in Vehicles, NEW c \in Devices,
             CreateRepairSession(t, v, c)
      PROVE  FALSE
  BY <1>1, <1>3 DEF CreateRepairSession, IInv
<1>4. ASSUME NEW t \in Sessions, NEW c \in Devices, NEW takeover \in BOOLEAN,
             AcquireEditLease(t, c, takeover)
      PROVE  FALSE
  <2>1. t = s
    BY <1>1, <1>4 DEF AcquireEditLease, IInv
  <2>2. GoodRow(projection[s], events[s]) /\ LockedProjection(s) = projection[s]
    BY <1>1, ExistingIsGood DEF LockedProjection
  <2>3. projection'[s] = [projection[s] EXCEPT !.device = c, !.expires = LeaseExpiry]
    BY <1>4, <2>1, <2>2 DEF AcquireEditLease, IInv
  <2>4. QED
    BY <2>2, <2>3, NullAssumption DEF GoodRow, ProjectionRow
<1>5. ASSUME NEW t \in Sessions, NEW type \in LIFECYCLE_EVENT_TYPES,
             NEW k \in Keys, NEW c \in Devices, AppendStatusEvent(t, type, k, c)
      PROVE  \E e \in events'[s] : e.type = "session_archived"
  <2> DEFINE e == [seq |-> projection[t].seq + 1, type |-> type, key |-> k, device |-> c]
  <2>1. t = s
    BY <1>1, <1>5 DEF AppendStatusEvent, IInv
  <2>2. type = "session_archived"
    BY <1>5, <2>1, NullAssumption DEF AppendStatusEvent, IInv
  <2>3. e \in events'[s]
    BY <1>5, <2>1 DEF AppendStatusEvent, AppendRow, IInv
  <2>4. QED
    BY <2>2, <2>3
<1>6. ASSUME NEW t \in Sessions, NEW k \in Keys, NEW c \in Devices,
             DomainMutation(t, k, c)
      PROVE  FALSE
  <2>1. t = s
    BY <1>1, <1>6 DEF DomainMutation, AppendDomainEvent, IInv
  <2>2. projection[s] \in ProjectionRow
    BY <1>1, ExistingIsGood DEF GoodRow
  <2>3. projection'[s] = [projection[s] EXCEPT !.seq = @ + 1, !.device = c,
                                                !.expires = LeaseExpiry]
    BY <1>6, <2>1 DEF DomainMutation, AppendDomainEvent, IInv
  <2>4. projection'[s].device = c
    BY <2>2, <2>3 DEF ProjectionRow
  <2>5. QED
    BY <2>4, NullAssumption
<1>7. ASSUME NEW t \in Sessions, LoseProjection(t) PROVE FALSE
  BY <1>1, <1>7 DEF LoseProjection, IInv
<1>8. ASSUME NEW t \in Sessions, NEW f \in events[t], NEW status \in Statuses,
             StaleProjection(t, f.seq, status)
      PROVE  FALSE
  <2>1. t = s
    BY <1>1, <1>8 DEF StaleProjection, IInv
  <2>2. projection[s] \in ProjectionRow
    BY <1>1, ExistingIsGood DEF GoodRow
  <2>3. projection'[s] = [projection[s] EXCEPT !.seq = f.seq, !.status = status]
    BY <1>8, <2>1 DEF StaleProjection, IInv
  <2>4. QED
    BY <1>1, <2>2, <2>3 DEF ProjectionRow
<1>9. CASE UNCHANGED projection
  BY <1>1, <1>9
<1>10. QED
  BY <1>2, <1>3, <1>4, <1>5, <1>6, <1>7, <1>8, <1>9 DEF Next, vars, Tick,
     ArchiveUserVehicle, RepeatCreateRepairSession, ResumeRepairSession, EventHistory,
     RepeatMutation

(* A live lease is cleared only by archiving. *)
THEOREM LeaseKept == Spec => LiveLeaseIsKept
<1> DEFINE A == \A s \in Sessions, d \in Devices :
                  LiveEditor(s, d) /\ projection'[s] # Missing /\ projection'[s].device = NoDevice
                  => \E e \in events'[s] : e.type = "session_archived"
<1>1. IInv /\ [Next]_vars => [A]_vars
  BY LeaseStep
<1>2. QED
  BY <1>1, SpecIInv, PTL DEF Spec, LiveLeaseIsKept
-----------------------------------------------------------------------------
(* The loop of _reduce_status.  It is a recursive function, and so is      *)
(* nothing but a function that satisfies its equation, if there is one.    *)
(* There is: ClosedForm, what SessionLog says of the rows.  No other       *)
(* function satisfies it, as the smallest prefix on which the two differ   *)
(* would have a smaller one.                                               *)

Begin == [expected |-> 1, current |-> "none"]

ClosedForm(rows) ==
  IF rows = {} THEN Begin
  ELSE IF Replayable(rows) THEN [expected |-> Latest(rows).seq + 1, current |-> Status(rows)]
  ELSE Raised

(* The equation of Loop. *)
IsLoop(f) ==
  f = [prefix \in EventTables |->
         IF prefix = {} THEN Begin
         ELSE Iterate(f[prefix \ {Latest(prefix)}], Latest(prefix))]

(* Of finite sets that satisfy something, one has the fewest elements. *)
LEMMA FewestElements ==
  ASSUME NEW B, B # {}, \A R \in B : IsFiniteSet(R)
  PROVE  \E R \in B : \A P \in B : Cardinality(R) <= Cardinality(P)
<1> DEFINE T == {Cardinality(R) : R \in B}
<1>1. T \in SUBSET Nat /\ T # {}
  BY FS_CardinalityType
<1>2. PICK x \in T : \A y \in T : x <= y
  BY <1>1, LeastNatural
<1>3. QED
  BY <1>2

LEMMA TableHasHead ==
  ASSUME NEW rows \in EventTables, rows # {}
  PROVE  HasHead(rows)
<1> DEFINE B == {R \in EventTables : R # {} /\ ~HasHead(R)}
<1> SUFFICES B = {}
  OBVIOUS
<1> SUFFICES ASSUME B # {} PROVE FALSE
  OBVIOUS
<1>1. \A R \in B : IsFiniteSet(R)
  BY DEF EventTables
<1>2. PICK R \in B : \A P \in B : Cardinality(R) <= Cardinality(P)
  <2> HIDE DEF B
  <2>1. QED
    BY <1>1, FewestElements
<1>3. PICK x \in R : TRUE
  OBVIOUS
<1> DEFINE P == R \ {x}
<1>4. /\ P \in EventTables /\ Cardinality(P) = Cardinality(R) - 1
      /\ Cardinality(R) \in Nat
  BY <1>3, FS_RemoveElement, FS_CardinalityType DEF EventTables
<1>5. P \notin B
  BY <1>2, <1>4
<1>6. \A e \in R : e.seq \in Nat
  BY DEF EventTables, Row
<1>7. CASE P = {}
  <2>1. \A f \in R : f = x
    BY <1>7
  <2>2. QED
    BY <2>1, <1>3, <1>6 DEF HasHead
<1>8. CASE HasHead(P)
  <2>1. PICK h \in P : \A f \in P : f.seq <= h.seq
    BY <1>8 DEF HasHead
  <2>2. \A f \in R : f = x \/ f.seq <= h.seq
    BY <2>1
  <2>3. CASE x.seq <= h.seq
    BY <2>1, <2>2, <2>3 DEF HasHead
  <2>4. CASE h.seq <= x.seq
    BY <2>1, <2>2, <2>4, <1>3, <1>6 DEF HasHead
  <2>5. QED
    BY <2>3, <2>4, <1>3, <1>6
<1>9. QED
  BY <1>4, <1>5, <1>7, <1>8

(* The last row of a table, and what is before it. *)
LEMMA LastRowRemoved ==
  ASSUME NEW rows \in EventTables, rows # {}
  PROVE  LET e == Latest(rows) P == rows \ {e} IN
         /\ e \in rows /\ e \in Row(Keys, Devices)
         /\ P \in EventTables /\ P = Before(rows, e.seq)
         /\ \A f \in P : f.seq < e.seq
         /\ Cardinality(P) < Cardinality(rows)
         /\ Cardinality(P) \in Nat /\ Cardinality(rows) \in Nat
<1> DEFINE e == Latest(rows)
           P == rows \ {e}
<1>1. e \in rows /\ \A f \in rows : f.seq <= e.seq
  BY TableHasHead, LatestIsLast
<1>2. \A f \in rows : f.seq \in Nat
  BY DEF EventTables, Row
<1>3. \A f \in P : f.seq < e.seq
  BY <1>1, <1>2 DEF EventTables
<1>4. P = Before(rows, e.seq)
  BY <1>1, <1>2, <1>3 DEF Before
<1>5. P \in EventTables
  BY FS_RemoveElement DEF EventTables
<1>6. Cardinality(P) = Cardinality(rows) - 1 /\ Cardinality(rows) \in Nat
  BY <1>1, FS_RemoveElement, FS_CardinalityType DEF EventTables
<1>7. Cardinality(P) \in Nat
  BY <1>5, FS_CardinalityType DEF EventTables
<1>8. QED
  BY <1>1, <1>3, <1>4, <1>5, <1>6, <1>7 DEF EventTables

LEMMA StatusIsStatus ==
  ASSUME NEW rows
  PROVE  Status(rows) \in Statuses \cup {"none"}
BY DEF Status, StatusAfterEvent, Statuses

(* What the branches accept is what SessionLog lets follow, and what they  *)
(* leave is what it says a type leaves.                                    *)
LEMMA BranchesFollow ==
  ASSUME NEW current \in Statuses \cup {"none"}, NEW type \in EventTypes
  PROVE  current \in ReadableIn(type) <=> Follows(current, type)
BY DEF Statuses, EventTypes, LIFECYCLE_EVENT_TYPES, DOMAIN_EVENT_TYPES, ReadableIn, Follows

(* A table is replayable exactly when what is before its last row is, or   *)
(* is nothing, and the last row is the next one and may follow.            *)
LEMMA ReplayableByLast ==
  ASSUME NEW rows \in EventTables, rows # {}
  PROVE  LET e == Latest(rows) P == rows \ {e} IN
         Replayable(rows) <=>
           /\ P = {} \/ Replayable(P)
           /\ e.seq = IF P = {} THEN 1 ELSE Latest(P).seq + 1
           /\ Follows(Status(P), e.type)
<1> DEFINE e == Latest(rows)
           P == rows \ {e}
<1>1. /\ e \in rows /\ e \in Row(Keys, Devices)
      /\ P \in EventTables /\ P = Before(rows, e.seq)
      /\ \A f \in P : f.seq < e.seq
  BY LastRowRemoved
<1>2. \A f \in rows : f.seq \in Nat \ {0}
  BY DEF EventTables, Row
<1>3. P # {} => Latest(P) \in P /\ \A f \in P : f.seq <= Latest(P).seq
  BY <1>1, TableHasHead, LatestIsLast
<1>4. \A f \in P : Before(rows, f.seq) = Before(P, f.seq)
  BY <1>1, <1>2 DEF Before
<1>5. ASSUME Replayable(rows)
      PROVE  /\ P = {} \/ Replayable(P)
             /\ e.seq = IF P = {} THEN 1 ELSE Latest(P).seq + 1
             /\ Follows(Status(P), e.type)
  <2>1. Follows(Status(P), e.type)
    BY <1>1, <1>5 DEF Replayable
  <2>2. ASSUME P # {} PROVE Replayable(P)
    <3>1. \A f \in P : \A n \in 1..f.seq : \E g \in P : g.seq = n
      <4> SUFFICES ASSUME NEW f \in P, NEW n \in 1..f.seq PROVE \E g \in P : g.seq = n
        OBVIOUS
      <4>1. PICK g \in rows : g.seq = n
        BY <1>5 DEF Replayable
      <4>2. g # e
        BY <4>1, <1>1, <1>2
      <4>3. QED
        BY <4>1, <4>2
    <3>2. QED
      BY <3>1, <1>4, <1>5, <2>2 DEF Replayable
  <2>3. CASE P = {}
    <3>1. 1 \in 1..e.seq
      BY <1>1, <1>2
    <3>2. QED
      BY <3>1, <1>5, <2>1, <2>3, <1>1 DEF Replayable
  <2>4. CASE P # {}
    <3>1. Latest(P).seq < e.seq /\ Latest(P).seq \in Nat
      BY <1>1, <1>2, <1>3, <2>4
    <3>2. Latest(P).seq + 1 \in 1..e.seq
      BY <3>1, <1>1, <1>2
    <3>3. PICK g \in rows : g.seq = Latest(P).seq + 1
      BY <3>2, <1>1, <1>5 DEF Replayable
    <3>4. g \notin P
      <4> SUFFICES ASSUME g \in P PROVE FALSE
        OBVIOUS
      <4>1. g.seq <= Latest(P).seq
        BY <1>3, <2>4
      <4> HIDE DEF P, e
      <4>2. QED
        BY <4>1, <3>1, <3>3
    <3>5. QED
      BY <3>3, <3>4, <2>1, <2>2, <2>4
  <2>5. QED
    BY <2>3, <2>4
<1>6. ASSUME P = {} \/ Replayable(P),
             e.seq = IF P = {} THEN 1 ELSE Latest(P).seq + 1,
             Follows(Status(P), e.type)
      PROVE  Replayable(rows)
  <2>1. rows = P \cup {e}
    BY <1>1
  <2>2. CASE P = {}
    <3>1. rows = {e} /\ e.seq = 1 /\ Before(rows, e.seq) = {}
      BY <2>1, <2>2, <1>1, <1>6
    <3>2. \A n \in 1..e.seq : n = e.seq
      BY <3>1
    <3>3. QED
      BY <3>1, <3>2, <1>1, <1>6 DEF Replayable
  <2>3. CASE P # {}
    <3>1. P \in SUBSET Row(Keys, Devices) /\ HasHead(P)
      BY <1>1, <2>3, TableHasHead DEF EventTables
    <3>2. e.seq = Latest(P).seq + 1
      BY <1>6, <2>3
    <3>3. Replayable(P) /\ e \in Row(Keys, Devices) /\ Follows(Status(P), e.type)
      BY <1>1, <1>6, <2>3
    <3> HIDE DEF P, e
    <3>4. Replayable(P \cup {e})
      BY ONLY <3>1, <3>2, <3>3, ExtendReplayable
    <3>5. QED
      BY <3>4, <2>1
  <2>4. QED
    BY <2>2, <2>3
<1>7. QED
  BY <1>5, <1>6

(* ... and its status is the one of what is before, or the last row's. *)
LEMMA StatusByLast ==
  ASSUME NEW rows \in EventTables, rows # {}
  PROVE  LET e == Latest(rows) P == rows \ {e} IN
         Status(rows) = IF e.type \in LIFECYCLE_EVENT_TYPES
                        THEN StatusAfterEvent(e.type) ELSE Status(P)
<1> DEFINE e == Latest(rows)
           P == rows \ {e}
<1>1. e \in rows /\ \A f \in P : f.seq < e.seq
  BY LastRowRemoved
<1>2. \A f \in rows : f.seq \in Int
  BY DEF EventTables, Row
<1>3. CASE e.type \in LIFECYCLE_EVENT_TYPES
  <2>1. e \in LifecycleRows(rows) /\ LifecycleRows(rows) \subseteq rows
    BY <1>1, <1>3 DEF LifecycleRows
  <2>2. \A f \in LifecycleRows(rows) : f # e => f.seq < e.seq
    BY <1>1, <2>1
  <2>3. Latest(LifecycleRows(rows)) = e
    BY <1>2, <2>1, <2>2, LatestIsUnique
  <2>4. QED
    BY <1>3, <2>1, <2>3 DEF Status
<1>4. CASE e.type \notin LIFECYCLE_EVENT_TYPES
  <2>1. LifecycleRows(rows) = LifecycleRows(P)
    BY <1>1, <1>4 DEF LifecycleRows
  <2>2. QED
    BY <1>4, <2>1 DEF Status
<1>5. QED
  BY <1>3, <1>4

(* One iteration takes the closed form of a prefix to that of the next.    *)
LEMMA ClosedFormIterates ==
  ASSUME NEW rows \in EventTables, rows # {}
  PROVE  ClosedForm(rows) = Iterate(ClosedForm(rows \ {Latest(rows)}), Latest(rows))
<1> DEFINE e == Latest(rows)
           P == rows \ {e}
           before == ClosedForm(P)
<1>1. /\ e \in rows /\ e \in Row(Keys, Devices)
      /\ P \in EventTables
      /\ \A f \in P : f.seq < e.seq
  BY LastRowRemoved
<1>2. e.seq \in Nat \ {0} /\ e.type \in EventTypes
  BY <1>1 DEF Row
<1>3. Status(P) \in Statuses \cup {"none"}
  BY StatusIsStatus
<1>4. P = {} => Status(P) = "none"
  BY DEF Status, LifecycleRows
<1>5. P # {} => Latest(P).seq \in Nat \ {0}
  BY <1>1, LastRowRemoved DEF Row
<1>6. CASE P # {} /\ ~Replayable(P)
  <2>1. before = Raised /\ ~Replayable(rows)
    BY <1>6, ReplayableByLast DEF ClosedForm
  <2>2. QED
    BY <2>1 DEF ClosedForm, Iterate
<1>7. CASE P = {} \/ Replayable(P)
  <2> DEFINE next == IF P = {} THEN 1 ELSE Latest(P).seq + 1
  <2>1. before = [expected |-> next, current |-> Status(P)]
    BY <1>4, <1>7 DEF ClosedForm, Begin
  <2>2. before # Raised /\ before.expected = next /\ before.current = Status(P)
    <3>1. next # 0
      BY <1>5
    <3>2. QED
      BY <2>1, <3>1 DEF Raised
  <2>3. Replayable(rows) <=> e.seq = next /\ Follows(Status(P), e.type)
    BY <1>7, ReplayableByLast
  <2>4. Gap(before.expected, e) <=> e.seq # next
    BY <2>2 DEF Gap
  <2>5. before.current \in ReadableIn(e.type) <=> Follows(Status(P), e.type)
    BY <2>2, <1>2, <1>3, BranchesFollow
  <2>6. CASE ~Replayable(rows)
    <3>1. Iterate(before, e) = Raised
      BY <2>3, <2>4, <2>5, <2>6 DEF Iterate
    <3>2. QED
      BY <2>6, <3>1 DEF ClosedForm
  <2>7. CASE Replayable(rows)
    <3>1. Iterate(before, e) =
            [expected |-> next + 1,
             current |-> IF e.type \in DOMAIN_EVENT_TYPES THEN Status(P)
                         ELSE StatusAfterEvent(e.type)]
      BY <2>2, <2>3, <2>4, <2>5, <2>7 DEF Iterate
    <3>2. e.type \in DOMAIN_EVENT_TYPES <=> e.type \notin LIFECYCLE_EVENT_TYPES
      BY <1>2 DEF EventTypes, LIFECYCLE_EVENT_TYPES, DOMAIN_EVENT_TYPES
    <3>3. Status(rows) = IF e.type \in DOMAIN_EVENT_TYPES THEN Status(P)
                         ELSE StatusAfterEvent(e.type)
      BY <3>2, StatusByLast
    <3>4. ClosedForm(rows) = [expected |-> e.seq + 1, current |-> Status(rows)]
      BY <2>7 DEF ClosedForm
    <3>5. QED
      BY <3>1, <3>3, <3>4, <2>3, <2>7
  <2>8. QED
    BY <2>6, <2>7
<1>8. QED
  BY <1>6, <1>7

(* The closed form satisfies the equation of the loop ...                  *)
LEMMA ClosedFormIsLoop == IsLoop([rows \in EventTables |-> ClosedForm(rows)])
<1> DEFINE f == [rows \in EventTables |-> ClosedForm(rows)]
<1>1. ASSUME NEW rows \in EventTables
      PROVE  f[rows] = IF rows = {} THEN Begin
                       ELSE Iterate(f[rows \ {Latest(rows)}], Latest(rows))
  <2>1. CASE rows = {}
    BY <2>1 DEF ClosedForm
  <2>2. CASE rows # {}
    <3>1. rows \ {Latest(rows)} \in EventTables
      BY <2>2, LastRowRemoved
    <3>2. f[rows \ {Latest(rows)}] = ClosedForm(rows \ {Latest(rows)})
      BY <3>1
    <3>3. f[rows] = ClosedForm(rows)
      OBVIOUS
    <3>4. QED
      BY <3>2, <3>3, <2>2, ClosedFormIterates
  <2>3. QED
    BY <2>1, <2>2
<1>2. f = [rows \in EventTables |-> f[rows]]
  OBVIOUS
<1>3. IsLoop(f)
  <2> HIDE DEF f
  <2>1. QED
    BY <1>1, <1>2 DEF IsLoop
<1>4. QED
  BY <1>3

(* ... so that the loop does ... *)
LEMMA LoopIsLoop == IsLoop(Loop)
<1>1. Loop = CHOOSE f : IsLoop(f)
  BY DEF Loop, IsLoop, Begin
<1>2. QED
  BY <1>1, ClosedFormIsLoop

(* ... and it is the closed form.                                          *)
LEMMA LoopIsClosedForm ==
  ASSUME NEW rows \in EventTables
  PROVE  Loop[rows] = ClosedForm(rows)
<1> DEFINE B == {R \in EventTables : Loop[R] # ClosedForm(R)}
<1> SUFFICES ASSUME B # {} PROVE FALSE
  OBVIOUS
<1>1. \A R \in B : IsFiniteSet(R)
  BY DEF EventTables
<1>2. PICK R \in B : \A P \in B : Cardinality(R) <= Cardinality(P)
  <2> HIDE DEF B
  <2>1. QED
    BY <1>1, FewestElements
<1>3. Loop[R] = IF R = {} THEN Begin ELSE Iterate(Loop[R \ {Latest(R)}], Latest(R))
  BY LoopIsLoop DEF IsLoop
<1>4. R # {}
  BY <1>3 DEF ClosedForm
<1>5. /\ R \ {Latest(R)} \in EventTables
      /\ Cardinality(R \ {Latest(R)}) < Cardinality(R)
      /\ Cardinality(R \ {Latest(R)}) \in Nat /\ Cardinality(R) \in Nat
  BY <1>4, LastRowRemoved
<1>6. R \ {Latest(R)} \notin B
  BY <1>2, <1>5
<1>7. Loop[R] = ClosedForm(R)
  BY <1>3, <1>4, <1>5, <1>6, ClosedFormIterates
<1>8. QED
  BY <1>7

(* The loop of _reduce_status raises for exactly the tables that are not   *)
(* Replayable, an empty one among them, and otherwise returns the status   *)
(* of the latest lifecycle row: for every table the unique constraint of   *)
(* repair_session_events allows, of any length.                            *)
THEOREM LoopIsReference ==
  ASSUME NEW rows \in EventTables
  PROVE  ReduceStatus(rows) = IF Replayable(rows) THEN Status(rows) ELSE "corrupt"
<1>1. Loop[rows] = ClosedForm(rows)
  BY LoopIsClosedForm
<1>2. CASE rows = {}
  BY <1>1, <1>2 DEF ReduceStatus, ClosedForm, Begin, Replayable
<1>3. CASE rows # {} /\ ~Replayable(rows)
  BY <1>1, <1>3 DEF ReduceStatus, ClosedForm, Raised
<1>4. CASE rows # {} /\ Replayable(rows)
  <2>1. rows \in SUBSET Row(Keys, Devices)
    BY DEF EventTables
  <2>2. Status(rows) \in Statuses
    BY <1>4, <2>1, ReplayableHasStatus
  <2>3. QED
    BY <1>1, <1>4, <2>2 DEF ReduceStatus, ClosedForm, Statuses
<1>5. QED
  BY <1>2, <1>3, <1>4

(* The logs of the service are such tables: as many rows as their number.  *)
LEMMA LogIsTable ==
  ASSUME NEW rows \in SUBSET Row(Keys, Devices), Replayable(rows), HasHead(rows)
  PROVE  rows \in EventTables
<1> DEFINE n == Latest(rows).seq
           f == [e \in rows |-> e.seq]
<1>1. Latest(rows) \in rows /\ \A e \in rows : e.seq <= n
  BY LatestIsLast
<1>2. \A e \in rows : e.seq \in Nat \ {0}
  BY DEF Row
<1>3. n \in Nat /\ \A e \in rows : e.seq \in 1..n
  BY <1>1, <1>2
<1>4. f \in Injection(rows, 1..n)
  BY <1>3 DEF Injection, Replayable, IsInjective
<1>5. IsFiniteSet(1..n)
  BY <1>3, FS_Interval
<1>6. IsFiniteSet(rows)
  BY <1>4, <1>5, FS_Injection
<1>7. QED
  BY <1>6 DEF EventTables, Replayable

LEMMA DamagedIsTable ==
  ASSUME NEW log \in EventTables, NEW rows \in Damaged(log)
  PROVE  rows \in EventTables
<1>1. PICK left \in SUBSET log :
        \/ rows = left
        \/ \E e \in left, t \in EventTypes : rows = (left \ {e}) \cup {[e EXCEPT !.type = t]}
  BY DEF Damaged
<1>2. left \in EventTables
  BY FS_Subset DEF EventTables
<1>3. ASSUME NEW e \in left, NEW t \in EventTypes,
             rows = (left \ {e}) \cup {[e EXCEPT !.type = t]}
      PROVE  rows \in EventTables
  <2> DEFINE x == [e EXCEPT !.type = t]
  <2>1. e \in Row(Keys, Devices)
    BY <1>2 DEF EventTables
  <2>2. x \in Row(Keys, Devices) /\ x.seq = e.seq
    BY <2>1 DEF Row
  <2>3. IsFiniteSet(left \ {e}) /\ left \ {e} \in SUBSET Row(Keys, Devices)
    BY <1>2, FS_RemoveElement DEF EventTables
  <2>4. \A f \in left \ {e} : f.seq # x.seq
    BY <1>2, <2>2 DEF EventTables
  <2>5. IsFiniteSet(rows)
    BY <1>3, <2>3, FS_AddElement
  <2>6. \A f, g \in rows : f.seq = g.seq => f = g
    BY <1>2, <1>3, <2>4 DEF EventTables
  <2>7. QED
    BY <1>3, <2>2, <2>3, <2>5, <2>6 DEF EventTables
<1>4. QED
  BY <1>1, <1>2, <1>3

(* The loop agrees with the reference on every log the service reaches,    *)
(* whole or damaged.                                                       *)
THEOREM FoldAlwaysIsReference == Spec => []FoldIsReference
<1>1. IInv => FoldIsReference
  <2> SUFFICES ASSUME IInv, NEW s \in Sessions, NEW rows \in Damaged(events[s])
               PROVE  rows \in EventTables
    BY LoopIsReference DEF FoldIsReference
  <2>1. events[s] \in EventTables
    <3>1. CASE events[s] = {}
      BY <3>1, FS_EmptySet DEF EventTables
    <3>2. CASE events[s] # {}
      BY <3>2, LogIsTable DEF IInv, Good
    <3>3. QED
      BY <3>1, <3>2
  <2>2. QED
    BY <2>1, DamagedIsTable
<1>2. QED
  BY <1>1, SpecIInv, PTL
===============================================================================
