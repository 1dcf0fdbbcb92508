---------------------------- MODULE Reorientation ----------------------------
(***************************************************************************)
(* The reorientation of a resume answer: what an owner who comes back to a *)
(* repair is shown of its fasteners, parts, observations, photos and last  *)
(* events.  It is put together from seven SELECTs at READ COMMITTED, which *)
(* take no lock: any mutation of the session may commit between two.       *)
(*                                                                         *)
(* One answer at a time: answers do not write, so two do not meet.  The    *)
(* next verified action, the last part, is GuidedRepair's.                 *)
(***************************************************************************)
EXTENDS RepairMemory, Sequences

CONSTANT RecentEvents  \* limit(8)

ASSUME RecentAssumption == RecentEvents \in Nat \ {0}

VARIABLE answer  \* the answer being put together, or None

reorientationVars == <<allVars, answer>>

Tables ==
  {"fasteners", "inventory", "observations", "photos", "locations", "recent", "checkpoint"}

(* Mutant: another order of the SELECTs. *)
LocationsFirst ==
  <<"locations", "fasteners", "inventory", "observations", "photos", "recent", "checkpoint">>

(* The order in which build_reorientation reads. *)
Selects ==
  <<"fasteners", "inventory", "observations", "photos", "locations", "recent", "checkpoint">>

DomainEvents == {e \in events[Repair] : e.type \in DOMAIN_EVENT_TYPES}

(* What a SELECT returns. *)
Selected(table, lastEvent) ==
  CASE table = "fasteners"    -> [f \in {f \in Fasteners : fastener[f] # None} |-> fastener[f]]
    [] table = "inventory"    -> [i \in {i \in Items : item[i] # None} |-> item[i]]
    [] table = "observations" -> {o \in Observations : observation[o] # None}
    [] table = "photos"       -> {p \in Photos : photo[p] = "live"}
    [] table = "locations"    -> location
    [] table = "recent"       -> {e \in events[Repair] :
                                    e.seq > Latest(events[Repair]).seq - RecentEvents}
    [] OTHER                  -> IF DomainEvents = {} THEN lastEvent ELSE Latest(DomainEvents)

ReorientationInit == MemoryInit /\ answer = None

(* resume_repair_session: a current projection and the event it names.     *)
BeginResume ==
  /\ answer = None
  /\ session[Repair] # NoSession
  /\ ProjectionCurrent(Repair)
  /\ answer' = [read |-> 0, last |-> Latest(events[Repair]), rows |-> [t \in Tables |-> None]]

ReadTable ==
  /\ answer # None /\ answer.read < Len(Selects)
  /\ LET table == Selects[answer.read + 1] IN
     answer' = [answer EXCEPT !.read = @ + 1, !.rows[table] = Selected(table, answer.last)]

Complete == answer # None /\ answer.read = Len(Selects)

SendAnswer == Complete /\ answer' = None

ReorientationNext ==
  \/ MemoryNext /\ UNCHANGED answer
  \/ BeginResume /\ UNCHANGED allVars
  \/ ReadTable /\ UNCHANGED allVars
  \/ SendAnswer /\ UNCHANGED allVars

ReorientationSpec == ReorientationInit /\ [][ReorientationNext]_reorientationVars
-----------------------------------------------------------------------------
(* What the answer says.  A count of the answer is that of a set here, and *)
(* the list of the last events, oldest first, is known by its last entry.  *)

Rows(table) == answer.rows[table]

Hardware(states) == {f \in DOMAIN Rows("fasteners") : Rows("fasteners")[f].state \in states}

Place(f) == Rows("fasteners")[f].location

Parts(states) == {i \in DOMAIN Rows("inventory") : Rows("inventory")[i].state \in states}

HardwareStored == Hardware({"stored"})

HardwareLoose == {f \in Hardware({"removed"}) : Place(f) = None}

NotInstalled == DOMAIN Rows("fasteners") \ Hardware({"installed", "replaced"})

ProcurementBlockers == Parts({"needed", "ordered", "unavailable"})

(* The damage observations are not told apart from the others. *)
Attention ==
  Hardware({"missing"}) \cup Hardware({"damaged"})
  \cup Parts({"needed", "unavailable"}) \cup Parts({"ordered"})

StoredIn(l) == {f \in Hardware({"stored"}) : Place(f) # None /\ Place(f) = l}

(* A group is left out when its location was not read. *)
StorageGroups ==
  [l \in {l \in Rows("locations") : StoredIn(l) # {}} |-> StoredIn(l)]

(* The state an activity label shows is that of the row as it was read,    *)
(* whatever the event says; None is the label without a row.               *)
LabelState(e) ==
  LET x == payload[e.key].resource IN
  IF e.type \notin DOMAIN_EVENT_TYPES THEN None
  ELSE IF x \in DOMAIN Rows("fasteners") THEN Rows("fasteners")[x].state
  ELSE IF x \in DOMAIN Rows("inventory") THEN Rows("inventory")[x].state
  ELSE None

Newest == Latest(Rows("recent"))
-----------------------------------------------------------------------------
(* Properties *)

(* Every part that is not installed is found somewhere in the answer: in a *)
(* storage group, among the loose ones, in the attention list, or it was   *)
(* removed and put somewhere that is not its storage.  None falls out of   *)
(* the groups, although locations are read after the fasteners and a group *)
(* without its location is dropped.                                        *)
Located == UNION {StorageGroups[l] : l \in DOMAIN StorageGroups}

RemovedElsewhere == {f \in Hardware({"removed"}) : Place(f) # None}

EveryPartIsAccountedFor ==
  Complete =>
    /\ HardwareStored = Located
    /\ NotInstalled =
         Located \cup HardwareLoose \cup (Attention \cap Fasteners) \cup RemovedElsewhere
    /\ ProcurementBlockers = Attention \ Fasteners

(* The activity list is not behind what else the answer shows: it ends     *)
(* with the latest event, or a later one, of every row shown and of the    *)
(* session itself; its labels show states those events left; and the       *)
(* checkpoint is not behind its domain events.                             *)
Shown ==
  DOMAIN Rows("fasteners") \cup DOMAIN Rows("inventory") \cup Rows("observations")
  \cup Rows("photos") \cup Rows("locations")

(* The rows about x that are not after the last entry of the list.         *)
Told(x) == {e \in RowsAbout(x) : e.seq <= Newest.seq}

ActivityCoversRows ==
  Complete =>
    /\ answer.last.seq <= Newest.seq
    /\ \A x \in Shown : Told(x) # {}
    /\ \A f \in DOMAIN Rows("fasteners") :
         \E e \in Told(f) : Request(e).place = Rows("fasteners")[f]
    /\ \A e \in Rows("recent") : e.type \in DOMAIN_EVENT_TYPES =>
         LET x == payload[e.key].resource IN
         /\ e.seq <= Rows("checkpoint").seq
         /\ LabelState(e) # None /\ x \in Fasteners =>
              \E g \in Told(x) : Request(g).place.state = LabelState(e)

(* The answer is whole: nothing of the repair falls out of it, and its     *)
(* parts, read one after the other, are not behind each other.             *)
ReorientationIsWhole == EveryPartIsAccountedFor /\ ActivityCoversRows
===============================================================================
