----------------------------- MODULE RepairMemory -----------------------------
(***************************************************************************)
(* Repair memory: the storage locations, fasteners, inventory items,       *)
(* observations and photos of one repair session.  Every mutation is the   *)
(* frame of RepairSession (PrepareDomainMutation, the rows it writes,      *)
(* AppendDomainEvent) in one transaction under the lock of the session     *)
(* row, so it is one step; except that the two photo mutations also work   *)
(* on a file, which no transaction covers, and so take several steps while *)
(* they hold the lock.                                                     *)
(*                                                                         *)
(* The damage a test does to a projection is left to RepairSession.        *)
(* Labels, notes and other texts are left out, and what a photo shows      *)
(* (fasteners and observations, whose rows are never deleted); a request   *)
(* is its type and what it says of states and references; two requests are *)
(* equal when their fingerprints are.  An identifier is drawn by the       *)
(* service (uuid4): any one that was never used.                           *)
(***************************************************************************)
EXTENDS RepairSession

CONSTANTS
  Repair,        \* the session
  Locations, Fasteners, Items, Observations, Photos,
  PhysicalStates,     \* the fastener states in use
  ProcurementStates,  \* the inventory states in use
  Quantities,    \* quantities of an inventory item
  None           \* NULL, no row, no event

ASSUME RepairAssumption == Repair \in Sessions

ASSUME StatesAssumption ==
  /\ PhysicalStates \subseteq
       {"installed", "removed", "stored", "missing", "damaged", "replaced"}
  /\ ProcurementStates \subseteq {"needed", "ordered", "available", "unavailable"}

VARIABLES
  payload,      \* payload[k]: what the domain event under key k says
  location,     \* repair_storage_locations
  fastener,     \* repair_fasteners: physical_state and storage_location_id
  item,         \* repair_inventory_items: procurement_state and quantity
  observation,  \* repair_observations: the fastener it is about
  photo,        \* repair_photo_evidence: "none", "live" or "deleted"
  file,         \* the photos whose file is in the media root
  job           \* the photo mutation that holds the lock of the session row

memoryVars == <<payload, location, fastener, item, observation, photo>>

allVars == <<vars, memoryVars, file, job>>

(* storage_matches_state *)
Placements ==
  {p \in [state: PhysicalStates, location: Locations \cup {None}] :
     /\ p.state = "stored" => p.location # None
     /\ p.state \in {"installed", "replaced"} => p.location = None}

Stocks == [state: ProcurementStates, quantity: Quantities]

(* An update may leave the quantity out. *)
StockUpdates == [state: ProcurementStates, quantity: Quantities \cup {None}]

Notes == [fastener: Fasteners \cup {None}]

(* What the events say, and of what.                                       *)
Payloads ==
  [request: [type: {"storage_location_created"}], resource: Locations]
  \cup [request: [type: {"fastener_recorded", "fastener_state_changed"}, place: Placements],
        resource: Fasteners]
  \cup [request: [type: {"inventory_item_recorded"}, stock: Stocks]
                 \cup [type: {"inventory_state_changed"}, stock: StockUpdates],
        resource: Items]
  \cup [request: [type: {"observation_recorded"}, fastener: Fasteners \cup {None}],
        resource: Observations]
  \cup [request: [type: {"photo_evidence_added", "photo_evidence_deleted"}], resource: Photos]

PhotoJobs ==
  [photo: Photos, key: Keys, device: Devices, stage: {"store", "unlink", "commit"}]

(* An identifier is of one table only, and NULL is no value.               *)
ASSUME IdentifiersAssumption ==
  /\ Locations \cap (Fasteners \cup Items \cup Observations \cup Photos) = {}
  /\ Fasteners \cap (Items \cup Observations \cup Photos) = {}
  /\ Items \cap (Observations \cup Photos) = {}
  /\ Observations \cap Photos = {}

ASSUME MemoryNullAssumption ==
  /\ None \notin Locations \cup Fasteners \cup Quantities
  /\ None \notin Placements \cup Stocks \cup Notes \cup Payloads \cup PhotoJobs

MemoryTypeOK ==
  /\ payload \in [Keys -> Payloads \cup {None}]
  /\ location \subseteq Locations
  /\ fastener \in [Fasteners -> Placements \cup {None}]
  /\ item \in [Items -> Stocks \cup {None}]
  /\ observation \in [Observations -> Notes \cup {None}]
  /\ photo \in [Photos -> {"none", "live", "deleted"}]
  /\ file \subseteq Photos
  /\ job \in PhotoJobs \cup {None}
  /\ \A f \in Fasteners : fastener[f] # None =>
       fastener[f].location \in location \cup {None}
  /\ \A o \in Observations : observation[o] # None =>
       observation[o].fastener \in {f \in Fasteners : fastener[f] # None} \cup {None}

MemoryInit ==
  /\ Init
  /\ payload = [k \in Keys |-> None]
  /\ location = {}
  /\ fastener = [f \in Fasteners |-> None]
  /\ item = [i \in Items |-> None]
  /\ observation = [o \in Observations |-> None]
  /\ photo = [p \in Photos |-> "none"]
  /\ file = {}
  /\ job = None

-----------------------------------------------------------------------------
(* Mutant: the lock is given up during file work. *)
NeverLocked == TRUE

(* No photo mutation holds the session row. *)
LockFree == job = None

(* The lookups that a mutation begins with find a row.                     *)
StorageLocation(l) == l \in location

Fastener(f) == fastener[f] # None

InventoryItem(i) == item[i] # None

LivePhoto(p) == photo[p] = "live"

(* append_domain_event with the payload of the request. *)
Record(k, d, request, resource) ==
  /\ AppendDomainEvent(Repair, k, d)
  /\ payload' = [payload EXCEPT ![k] = [request |-> request, resource |-> resource]]

Mutation(k, d, request, resource) ==
  /\ LockFree
  /\ PrepareDomainMutation(Repair, k, d)
  /\ Record(k, d, request, resource)
  /\ UNCHANGED <<photo, file, job>>

CreateStorageLocation(k, d, l) ==
  /\ l \notin location
  /\ location' = location \cup {l}
  /\ Mutation(k, d, [type |-> "storage_location_created"], l)
  /\ UNCHANGED <<fastener, item, observation>>

CreateFastener(k, d, f, place) ==
  /\ fastener[f] = None
  /\ place.location # None => StorageLocation(place.location)
  /\ fastener' = [fastener EXCEPT ![f] = place]
  /\ Mutation(k, d, [type |-> "fastener_recorded", place |-> place], f)
  /\ UNCHANGED <<location, item, observation>>

UpdateFastenerState(k, d, f, place) ==
  /\ Fastener(f)
  /\ place.location # None => StorageLocation(place.location)
  /\ fastener' = [fastener EXCEPT ![f] = place]
  /\ Mutation(k, d, [type |-> "fastener_state_changed", place |-> place], f)
  /\ UNCHANGED <<location, item, observation>>

CreateInventoryItem(k, d, i, stock) ==
  /\ item[i] = None
  /\ item' = [item EXCEPT ![i] = stock]
  /\ Mutation(k, d, [type |-> "inventory_item_recorded", stock |-> stock], i)
  /\ UNCHANGED <<location, fastener, observation>>

(* The quantity may be left out of an update. *)
UpdateInventoryState(k, d, i, state, quantity) ==
  LET stock == [state |-> state, quantity |-> quantity] IN
  /\ InventoryItem(i)
  /\ item' = [item EXCEPT ![i] =
       IF quantity = None THEN [@ EXCEPT !.state = state] ELSE stock]
  /\ Mutation(k, d, [type |-> "inventory_state_changed", stock |-> stock], i)
  /\ UNCHANGED <<location, fastener, observation>>

CreateObservation(k, d, o, f) ==
  /\ observation[o] = None
  /\ f # None => Fastener(f)
  /\ observation' = [observation EXCEPT ![o] = [fastener |-> f]]
  /\ Mutation(k, d, [type |-> "observation_recorded", fastener |-> f], o)
  /\ UNCHANGED <<location, fastener, item>>

-----------------------------------------------------------------------------
(* Photos: lock and guards, then the file, then the rows with the commit. *)

BeginPhotoJob(k, d, p, stage) ==
  /\ LockFree
  /\ PrepareDomainMutation(Repair, k, d)
  /\ job' = [photo |-> p, key |-> k, device |-> d, stage |-> stage]
  /\ UNCHANGED <<vars, memoryVars, file>>

BeginCreatePhoto(k, d, p) ==
  /\ photo[p] = "none" /\ p \notin file
  /\ BeginPhotoJob(k, d, p, "store")

(* Mutant: the deleted rows are looked at as well (include_deleted=True). *)
BeginDeleteAgain(k, d, p) ==
  /\ photo[p] # "none"
  /\ BeginPhotoJob(k, d, p, "unlink")

BeginDeletePhoto(k, d, p) ==
  /\ LivePhoto(p)
  /\ BeginPhotoJob(k, d, p, "unlink")

At(stage) == job # None /\ job.stage = stage

Adding == job # None /\ photo[job.photo] = "none"

StorePhoto ==
  /\ At("store")
  /\ file' = file \cup {job.photo}
  /\ job' = [job EXCEPT !.stage = "commit"]
  /\ UNCHANGED <<vars, memoryVars>>

(* Mutant: the file is left for later. *)
UnlinkLater ==
  /\ At("unlink")
  /\ job' = [job EXCEPT !.stage = "commit"]
  /\ UNCHANGED <<vars, memoryVars, file>>

(* path.unlink(missing_ok=True) *)
UnlinkPhoto ==
  /\ At("unlink")
  /\ file' = file \ {job.photo}
  /\ job' = [job EXCEPT !.stage = "commit"]
  /\ UNCHANGED <<vars, memoryVars>>

CommitPhotoJob ==
  /\ At("commit")
  /\ photo' = [photo EXCEPT ![job.photo] = IF Adding THEN "live" ELSE "deleted"]
  /\ Record(job.key, job.device,
       [type |-> IF Adding THEN "photo_evidence_added" ELSE "photo_evidence_deleted"],
       job.photo)
  /\ job' = None
  /\ UNCHANGED <<location, fastener, item, observation, file>>

(* The inserts raise: create_photo deletes the file it stored. *)
CompensateCreatePhoto ==
  /\ At("commit") /\ Adding
  /\ file' = file \ {job.photo}
  /\ job' = None
  /\ UNCHANGED <<vars, memoryVars>>

(* The process dies, the request is cancelled or the commit itself fails:  *)
(* the transaction is rolled back and no handler runs.                     *)
Abort ==
  /\ job # None
  /\ job' = None
  /\ UNCHANGED <<vars, memoryVars, file>>

-----------------------------------------------------------------------------
SessionStep ==
  /\ \/ \E v \in Vehicles, d \in Devices : CreateRepairSession(Repair, v, d)
     \/ /\ LockFree
        /\ \/ \E d \in Devices, takeover \in BOOLEAN :
                AcquireEditLease(Repair, d, takeover)
           \/ \E type \in LIFECYCLE_EVENT_TYPES, k \in Keys, d \in Devices :
                AppendStatusEvent(Repair, type, k, d)
     \/ Tick
  /\ UNCHANGED <<memoryVars, file, job>>

MemoryNext ==
  \/ SessionStep
  \/ \E k \in Keys, d \in Devices :
       \/ \E l \in Locations : CreateStorageLocation(k, d, l)
       \/ \E f \in Fasteners, place \in Placements :
            \/ CreateFastener(k, d, f, place)
            \/ UpdateFastenerState(k, d, f, place)
       \/ \E i \in Items, stock \in Stocks : CreateInventoryItem(k, d, i, stock)
       \/ \E i \in Items, state \in ProcurementStates, q \in Quantities \cup {None} :
            UpdateInventoryState(k, d, i, state, q)
       \/ \E o \in Observations, f \in Fasteners \cup {None} : CreateObservation(k, d, o, f)
       \/ \E p \in Photos : BeginCreatePhoto(k, d, p) \/ BeginDeletePhoto(k, d, p)
  \/ StorePhoto
  \/ UnlinkPhoto
  \/ CommitPhotoJob
  \/ CompensateCreatePhoto
  \/ Abort

MemorySpec == MemoryInit /\ [][MemoryNext]_allVars
-----------------------------------------------------------------------------
(* Properties *)

RowsAbout(x) ==
  {e \in events[Repair] : payload[e.key] # None /\ payload[e.key].resource = x}

Request(e) == payload[e.key].request

FastenerAgrees(f) ==
  IF fastener[f] = None
  THEN RowsAbout(f) = {}
  ELSE /\ \E e \in RowsAbout(f) : \A g \in RowsAbout(f) :
            Request(g).type = "fastener_recorded" <=> g = e
       /\ fastener[f] = Request(Latest(RowsAbout(f))).place

Counted(i) == {e \in RowsAbout(i) : Request(e).stock.quantity # None}

ItemAgrees(i) ==
  item[i] # None =>
    /\ item[i].state = Request(Latest(RowsAbout(i))).stock.state
    /\ item[i].quantity = Request(Latest(Counted(i))).stock.quantity

Says(p, type) == {e \in RowsAbout(p) : Request(e).type = type}

PhotoAgrees(p) ==
  LET added == Says(p, "photo_evidence_added")
      gone  == Says(p, "photo_evidence_deleted")
  IN /\ photo[p] = "none"    => RowsAbout(p) = {}
     /\ photo[p] = "live"    => gone = {} /\ \E e \in added : added = {e}
     /\ photo[p] = "deleted" =>
          \E e \in added, g \in gone : added = {e} /\ gone = {g} /\ e.seq < g.seq

(* The tables show what the immutable history says: of a fastener, what    *)
(* the latest event says and one event created; of an item, the latest     *)
(* state and the quantity of the latest event that gives one; a photo is   *)
(* live from its one "added" event to its one "deleted" event, so that a   *)
(* repeated request finds the row its event names in the state the event   *)
(* left.  The rows and the event of a mutation are committed together, and *)
(* a late retry of an older update (same key) does not write.              *)
TablesAgree ==
  /\ \A f \in Fasteners : FastenerAgrees(f)
  /\ \A i \in Items : ItemAgrees(i)
  /\ \A p \in Photos : PhotoAgrees(p)

(* A photo whose deletion was committed has left the disk, whatever failed *)
(* in between.                                                             *)
DeletedPhotoHasNoFile ==
  \A p \in Photos : photo[p] = "deleted" => p \notin file

(* A row is written by the device that is the editor then.  The lease is   *)
(* looked at before the file work, and may expire during it; the lock is   *)
(* what keeps another device out until the commit.                         *)
JobIsNotOvertaken ==
  [][\A e \in events'[Repair] \ events[Repair] :
       session[Repair] # NoSession => projection[Repair].device = e.device]_allVars
===============================================================================
