-------------------------- MODULE RepairMemoryProofs --------------------------
(***************************************************************************)
(* Repair memory for any number of locations, fasteners, items,            *)
(* observations and photos: the tables say what the log says, a deleted    *)
(* photo has left the disk, and no mutation is overtaken, whatever fails   *)
(* between the file and the commit.                                        *)
(***************************************************************************)
EXTENDS Reorientation, RepairSessionProofs

(* What was said was said under a key of the log.                          *)
SaidInLog ==
  \A k \in Keys : payload[k] # None => \E e \in events[Repair] : e.key = k

(* A photo mutation under way: its device is the editor, its key is not    *)
(* used, and its photo is as far as its stage says.                        *)
JobIsPrepared ==
  job # None =>
    /\ session[Repair] # NoSession /\ projection[Repair] # Missing
    /\ projection[Repair].status # "archived"
    /\ projection[Repair].device = job.device
    /\ KeyUnused(Repair, job.key)
    /\ job.stage = "store"  => photo[job.photo] = "none"
    /\ job.stage = "unlink" => photo[job.photo] = "live"
    /\ job.stage = "commit" =>
         photo[job.photo] = "none" \/ (photo[job.photo] = "live" /\ job.photo \notin file)

(* Every row is of something the log tells of, and some event gave the     *)
(* quantity of an item.                                                    *)
RowsAreSaid ==
  /\ \A l \in location : RowsAbout(l) # {}
  /\ \A i \in Items : item[i] # None => Counted(i) # {}
  /\ \A o \in Observations : observation[o] # None => RowsAbout(o) # {}

MInv ==
  /\ IInv /\ MemoryTypeOK
  /\ SaidInLog /\ RowsAreSaid /\ JobIsPrepared
  /\ DeletedPhotoHasNoFile /\ TablesAgree

-----------------------------------------------------------------------------
(* What the events say *)

LEMMA PayloadKinds ==
  ASSUME NEW p \in Payloads
  PROVE  /\ p # None
         /\ p.resource \in Fasteners =>
              /\ p.request.type \in {"fastener_recorded", "fastener_state_changed"}
              /\ p.request.place \in Placements
         /\ p.resource \in Items => p.request.stock \in StockUpdates
         /\ p.resource \in Photos =>
              p.request.type \in {"photo_evidence_added", "photo_evidence_deleted"}
BY IdentifiersAssumption, MemoryNullAssumption DEF Payloads, Stocks, StockUpdates

(* The row e is new in the log, is its last, and says r of x.              *)
Recorded(e, r, x) ==
  /\ e \in Row(Keys, Devices)
  /\ events'[Repair] = events[Repair] \cup {e}
  /\ \A f \in events[Repair] :
       /\ f.seq \in Nat /\ f.seq < e.seq /\ f.key \in Keys
       /\ payload'[f.key] = payload[f.key]
  /\ payload'[e.key].request = r /\ payload'[e.key].resource = x /\ payload'[e.key] # None

LEMMA RecordDoes ==
  ASSUME MInv, NEW k \in Keys, NEW d \in Devices, NEW r, NEW x, NEW p \in Payloads,
         p = [request |-> r, resource |-> x],
         session[Repair] # NoSession, projection[Repair] # Missing,
         projection[Repair].status # "archived", Record(k, d, r, x)
  PROVE  /\ IInv' /\ SaidInLog' /\ payload' \in [Keys -> Payloads \cup {None}]
         /\ \E e \in Row(Keys, Devices) : e.device = d /\ Recorded(e, r, x)
<1>1. /\ AppendDomainEvent(Repair, k, d) /\ payload' = [payload EXCEPT ![k] = p]
      /\ Repair \in Sessions
  BY RepairAssumption DEF Record
<1>2. IInv'
  BY <1>1, AppendDomainKeeps DEF MInv
<1>3. PICK e \in Row(Keys, Devices) :
        /\ events' = [events EXCEPT ![Repair] = events[Repair] \cup {e}]
        /\ e.key = k /\ e.device = d
        /\ \A f \in events[Repair] : f.key # k /\ f.seq \in Nat /\ f.seq < e.seq
  BY <1>1, DomainRowIsLast DEF MInv
<1>4. events'[Repair] = events[Repair] \cup {e}
  BY <1>1, <1>3 DEF MInv, IInv
<1>5. /\ payload'[k] = p /\ \A m \in Keys : m # k => payload'[m] = payload[m]
      /\ payload' \in [Keys -> Payloads \cup {None}]
  BY <1>1 DEF MInv, MemoryTypeOK
<1>6. p # None /\ p.request = r /\ p.resource = x
  BY PayloadKinds
<1>7. \A f \in events[Repair] : f.key \in Keys
  BY <1>1 DEF MInv, IInv, Row
<1>8. Recorded(e, r, x)
  BY <1>3, <1>4, <1>5, <1>6, <1>7 DEF Recorded
<1>9. SaidInLog'
  BY <1>3, <1>4, <1>5 DEF MInv, SaidInLog
<1>10. QED
  BY <1>2, <1>3, <1>5, <1>8, <1>9

(* The rows about a thing, and what they say, after one more event.        *)
LEMMA RowsGrow ==
  ASSUME NEW e, NEW r, NEW x, NEW y, Recorded(e, r, x)
  PROVE  /\ RowsAbout(y)' = IF y = x THEN RowsAbout(y) \cup {e} ELSE RowsAbout(y)
         /\ \A f \in RowsAbout(y) :
              /\ f # e /\ payload'[f.key] = payload[f.key]
              /\ f.seq \in Nat /\ f.seq < e.seq
<1>1. RowsAbout(y)' = IF y = x THEN RowsAbout(y) \cup {e} ELSE RowsAbout(y)
  BY DEF RowsAbout, Recorded
<1>2. QED
  BY <1>1 DEF RowsAbout, Recorded

LEMMA NewIsLatest ==
  ASSUME NEW e, NEW r, NEW x, Recorded(e, r, x), NEW rows, rows \subseteq events[Repair] \cup {e},
         e \in rows
  PROVE  Latest(rows) = e
<1>1. \A f \in rows : f.seq \in Int /\ (f # e => f.seq < e.seq)
  BY DEF Recorded, Row
<1>2. QED
  BY <1>1, LatestIsUnique

LEMMA LatestAbout ==
  ASSUME MInv, NEW rows \in SUBSET events[Repair], rows # {}
  PROVE  Latest(rows) \in rows
BY RepairAssumption, SomeRowIsLast DEF MInv

-----------------------------------------------------------------------------
(* The tables a step does not write *)

(* New rows about which nothing is said leave the tables in agreement.     *)
LEMMA SilentKeeps ==
  ASSUME MInv, UNCHANGED memoryVars, events[Repair] \subseteq events'[Repair],
         \A e \in events'[Repair] \ events[Repair] : e.key \in Keys /\ KeyUnused(Repair, e.key)
  PROVE  SaidInLog' /\ RowsAreSaid' /\ TablesAgree'
<1>1. \A e \in events'[Repair] \ events[Repair] : payload[e.key] = None
  BY DEF MInv, SaidInLog, KeyUnused
<1>2. /\ UNCHANGED <<payload, location, fastener, item, observation, photo>>
      /\ \A x : RowsAbout(x)' = RowsAbout(x)
  BY <1>1 DEF memoryVars, RowsAbout
<1>3. SaidInLog'
  BY <1>2 DEF MInv, SaidInLog
<1>4. RowsAreSaid'
  BY <1>2 DEF MInv, RowsAreSaid, Counted, Request
<1>5. ASSUME NEW f \in Fasteners PROVE FastenerAgrees(f)'
  BY <1>2 DEF MInv, TablesAgree, FastenerAgrees, Request
<1>6. ASSUME NEW i \in Items PROVE ItemAgrees(i)'
  <2>1. Counted(i)' = Counted(i)
    BY <1>2 DEF Counted, Request
  <2>2. ItemAgrees(i)
    BY DEF MInv, TablesAgree
  <2>3. QED
    BY <1>2, <2>1, <2>2 DEF ItemAgrees, Request
<1>7. ASSUME NEW p \in Photos PROVE PhotoAgrees(p)'
  <2>1. \A type : Says(p, type)' = Says(p, type)
    BY <1>2 DEF Says, Request
  <2>2. PhotoAgrees(p)
    BY DEF MInv, TablesAgree
  <2>3. QED
    BY <1>2, <2>1, <2>2 DEF PhotoAgrees
<1>8. QED
  BY <1>3, <1>4, <1>5, <1>6, <1>7 DEF TablesAgree

LEMMA FastenerStays ==
  ASSUME MInv, NEW e, NEW r, NEW x, Recorded(e, r, x),
         NEW f \in Fasteners, f # x, fastener'[f] = fastener[f]
  PROVE  FastenerAgrees(f)'
<1>1. PICK rows : rows = RowsAbout(f)
  OBVIOUS
<1>2. RowsAbout(f)' = rows /\ \A g \in rows : payload'[g.key] = payload[g.key]
  BY <1>1, RowsGrow
<1>3. rows # {} => Latest(rows) \in rows
  BY <1>1, LatestAbout DEF RowsAbout
<1>4. FastenerAgrees(f)
  BY DEF MInv, TablesAgree
<1>5. QED
  BY <1>1, <1>2, <1>3, <1>4 DEF FastenerAgrees, Request

LEMMA ItemStays ==
  ASSUME MInv, NEW e, NEW r, NEW x, Recorded(e, r, x),
         NEW i \in Items, i # x, item'[i] = item[i]
  PROVE  ItemAgrees(i)' /\ (item'[i] # None => Counted(i)' # {})
<1> SUFFICES ASSUME item[i] # None
             PROVE  /\ Counted(i)' # {}
                    /\ item[i].state = payload'[Latest(RowsAbout(i)').key].request.stock.state
                    /\ item[i].quantity = payload'[Latest(Counted(i)').key].request.stock.quantity
  BY DEF ItemAgrees, Request
<1>1. PICK rows, counted : rows = RowsAbout(i) /\ counted = Counted(i)
  OBVIOUS
<1>2. RowsAbout(i)' = rows /\ \A g \in rows : payload'[g.key] = payload[g.key]
  BY <1>1, RowsGrow
<1>3. Counted(i)' = counted
  BY <1>1, <1>2 DEF Counted, Request
<1>4. counted # {} /\ counted \subseteq rows /\ rows \subseteq events[Repair]
  BY <1>1 DEF MInv, RowsAreSaid, Counted, RowsAbout
<1>5. Latest(rows) \in rows /\ Latest(counted) \in counted
  BY <1>4, LatestAbout
<1>6. /\ item[i].state = payload[Latest(rows).key].request.stock.state
      /\ item[i].quantity = payload[Latest(counted).key].request.stock.quantity
  BY <1>1 DEF MInv, TablesAgree, ItemAgrees, Request
<1>7. QED
  BY <1>2, <1>3, <1>4, <1>5, <1>6

LEMMA PhotoStays ==
  ASSUME MInv, NEW e, NEW r, NEW x, Recorded(e, r, x),
         NEW p \in Photos, p # x, photo'[p] = photo[p]
  PROVE  PhotoAgrees(p)'
<1>1. PICK rows : rows = RowsAbout(p)
  OBVIOUS
<1>2. RowsAbout(p)' = rows /\ \A g \in rows : payload'[g.key] = payload[g.key]
  BY <1>1, RowsGrow
<1>3. \A type : Says(p, type)' = Says(p, type)
  BY <1>1, <1>2 DEF Says, Request
<1>4. PhotoAgrees(p)
  BY DEF MInv, TablesAgree
<1>5. QED
  BY <1>1, <1>2, <1>3, <1>4 DEF PhotoAgrees

-----------------------------------------------------------------------------
(* The row a step writes *)

LEMMA FastenerWritten ==
  ASSUME MInv, NEW e, NEW r, NEW x \in Fasteners, Recorded(e, r, x),
         fastener'[x] = r.place, r.place \in Placements,
         r.type = "fastener_recorded" <=> fastener[x] = None
  PROVE  FastenerAgrees(x)'
<1>1. PICK rows : rows = RowsAbout(x)
  OBVIOUS
<1>2. /\ RowsAbout(x)' = rows \cup {e}
      /\ \A g \in rows : g # e /\ payload'[g.key] = payload[g.key]
      /\ payload'[e.key].request = r
  BY <1>1, RowsGrow DEF Recorded
<1>3. rows \cup {e} \subseteq events[Repair] \cup {e}
  BY <1>1 DEF RowsAbout
<1>4. Latest(rows \cup {e}) = e
  BY <1>3, NewIsLatest
<1>5. fastener'[x] # None
  BY MemoryNullAssumption
<1>6. IF fastener[x] = None THEN rows = {}
      ELSE \E h \in rows : \A g \in rows :
             payload[g.key].request.type = "fastener_recorded" <=> g = h
  BY <1>1 DEF MInv, TablesAgree, FastenerAgrees, Request
<1>7. \E h \in rows \cup {e} : \A g \in rows \cup {e} :
        payload'[g.key].request.type = "fastener_recorded" <=> g = h
  <2>1. CASE fastener[x] = None
    BY <1>2, <1>6, <2>1
  <2>2. CASE fastener[x] # None
    BY <1>2, <1>6, <2>2
  <2>3. QED
    BY <2>1, <2>2
<1>8. QED
  BY <1>2, <1>4, <1>5, <1>7 DEF FastenerAgrees, Request

LEMMA ItemWritten ==
  ASSUME MInv, NEW e, NEW r, NEW x \in Items, Recorded(e, r, x), r.stock \in StockUpdates,
         item'[x].state = r.stock.state,
         r.stock.quantity # None => item'[x].quantity = r.stock.quantity,
         r.stock.quantity = None => item[x] # None /\ item'[x].quantity = item[x].quantity
  PROVE  ItemAgrees(x)' /\ Counted(x)' # {}
<1>1. PICK rows, counted : rows = RowsAbout(x) /\ counted = Counted(x)
  OBVIOUS
<1>2. /\ RowsAbout(x)' = rows \cup {e}
      /\ \A g \in rows : g # e /\ payload'[g.key] = payload[g.key]
      /\ payload'[e.key].request = r
      /\ counted \subseteq rows /\ rows \subseteq events[Repair]
  BY <1>1, RowsGrow DEF Recorded, Counted, RowsAbout
<1>3. Latest(rows \cup {e}) = e
  BY <1>2, NewIsLatest
<1>4. item'[x].state = payload'[Latest(RowsAbout(x)').key].request.stock.state
  BY <1>2, <1>3
<1>5. CASE r.stock.quantity # None
  <2>1. Counted(x)' = counted \cup {e}
    BY <1>1, <1>2, <1>5 DEF Counted, Request
  <2>2. Latest(counted \cup {e}) = e
    BY <1>2, NewIsLatest
  <2>3. QED
    BY <1>2, <1>4, <1>5, <2>1, <2>2 DEF ItemAgrees, Request
<1>6. CASE r.stock.quantity = None
  <2>1. Counted(x)' = counted
    BY <1>1, <1>2, <1>6 DEF Counted, Request
  <2>2. counted # {} /\ item[x].quantity = payload[Latest(counted).key].request.stock.quantity
    BY <1>1, <1>6 DEF MInv, RowsAreSaid, TablesAgree, ItemAgrees, Request
  <2>3. Latest(counted) \in counted
    BY <1>2, <2>2, LatestAbout
  <2>4. QED
    BY <1>2, <1>4, <1>6, <2>1, <2>2, <2>3 DEF ItemAgrees, Request
<1>7. QED
  BY <1>5, <1>6

LEMMA PhotoWritten ==
  ASSUME MInv, NEW e, NEW r, NEW x \in Photos, Recorded(e, r, x),
         \/ /\ photo[x] = "none" /\ photo'[x] = "live" /\ r.type = "photo_evidence_added"
         \/ /\ photo[x] = "live" /\ photo'[x] = "deleted" /\ r.type = "photo_evidence_deleted"
  PROVE  PhotoAgrees(x)'
<1>1. PICK rows : rows = RowsAbout(x)
  OBVIOUS
<1>2. /\ RowsAbout(x)' = rows \cup {e}
      /\ \A g \in rows : /\ g # e /\ payload'[g.key] = payload[g.key]
                          /\ g.seq \in Nat /\ g.seq < e.seq
      /\ payload'[e.key].request = r
  BY <1>1, RowsGrow DEF Recorded
<1>3. PICK added, gone : /\ added = Says(x, "photo_evidence_added")
                         /\ gone = Says(x, "photo_evidence_deleted")
  OBVIOUS
<1>4. /\ photo[x] = "none" => rows = {}
      /\ photo[x] = "live" => gone = {} /\ \E a \in added : added = {a}
  BY <1>1, <1>3 DEF MInv, TablesAgree, PhotoAgrees
<1>5. added \subseteq rows /\ gone \subseteq rows
  BY <1>1, <1>3 DEF Says
<1>6. CASE photo[x] = "none"
  <2>1. Says(x, "photo_evidence_added")' = {e} /\ Says(x, "photo_evidence_deleted")' = {}
    BY <1>2, <1>4, <1>6 DEF Says, Request
  <2>2. QED
    BY <1>6, <2>1 DEF PhotoAgrees
<1>7. CASE photo[x] = "live"
  <2>1. Says(x, "photo_evidence_added")' = added
    BY <1>1, <1>2, <1>3, <1>7 DEF Says, Request
  <2>2. Says(x, "photo_evidence_deleted")' = gone \cup {e}
    BY <1>1, <1>2, <1>3, <1>7 DEF Says, Request
  <2>3. PICK a \in added : added = {a} /\ a.seq < e.seq
    BY <1>2, <1>4, <1>5, <1>7
  <2>4. gone \cup {e} = {e}
    BY <1>4, <1>7
  <2>5. QED
    BY <1>7, <2>1, <2>2, <2>3, <2>4 DEF PhotoAgrees
<1>8. QED
  BY <1>6, <1>7

-----------------------------------------------------------------------------
(* The mutations in one step *)

LEMMA TablesAreKept ==
  ASSUME MInv, NEW e, NEW r, NEW x, Recorded(e, r, x),
         \A f \in Fasteners : f # x => fastener'[f] = fastener[f],
         \A i \in Items : i # x => item'[i] = item[i],
         \A p \in Photos : p # x => photo'[p] = photo[p],
         x \in Fasteners => FastenerAgrees(x)',
         x \in Items => ItemAgrees(x)' /\ Counted(x)' # {},
         x \in Photos => PhotoAgrees(x)',
         location' \subseteq location \cup {x},
         \A o \in Observations : o # x => observation'[o] = observation[o]
  PROVE  TablesAgree' /\ RowsAreSaid'
<1>1. ASSUME NEW f \in Fasteners PROVE FastenerAgrees(f)'
  <2>1. CASE f # x
    BY <2>1, FastenerStays
  <2>2. CASE f = x
    BY <2>2
  <2>3. QED
    BY <2>1, <2>2
<1>2. ASSUME NEW i \in Items PROVE ItemAgrees(i)' /\ (item'[i] # None => Counted(i)' # {})
  <2>1. CASE i # x
    BY <2>1, ItemStays
  <2>2. CASE i = x
    BY <2>2
  <2>3. QED
    BY <2>1, <2>2
<1>3. ASSUME NEW p \in Photos PROVE PhotoAgrees(p)'
  <2>1. CASE p # x
    BY <2>1, PhotoStays
  <2>2. CASE p = x
    BY <2>2
  <2>3. QED
    BY <2>1, <2>2
<1>4. \A y : RowsAbout(y) # {} \/ y = x => RowsAbout(y)' # {}
  BY RowsGrow
<1>5. TablesAgree'
  BY <1>1, <1>2, <1>3 DEF TablesAgree
<1>6. RowsAreSaid'
  <2>1. /\ \A l \in location : RowsAbout(l) # {}
        /\ \A o \in Observations : observation[o] # None => RowsAbout(o) # {}
    BY DEF MInv, RowsAreSaid
  <2>2. QED
    BY <1>2, <1>4, <2>1 DEF RowsAreSaid
<1>7. QED
  BY <1>5, <1>6

LEMMA MutationDoes ==
  ASSUME MInv, NEW k \in Keys, NEW d \in Devices, NEW r, NEW x, NEW p \in Payloads,
         p = [request |-> r, resource |-> x], Mutation(k, d, r, x)
  PROVE  /\ IInv' /\ SaidInLog' /\ payload' \in [Keys -> Payloads \cup {None}]
         /\ JobIsPrepared' /\ DeletedPhotoHasNoFile' /\ UNCHANGED <<photo, file, job>>
         /\ \E e \in Row(Keys, Devices) : Recorded(e, r, x)
<1>1. /\ session[Repair] # NoSession /\ projection[Repair] # Missing
      /\ projection[Repair].status # "archived" /\ Record(k, d, r, x)
      /\ job = None /\ UNCHANGED <<photo, file, job>>
  BY DEF Mutation, PrepareDomainMutation, HasEditLease, LockFree
<1>2. JobIsPrepared' /\ DeletedPhotoHasNoFile'
  BY <1>1 DEF MInv, JobIsPrepared, DeletedPhotoHasNoFile
<1>3. QED
  BY <1>1, <1>2, RecordDoes

LEMMA LocationKeeps ==
  ASSUME MInv, NEW k \in Keys, NEW d \in Devices, NEW x \in Locations,
         CreateStorageLocation(k, d, x)
  PROVE  MInv'
<1>1. PICK r, p : r = [type |-> "storage_location_created"]
                  /\ p = [request |-> r, resource |-> x]
  OBVIOUS
<1>2. /\ location' = location \cup {x} /\ UNCHANGED <<fastener, item, observation>>
      /\ Mutation(k, d, r, x)
  BY <1>1 DEF CreateStorageLocation
<1>3. p \in Payloads
  BY <1>1 DEF Payloads
<1>4. /\ IInv' /\ SaidInLog' /\ payload' \in [Keys -> Payloads \cup {None}]
      /\ JobIsPrepared' /\ DeletedPhotoHasNoFile' /\ UNCHANGED <<photo, file, job>>
      /\ \E e \in Row(Keys, Devices) : Recorded(e, r, x)
  BY <1>1, <1>2, <1>3, MutationDoes
<1>5. MemoryTypeOK'
  BY <1>2, <1>4 DEF MInv, MemoryTypeOK
<1>6. TablesAgree' /\ RowsAreSaid'
  BY <1>2, <1>4, TablesAreKept, IdentifiersAssumption
<1>7. QED
  BY <1>4, <1>5, <1>6 DEF MInv

LEMMA FastenerKeeps ==
  ASSUME MInv, NEW k \in Keys, NEW d \in Devices, NEW x \in Fasteners, NEW place \in Placements,
         CreateFastener(k, d, x, place) \/ UpdateFastenerState(k, d, x, place)
  PROVE  MInv'
<1>1. PICK r, p :
        /\ r = [type |-> IF fastener[x] = None THEN "fastener_recorded"
                         ELSE "fastener_state_changed", place |-> place]
        /\ p = [request |-> r, resource |-> x]
  OBVIOUS
<1>2. /\ fastener' = [fastener EXCEPT ![x] = place] /\ UNCHANGED <<location, item, observation>>
      /\ place.location # None => place.location \in location
      /\ Mutation(k, d, r, x)
  BY <1>1 DEF CreateFastener, UpdateFastenerState, Fastener, StorageLocation
<1>3. p \in Payloads
  BY <1>1 DEF Payloads
<1>4. /\ IInv' /\ SaidInLog' /\ payload' \in [Keys -> Payloads \cup {None}]
      /\ JobIsPrepared' /\ DeletedPhotoHasNoFile' /\ UNCHANGED <<photo, file, job>>
      /\ \E e \in Row(Keys, Devices) : Recorded(e, r, x)
  BY <1>1, <1>2, <1>3, MutationDoes
<1>5. fastener'[x] = place /\ \A f \in Fasteners \ {x} : fastener'[f] = fastener[f]
  BY <1>2 DEF MInv, MemoryTypeOK
<1>6. MemoryTypeOK'
  <2>1. fastener' \in [Fasteners -> Placements \cup {None}]
    BY <1>2 DEF MInv, MemoryTypeOK
  <2>2. place # None
    BY MemoryNullAssumption
  <2>3. \A f \in Fasteners : fastener'[f] # None => fastener'[f].location \in location \cup {None}
    BY <1>2, <1>5 DEF MInv, MemoryTypeOK
  <2>4. \A f \in Fasteners : fastener[f] # None => fastener'[f] # None
    BY <1>5, <2>2
  <2>5. QED
    BY <1>2, <1>4, <2>1, <2>3, <2>4 DEF MInv, MemoryTypeOK
<1>7. r.place = place /\ (r.type = "fastener_recorded" <=> fastener[x] = None)
  BY <1>1
<1>8. TablesAgree' /\ RowsAreSaid'
  <2>1. PICK e \in Row(Keys, Devices) : Recorded(e, r, x)
    BY <1>4
  <2>2. FastenerAgrees(x)'
    BY <1>5, <1>7, <2>1, FastenerWritten
  <2>3. QED
    BY <1>2, <1>4, <1>5, <2>1, <2>2, TablesAreKept, IdentifiersAssumption
<1>9. QED
  BY <1>4, <1>6, <1>8 DEF MInv

(* An inventory item is written, with the quantity it had if none is given. *)
LEMMA ItemKeeps ==
  ASSUME MInv, NEW k \in Keys, NEW d \in Devices, NEW x \in Items, NEW r, NEW p \in Payloads,
         p = [request |-> r, resource |-> x], Mutation(k, d, r, x), NEW row \in Stocks,
         item' = [item EXCEPT ![x] = row], UNCHANGED <<location, fastener, observation>>,
         row.state = r.stock.state,
         r.stock.quantity # None => row.quantity = r.stock.quantity,
         r.stock.quantity = None => item[x] # None /\ row.quantity = item[x].quantity
  PROVE  MInv'
<1>1. /\ IInv' /\ SaidInLog' /\ payload' \in [Keys -> Payloads \cup {None}]
      /\ JobIsPrepared' /\ DeletedPhotoHasNoFile' /\ UNCHANGED <<photo, file, job>>
      /\ \E e \in Row(Keys, Devices) : Recorded(e, r, x)
  BY MutationDoes
<1>2. item'[x] = row /\ \A i \in Items \ {x} : item'[i] = item[i]
  BY DEF MInv, MemoryTypeOK
<1>3. MemoryTypeOK'
  BY <1>1 DEF MInv, MemoryTypeOK
<1>4. TablesAgree' /\ RowsAreSaid'
  <2>1. PICK e \in Row(Keys, Devices) : Recorded(e, r, x)
    BY <1>1
  <2>2. r.stock \in StockUpdates
    BY PayloadKinds
  <2>3. ItemAgrees(x)' /\ Counted(x)' # {}
    BY <1>2, <2>1, <2>2, ItemWritten
  <2>4. QED
    BY <1>1, <1>2, <2>1, <2>3, TablesAreKept, IdentifiersAssumption
<1>5. QED
  BY <1>1, <1>3, <1>4 DEF MInv

LEMMA CreateItemKeeps ==
  ASSUME MInv, NEW k \in Keys, NEW d \in Devices, NEW x \in Items, NEW stock \in Stocks,
         CreateInventoryItem(k, d, x, stock)
  PROVE  MInv'
<1>1. PICK r, p : /\ r = [type |-> "inventory_item_recorded", stock |-> stock]
                  /\ p = [request |-> r, resource |-> x]
  OBVIOUS
<1>2. p \in Payloads /\ r.stock = stock
  BY <1>1 DEF Payloads
<1>3. stock.quantity # None
  BY MemoryNullAssumption DEF Stocks
<1>4. QED
  BY <1>1, <1>2, <1>3, ItemKeeps DEF CreateInventoryItem

LEMMA UpdateItemKeeps ==
  ASSUME MInv, NEW k \in Keys, NEW d \in Devices, NEW x \in Items,
         NEW state \in ProcurementStates, NEW q \in Quantities \cup {None},
         UpdateInventoryState(k, d, x, state, q)
  PROVE  MInv'
<1>1. PICK stock, r, p : /\ stock = [state |-> state, quantity |-> q]
                         /\ r = [type |-> "inventory_state_changed", stock |-> stock]
                         /\ p = [request |-> r, resource |-> x]
  OBVIOUS
<1>2. p \in Payloads /\ r.stock = stock /\ stock.state = state /\ stock.quantity = q
  BY <1>1 DEF Payloads, StockUpdates
<1>3. item[x] \in Stocks /\ item[x] # None
  BY DEF UpdateInventoryState, InventoryItem, MInv, MemoryTypeOK
<1>4. PICK row : row = IF q = None THEN [item[x] EXCEPT !.state = state] ELSE stock
  OBVIOUS
<1>5. /\ row \in Stocks /\ row.state = state
      /\ row.quantity = IF q = None THEN item[x].quantity ELSE q
  BY <1>1, <1>3, <1>4 DEF Stocks
<1>6. /\ Mutation(k, d, r, x) /\ item' = [item EXCEPT ![x] = row]
      /\ UNCHANGED <<location, fastener, observation>>
  BY <1>1, <1>4 DEF UpdateInventoryState
<1>7. QED
  BY <1>1, <1>2, <1>3, <1>5, <1>6, ItemKeeps

LEMMA ObservationKeeps ==
  ASSUME MInv, NEW k \in Keys, NEW d \in Devices, NEW x \in Observations,
         NEW f \in Fasteners \cup {None}, CreateObservation(k, d, x, f)
  PROVE  MInv'
<1>1. PICK r, p : /\ r = [type |-> "observation_recorded", fastener |-> f]
                  /\ p = [request |-> r, resource |-> x]
  OBVIOUS
<1>2. /\ observation' = [observation EXCEPT ![x] = [fastener |-> f]]
      /\ f # None => fastener[f] # None
      /\ UNCHANGED <<location, fastener, item>> /\ Mutation(k, d, r, x)
  BY <1>1 DEF CreateObservation, Fastener
<1>3. p \in Payloads
  BY <1>1 DEF Payloads
<1>4. /\ IInv' /\ SaidInLog' /\ payload' \in [Keys -> Payloads \cup {None}]
      /\ JobIsPrepared' /\ DeletedPhotoHasNoFile' /\ UNCHANGED <<photo, file, job>>
      /\ \E e \in Row(Keys, Devices) : Recorded(e, r, x)
  BY <1>1, <1>2, <1>3, MutationDoes
<1>5. MemoryTypeOK'
  <2>0. PICK note : note = [fastener |-> f]
    OBVIOUS
  <2>1. note \in Notes /\ note.fastener = f
    BY <2>0 DEF Notes
  <2>2. /\ observation' \in [Observations -> Notes \cup {None}]
        /\ observation'[x] = note
        /\ \A o \in Observations \ {x} : observation'[o] = observation[o]
    BY <1>2, <2>0, <2>1 DEF MInv, MemoryTypeOK
  <2>3. QED
    BY <1>2, <1>4, <2>1, <2>2 DEF MInv, MemoryTypeOK
<1>6. TablesAgree' /\ RowsAreSaid'
  <2>1. \A o \in Observations : o # x => observation'[o] = observation[o]
    BY <1>2 DEF MInv, MemoryTypeOK
  <2>2. QED
    BY <1>2, <1>4, <2>1, TablesAreKept, IdentifiersAssumption
<1>7. QED
  BY <1>4, <1>5, <1>6 DEF MInv

-----------------------------------------------------------------------------
(* The photo mutations *)

(* Until the commit they write no table, only the file and the job.        *)
LEMMA PhotoJobKeeps ==
  ASSUME MInv, UNCHANGED <<vars, memoryVars>>, file' \subseteq Photos,
         job' \in PhotoJobs \cup {None},
         job' # None =>
           /\ session[Repair] # NoSession /\ projection[Repair] # Missing
           /\ projection[Repair].status # "archived"
           /\ projection[Repair].device = job'.device
           /\ KeyUnused(Repair, job'.key)
           /\ job'.stage = "store"  => photo[job'.photo] = "none"
           /\ job'.stage = "unlink" => photo[job'.photo] = "live"
           /\ job'.stage = "commit" =>
                photo[job'.photo] = "none" \/ (photo[job'.photo] = "live" /\ job'.photo \notin file'),
         \A p \in Photos : photo[p] = "deleted" => p \notin file'
  PROVE  MInv'
<1>1. SaidInLog' /\ RowsAreSaid' /\ TablesAgree'
  BY SilentKeeps DEF vars
<1>2. IInv'
  BY DEF vars, MInv, IInv
<1>3. MemoryTypeOK'
  BY DEF memoryVars, MInv, MemoryTypeOK
<1>4. JobIsPrepared' /\ DeletedPhotoHasNoFile'
  BY DEF vars, memoryVars, JobIsPrepared, DeletedPhotoHasNoFile, KeyUnused
<1>5. QED
  BY <1>1, <1>2, <1>3, <1>4 DEF MInv

LEMMA BeginPhotoKeeps ==
  ASSUME MInv, NEW k \in Keys, NEW d \in Devices, NEW p \in Photos,
         NEW stage \in {"store", "unlink"}, BeginPhotoJob(k, d, p, stage),
         photo[p] = IF stage = "store" THEN "none" ELSE "live"
  PROVE  MInv'
<1>1. /\ session[Repair] # NoSession /\ projection[Repair] # Missing
      /\ KeyUnused(Repair, k) /\ projection[Repair].device = d
      /\ projection[Repair].status # "archived"
      /\ UNCHANGED <<vars, memoryVars, file>>
  BY DEF BeginPhotoJob, PrepareDomainMutation, HasEditLease, LeaseView
<1>2. PICK j : j = [photo |-> p, key |-> k, device |-> d, stage |-> stage]
  OBVIOUS
<1>3. j \in PhotoJobs /\ j.photo = p /\ j.key = k /\ j.device = d /\ j.stage = stage /\ job' = j
  BY <1>2 DEF PhotoJobs, BeginPhotoJob
<1>4. file' \subseteq Photos /\ \A x \in Photos : photo[x] = "deleted" => x \notin file'
  BY <1>1 DEF MInv, MemoryTypeOK, DeletedPhotoHasNoFile
<1>5. QED
  BY <1>1, <1>3, <1>4, PhotoJobKeeps

LEMMA JobIsTyped ==
  ASSUME MInv, job # None
  PROVE  /\ job \in PhotoJobs /\ job.photo \in Photos /\ job.key \in Keys
         /\ job.device \in Devices
         /\ session[Repair] # NoSession /\ projection[Repair] # Missing
         /\ projection[Repair].status # "archived"
         /\ projection[Repair].device = job.device
         /\ KeyUnused(Repair, job.key)
BY DEF MInv, MemoryTypeOK, PhotoJobs, JobIsPrepared

(* The file work is done: the photo is ready to be committed.              *)
LEMMA FileWorkKeeps ==
  ASSUME MInv, StorePhoto \/ UnlinkPhoto
  PROVE  MInv'
<1>1. /\ job # None /\ job' = [job EXCEPT !.stage = "commit"]
      /\ UNCHANGED <<vars, memoryVars>>
      /\ \/ job.stage = "store" /\ file' = file \cup {job.photo}
         \/ job.stage = "unlink" /\ file' = file \ {job.photo}
  BY DEF StorePhoto, UnlinkPhoto, At
<1>2. PICK j \in PhotoJobs : j = job
  BY <1>1, JobIsTyped
<1>3. PICK n : n = [j EXCEPT !.stage = "commit"]
  OBVIOUS
<1>4. /\ n \in PhotoJobs /\ n.stage = "commit" /\ n.photo = j.photo /\ n.key = j.key
      /\ n.device = j.device /\ job' = n
  BY <1>1, <1>2, <1>3 DEF PhotoJobs
<1>5. \/ photo[j.photo] = "none" /\ file' = file \cup {j.photo}
      \/ photo[j.photo] = "live" /\ file' = file \ {j.photo}
  BY <1>1, <1>2 DEF MInv, JobIsPrepared
<1>6. file' \subseteq Photos /\ j.photo \in Photos
  BY <1>1, <1>2, JobIsTyped DEF MInv, MemoryTypeOK
<1>7. \A p \in Photos : photo[p] = "deleted" => p \notin file'
  BY <1>5 DEF MInv, DeletedPhotoHasNoFile
<1>8. QED
  BY <1>1, <1>2, <1>4, <1>5, <1>6, <1>7, JobIsTyped, PhotoJobKeeps

LEMMA PhotoFails ==
  ASSUME MInv, CompensateCreatePhoto \/ Abort
  PROVE  MInv'
<1>1. job' = None /\ UNCHANGED <<vars, memoryVars>> /\ file' \subseteq file
  BY DEF CompensateCreatePhoto, Abort
<1>2. file' \subseteq Photos /\ \A p \in Photos : photo[p] = "deleted" => p \notin file'
  BY <1>1 DEF MInv, MemoryTypeOK, DeletedPhotoHasNoFile
<1>3. QED
  BY <1>1, <1>2, PhotoJobKeeps

LEMMA CommitPhotoKeeps ==
  ASSUME MInv, CommitPhotoJob
  PROVE  MInv'
<1>1. PICK j, x : j = job /\ x = j.photo
  OBVIOUS
<1>2. j # None /\ j.stage = "commit"
  BY <1>1 DEF CommitPhotoJob, At
<1>3. /\ x \in Photos /\ j.key \in Keys /\ j.device \in Devices
      /\ session[Repair] # NoSession /\ projection[Repair] # Missing
      /\ projection[Repair].status # "archived"
      /\ photo[x] = "none" \/ (photo[x] = "live" /\ x \notin file)
  BY <1>1, <1>2, JobIsTyped DEF MInv, JobIsPrepared
<1>4. PICK r, p : /\ r = [type |-> IF photo[x] = "none" THEN "photo_evidence_added"
                                  ELSE "photo_evidence_deleted"]
                  /\ p = [request |-> r, resource |-> x]
  OBVIOUS
<1>5. p \in Payloads
  BY <1>3, <1>4 DEF Payloads
<1>6. /\ photo' = [photo EXCEPT ![x] = IF photo[x] = "none" THEN "live" ELSE "deleted"]
      /\ Record(j.key, j.device, r, x)
      /\ job' = None /\ UNCHANGED <<location, fastener, item, observation, file>>
  BY <1>1, <1>2, <1>4 DEF CommitPhotoJob, Adding
<1>7. /\ IInv' /\ SaidInLog' /\ payload' \in [Keys -> Payloads \cup {None}]
      /\ \E e \in Row(Keys, Devices) : Recorded(e, r, x)
  BY <1>3, <1>4, <1>5, <1>6, RecordDoes
<1>8. /\ photo'[x] = IF photo[x] = "none" THEN "live" ELSE "deleted"
      /\ \A y \in Photos \ {x} : photo'[y] = photo[y]
      /\ photo' \in [Photos -> {"none", "live", "deleted"}]
  BY <1>3, <1>6 DEF MInv, MemoryTypeOK
<1>9. MemoryTypeOK'
  BY <1>6, <1>7, <1>8 DEF MInv, MemoryTypeOK
<1>10. JobIsPrepared' /\ DeletedPhotoHasNoFile'
  BY <1>3, <1>6, <1>8 DEF MInv, JobIsPrepared, DeletedPhotoHasNoFile
<1>11. TablesAgree' /\ RowsAreSaid'
  <2>1. PICK e \in Row(Keys, Devices) : Recorded(e, r, x)
    BY <1>7
  <2>2. PhotoAgrees(x)'
    BY <1>3, <1>4, <1>8, <2>1, PhotoWritten
  <2>3. QED
    BY <1>3, <1>6, <1>8, <2>1, <2>2, TablesAreKept, IdentifiersAssumption
<1>12. QED
  BY <1>7, <1>9, <1>10, <1>11 DEF MInv

-----------------------------------------------------------------------------
(* The session: time passes under a photo mutation, nothing else does.     *)
LEMMA SessionStepKeeps ==
  ASSUME MInv, SessionStep
  PROVE  MInv'
<1>0. /\ DOMAIN session = Sessions /\ DOMAIN events = Sessions /\ DOMAIN projection = Sessions
      /\ Repair \in Sessions
  BY RepairAssumption DEF MInv, IInv
<1>1. UNCHANGED <<memoryVars, file, job>>
  BY DEF SessionStep
<1> DEFINE Quiet ==
      /\ IInv' /\ JobIsPrepared'
      /\ events[Repair] \subseteq events'[Repair]
      /\ \A e \in events'[Repair] \ events[Repair] : e.key \in Keys /\ KeyUnused(Repair, e.key)
<1> HIDE DEF Quiet
<1>2. ASSUME NEW v \in Vehicles, NEW d \in Devices, CreateRepairSession(Repair, v, d)
      PROVE  Quiet
  <2>1. IInv' /\ job' = None
    BY <1>0, <1>1, <1>2, CreateKeeps DEF MInv, JobIsPrepared, CreateRepairSession
  <2>2. events[Repair] = {}
    <3>1. Good(session[Repair], events[Repair], projection[Repair])
      BY <1>0 DEF MInv, IInv
    <3>2. QED
      BY <1>2, <3>1, NullAssumption DEF Good, CreateRepairSession
  <2>3. Repair \in Keys
    BY <1>0, SessionsAssumption
  <2>4. QED
    BY <1>0, <1>2, <2>1, <2>2, <2>3 DEF Quiet, CreateRepairSession, KeyUnused, JobIsPrepared
<1>3. ASSUME NEW d \in Devices, NEW takeover \in BOOLEAN, LockFree,
             AcquireEditLease(Repair, d, takeover)
      PROVE  Quiet
  <2>1. IInv' /\ job' = None
    BY <1>0, <1>1, <1>3, AcquireKeeps DEF MInv, LockFree
  <2>2. QED
    BY <1>3, <2>1 DEF Quiet, AcquireEditLease, JobIsPrepared
<1>4. ASSUME NEW type \in LIFECYCLE_EVENT_TYPES, NEW k \in Keys, NEW d \in Devices, LockFree,
             AppendStatusEvent(Repair, type, k, d)
      PROVE  Quiet
  <2>1. IInv' /\ job' = None
    BY <1>0, <1>1, <1>4, AppendStatusKeeps DEF MInv, LockFree
  <2>2. QED
    BY <1>0, <1>4, <2>1 DEF Quiet, AppendStatusEvent, AppendRow, JobIsPrepared
<1>5. ASSUME Tick PROVE Quiet
  <2>1. UNCHANGED <<session, events, projection, archivedVehicles>> /\ clock' \in Nat
    BY <1>5 DEF Tick, MInv, IInv
  <2>2. IInv'
    BY <2>1 DEF MInv, IInv
  <2>3. JobIsPrepared'
    BY <1>1, <2>1 DEF MInv, JobIsPrepared, KeyUnused, memoryVars
  <2>4. QED
    BY <2>1, <2>2, <2>3 DEF Quiet
<1>6. Quiet
  BY <1>2, <1>3, <1>4, <1>5 DEF SessionStep
<1>7. SaidInLog' /\ RowsAreSaid' /\ TablesAgree'
  BY <1>1, <1>6, SilentKeeps DEF Quiet
<1>8. MemoryTypeOK' /\ DeletedPhotoHasNoFile'
  BY <1>1 DEF MInv, MemoryTypeOK, DeletedPhotoHasNoFile, memoryVars
<1>9. QED
  BY <1>6, <1>7, <1>8 DEF Quiet, MInv

LEMMA MemoryInitHolds ==
  ASSUME MemoryInit
  PROVE  MInv
<1>1. IInv
  BY InitIInv DEF MemoryInit
<1>2. /\ \A x : RowsAbout(x) = {}
      /\ \A f \in Fasteners : fastener[f] = None
      /\ \A i \in Items : item[i] = None
      /\ \A p \in Photos : photo[p] = "none"
      /\ \A o \in Observations : observation[o] = None
      /\ location = {}
  BY RepairAssumption DEF MemoryInit, Init, RowsAbout
<1>3. MemoryTypeOK /\ SaidInLog /\ JobIsPrepared /\ DeletedPhotoHasNoFile
  BY DEF MemoryInit, MemoryTypeOK, SaidInLog, JobIsPrepared, DeletedPhotoHasNoFile
<1>4. RowsAreSaid
  BY <1>2 DEF RowsAreSaid
<1>5. TablesAgree
  BY <1>2 DEF TablesAgree, FastenerAgrees, ItemAgrees, PhotoAgrees
<1>6. QED
  BY <1>1, <1>3, <1>4, <1>5 DEF MInv

LEMMA MemoryStepHolds ==
  ASSUME MInv, [MemoryNext]_allVars
  PROVE  MInv'
<1>1. CASE UNCHANGED allVars
  <2>1. UNCHANGED <<vars, memoryVars, file, job>>
    BY <1>1 DEF allVars
  <2>2. QED
    BY <2>1, PhotoJobKeeps DEF MInv, MemoryTypeOK, JobIsPrepared, DeletedPhotoHasNoFile
<1>2. CASE SessionStep
  BY <1>2, SessionStepKeeps
<1>3. ASSUME NEW k \in Keys, NEW d \in Devices, NEW p \in Photos,
             BeginCreatePhoto(k, d, p) \/ BeginDeletePhoto(k, d, p)
      PROVE  MInv'
  BY <1>3, BeginPhotoKeeps DEF BeginCreatePhoto, BeginDeletePhoto, LivePhoto
<1>4. CASE StorePhoto \/ UnlinkPhoto \/ CommitPhotoJob \/ CompensateCreatePhoto \/ Abort
  BY <1>4, FileWorkKeeps, CommitPhotoKeeps, PhotoFails
<1>5. ASSUME NEW k \in Keys, NEW d \in Devices, NEW l \in Locations, CreateStorageLocation(k, d, l)
      PROVE  MInv'
  BY <1>5, LocationKeeps
<1>6. ASSUME NEW k \in Keys, NEW d \in Devices, NEW f \in Fasteners, NEW place \in Placements,
             CreateFastener(k, d, f, place) \/ UpdateFastenerState(k, d, f, place)
      PROVE  MInv'
  BY <1>6, FastenerKeeps
<1>7. ASSUME NEW k \in Keys, NEW d \in Devices, NEW i \in Items,
             \/ \E stock \in Stocks : CreateInventoryItem(k, d, i, stock)
             \/ \E state \in ProcurementStates, q \in Quantities \cup {None} :
                  UpdateInventoryState(k, d, i, state, q)
      PROVE  MInv'
  BY <1>7, CreateItemKeeps, UpdateItemKeeps
<1>8. ASSUME NEW k \in Keys, NEW d \in Devices, NEW o \in Observations,
             NEW f \in Fasteners \cup {None}, CreateObservation(k, d, o, f)
      PROVE  MInv'
  BY <1>8, ObservationKeeps
<1>9. QED
  BY <1>1, <1>2, <1>3, <1>4, <1>5, <1>6, <1>7, <1>8 DEF MemoryNext

LEMMA MemoryInvariant == MemorySpec => []MInv
<1>1. MemoryInit => MInv
  BY MemoryInitHolds
<1>2. MInv /\ [MemoryNext]_allVars => MInv'
  BY MemoryStepHolds
<1>3. QED
  BY <1>1, <1>2, PTL DEF MemorySpec
-----------------------------------------------------------------------------
(* The theorems.  An answer is put together by reading only, so what holds *)
(* of the memory alone holds with the answers.                             *)

LEMMA AnswersReadOnly == ReorientationSpec => MemorySpec
<1>1. ReorientationInit => MemoryInit
  BY DEF ReorientationInit
<1>2. [ReorientationNext]_reorientationVars => [MemoryNext]_allVars
  BY DEF ReorientationNext, reorientationVars
<1>3. QED
  BY <1>1, <1>2, PTL DEF ReorientationSpec, MemorySpec

(* The rows, the files and the photo mutation under way have their types,  *)
(* and a row refers to rows that exist.                                    *)
THEOREM MemoryTyped == ReorientationSpec => [](TypeOK /\ MemoryTypeOK)
<1>1. MInv => TypeOK /\ MemoryTypeOK
  BY IInvTyped DEF MInv
<1>2. QED
  BY <1>1, AnswersReadOnly, MemoryInvariant, PTL

(* The tables show what the history says, of every fastener, item and      *)
(* photo, whatever fails between the file of a photo and its commit.       *)
THEOREM TablesAlwaysAgree == ReorientationSpec => []TablesAgree
<1>1. MInv => TablesAgree
  BY DEF MInv
<1>2. QED
  BY <1>1, AnswersReadOnly, MemoryInvariant, PTL

(* A photo whose deletion was committed has left the disk. *)
THEOREM DeletedPhotosAreGone == ReorientationSpec => []DeletedPhotoHasNoFile
<1>1. MInv => DeletedPhotoHasNoFile
  BY DEF MInv
<1>2. QED
  BY <1>1, AnswersReadOnly, MemoryInvariant, PTL

-----------------------------------------------------------------------------
(* The steps that write a row of the log: the session's own, a mutation by *)
(* the editor, and the commit of a photo mutation that was prepared.       *)
LEMMA WhoRecords ==
  ASSUME MInv, [MemoryNext]_allVars, events' # events
  PROVE  \/ SessionStep
         \/ \E k \in Keys, d \in Devices :
              /\ session[Repair] # NoSession /\ projection[Repair] # Missing
              /\ projection[Repair].status # "archived" /\ projection[Repair].device = d
              /\ KeyUnused(Repair, k) /\ AppendDomainEvent(Repair, k, d)
<1> DEFINE Writes(k, d) ==
             /\ session[Repair] # NoSession /\ projection[Repair] # Missing
             /\ projection[Repair].status # "archived" /\ projection[Repair].device = d
             /\ KeyUnused(Repair, k) /\ AppendDomainEvent(Repair, k, d)
<1>1. ASSUME NEW k, NEW d, NEW r, NEW x, Mutation(k, d, r, x)
      PROVE  Writes(k, d)
  BY <1>1 DEF Mutation, Record, PrepareDomainMutation, HasEditLease, LeaseView
<1>2. ASSUME CommitPhotoJob
      PROVE  job.key \in Keys /\ job.device \in Devices /\ Writes(job.key, job.device)
  <2>1. job # None /\ job.stage = "commit" /\ AppendDomainEvent(Repair, job.key, job.device)
    BY <1>2 DEF CommitPhotoJob, At, Record
  <2>2. job \in PhotoJobs
    BY <2>1 DEF MInv, MemoryTypeOK
  <2>3. QED
    BY <2>1, <2>2 DEF MInv, JobIsPrepared, PhotoJobs
<1>3. ASSUME NEW k \in Keys, NEW d \in Devices,
             \/ \E l \in Locations : CreateStorageLocation(k, d, l)
             \/ \E f \in Fasteners, place \in Placements :
                  CreateFastener(k, d, f, place) \/ UpdateFastenerState(k, d, f, place)
             \/ \E i \in Items, stock \in Stocks : CreateInventoryItem(k, d, i, stock)
             \/ \E i \in Items, state \in ProcurementStates, q \in Quantities \cup {None} :
                  UpdateInventoryState(k, d, i, state, q)
             \/ \E o \in Observations, f \in Fasteners \cup {None} : CreateObservation(k, d, o, f)
      PROVE  Writes(k, d)
  <2>1. \E r, x : Mutation(k, d, r, x)
    BY <1>3 DEF CreateStorageLocation, CreateFastener, UpdateFastenerState,
       CreateInventoryItem, UpdateInventoryState, CreateObservation
  <2>2. QED
    BY <1>1, <2>1
<1>4. \/ UNCHANGED events \/ SessionStep \/ CommitPhotoJob
      \/ \E k \in Keys, d \in Devices : Writes(k, d)
  <2> HIDE DEF Writes
  <2>1. CASE UNCHANGED allVars
    BY <2>1 DEF allVars, vars
  <2>2. CASE StorePhoto \/ UnlinkPhoto \/ CompensateCreatePhoto \/ Abort
    BY <2>2 DEF StorePhoto, UnlinkPhoto, CompensateCreatePhoto, Abort, vars
  <2>3. CASE \E k \in Keys, d \in Devices, p \in Photos :
               BeginCreatePhoto(k, d, p) \/ BeginDeletePhoto(k, d, p)
    BY <2>3 DEF BeginCreatePhoto, BeginDeletePhoto, BeginPhotoJob, vars
  <2>4. QED
    BY <1>3, <2>1, <2>2, <2>3 DEF MemoryNext
<1>5. QED
  BY <1>2, <1>4

(* A row is written by the device that is the editor then, also at the end *)
(* of a photo mutation whose lease expired during the file work.           *)
THEOREM MutationsAreNotOvertaken == ReorientationSpec => JobIsNotOvertaken
<1> DEFINE A == \A e \in events'[Repair] \ events[Repair] :
                  session[Repair] # NoSession => projection[Repair].device = e.device
<1>1. ASSUME MInv, [MemoryNext]_allVars PROVE [A]_allVars
  <2> SUFFICES ASSUME NEW e \in events'[Repair] \ events[Repair], session[Repair] # NoSession
               PROVE  projection[Repair].device = e.device
    OBVIOUS
  <2>1. ASSUME NEW k, NEW d, NEW type, AppendRow(Repair, projection[Repair], type, k, d),
               projection[Repair].device = d
        PROVE  projection[Repair].device = e.device
    BY <1>1, <2>1, RepairAssumption DEF AppendRow, MInv, IInv
  <2>2. ASSUME NEW type, NEW k, NEW d, AppendStatusEvent(Repair, type, k, d)
        PROVE  projection[Repair].device = e.device
    BY <2>1, <2>2 DEF AppendStatusEvent, HasEditLease, LeaseView
  <2>3. CASE SessionStep
    BY <2>2, <2>3 DEF SessionStep, CreateRepairSession, AcquireEditLease, Tick
  <2>4. QED
    BY <1>1, <2>1, <2>3, WhoRecords DEF AppendDomainEvent
<1>2. QED
  BY <1>1, AnswersReadOnly, MemoryInvariant, PTL DEF MemorySpec, JobIsNotOvertaken

(* The log grows as the abstract history allows, photo mutations included. *)
THEOREM MemoryHistory == ReorientationSpec => ImplementsHistory
<1>1. MemoryInit => History!Init
  BY DEF MemoryInit, Init, History!Init
<1>2. ASSUME MInv, [MemoryNext]_allVars PROVE [History!Next]_events
  <2> SUFFICES ASSUME events' # events PROVE History!Next
    OBVIOUS
  <2>1. CASE SessionStep
    <3>1. Next
      BY <2>1, RepairAssumption DEF SessionStep, Next, LIFECYCLE_EVENT_TYPES
    <3>2. QED
      BY <1>2, <3>1, StepRefines DEF MInv
  <2>2. QED
    BY <1>2, <2>1, WhoRecords, DomainExtends, RepairAssumption DEF MInv
<1>3. QED
  BY <1>1, <1>2, AnswersReadOnly, MemoryInvariant, PTL
     DEF MemorySpec, ImplementsHistory, History!Spec
-----------------------------------------------------------------------------
(* The answers.  What a mutation leaves of what was read before it: the    *)
(* rows of the log, what they say, and the locations.                      *)
Remains ==
  /\ events[Repair] \subseteq events'[Repair]
  /\ \A e \in events[Repair] : payload'[e.key] = payload[e.key]
  /\ location \subseteq location'

LEMMA MutationRemains ==
  ASSUME MInv, [MemoryNext]_allVars
  PROVE  Remains
<1>0. events \in [Sessions -> SUBSET Row(Keys, Devices)] /\ payload \in [Keys -> Payloads \cup {None}]
  BY DEF MInv, IInv, MemoryTypeOK
<1>1. ASSUME NEW k, NEW d, NEW r, NEW x, KeyUnused(Repair, k), Record(k, d, r, x),
             location \subseteq location'
      PROVE  Remains
  <2>1. \A e \in events[Repair] : e.key # k /\ e.key \in Keys
    BY <1>0, <1>1, RepairAssumption DEF KeyUnused, Row
  <2>2. events[Repair] \subseteq events'[Repair]
    BY <1>0, <1>1, RepairAssumption DEF Record, AppendDomainEvent, AppendRow
  <2>3. \A e \in events[Repair] : payload'[e.key] = payload[e.key]
    BY <1>0, <1>1, <2>1 DEF Record
  <2>4. QED
    BY <1>1, <2>2, <2>3 DEF Remains
<1>2. ASSUME NEW k, NEW d, NEW r, NEW x, Mutation(k, d, r, x), location \subseteq location'
      PROVE  Remains
  BY <1>1, <1>2 DEF Mutation, PrepareDomainMutation
<1>3. ASSUME UNCHANGED <<payload, location>>, events[Repair] \subseteq events'[Repair]
      PROVE  Remains
  BY <1>3 DEF Remains
<1>4. CASE SessionStep
  <2>1. UNCHANGED <<payload, location>>
    BY <1>4 DEF SessionStep, memoryVars
  <2>2. ASSUME NEW v, NEW d, CreateRepairSession(Repair, v, d)
        PROVE  events[Repair] = {}
    BY <2>2, RepairAssumption, NullAssumption DEF CreateRepairSession, MInv, IInv, Good
  <2>3. ASSUME NEW type, NEW k, NEW d, AppendStatusEvent(Repair, type, k, d)
        PROVE  events[Repair] \subseteq events'[Repair]
    BY <1>0, <2>3, RepairAssumption DEF AppendStatusEvent, AppendRow
  <2>4. events[Repair] \subseteq events'[Repair]
    BY <1>4, <2>2, <2>3 DEF SessionStep, AcquireEditLease, Tick
  <2>5. QED
    BY <1>3, <2>1, <2>4
<1>5. CASE UNCHANGED events /\ UNCHANGED <<payload, location>>
  BY <1>3, <1>5
<1>6. CASE CommitPhotoJob
  <2>1. KeyUnused(Repair, job.key)
    BY <1>6 DEF CommitPhotoJob, At, MInv, JobIsPrepared
  <2>2. UNCHANGED location
    BY <1>6 DEF CommitPhotoJob
  <2>3. PICK r, x : Record(job.key, job.device, r, x)
    BY <1>6 DEF CommitPhotoJob
  <2>4. QED
    BY <1>1, <2>1, <2>2, <2>3
<1>7. ASSUME NEW k \in Keys, NEW d \in Devices,
             \/ \E l \in Locations : CreateStorageLocation(k, d, l)
             \/ \E f \in Fasteners, place \in Placements :
                  CreateFastener(k, d, f, place) \/ UpdateFastenerState(k, d, f, place)
             \/ \E i \in Items, stock \in Stocks : CreateInventoryItem(k, d, i, stock)
             \/ \E i \in Items, state \in ProcurementStates, q \in Quantities \cup {None} :
                  UpdateInventoryState(k, d, i, state, q)
             \/ \E o \in Observations, f \in Fasteners \cup {None} : CreateObservation(k, d, o, f)
      PROVE  Remains
  <2>1. location \subseteq location' /\ \E r, x : Mutation(k, d, r, x)
    BY <1>7 DEF CreateStorageLocation, CreateFastener, UpdateFastenerState,
       CreateInventoryItem, UpdateInventoryState, CreateObservation
  <2>2. QED
    BY <1>2, <2>1
<1>8. CASE UNCHANGED allVars
  BY <1>5, <1>8 DEF allVars, vars, memoryVars
<1>9. CASE StorePhoto \/ UnlinkPhoto \/ CompensateCreatePhoto \/ Abort
  BY <1>5, <1>9 DEF StorePhoto, UnlinkPhoto, CompensateCreatePhoto, Abort, vars, memoryVars
<1>10. CASE \E k \in Keys, d \in Devices, p \in Photos :
              BeginCreatePhoto(k, d, p) \/ BeginDeletePhoto(k, d, p)
  BY <1>5, <1>10 DEF BeginCreatePhoto, BeginDeletePhoto, BeginPhotoJob, vars, memoryVars
<1>11. QED
  BY <1>4, <1>6, <1>7, <1>8, <1>9, <1>10 DEF MemoryNext

-----------------------------------------------------------------------------
(* What an answer has read up to now, and what the log says of it.         *)
HasRead(n) == answer # None /\ answer.read >= n

AnswerTyped ==
  answer # None =>
    /\ answer = [read |-> answer.read, last |-> answer.last, rows |-> answer.rows]
    /\ answer.rows = [t \in Tables |-> answer.rows[t]]
    /\ answer.read \in 0..7
    /\ answer.last \in events[Repair]

FastenersRead ==
  HasRead(1) =>
    /\ DOMAIN Rows("fasteners") \subseteq Fasteners
    /\ \A f \in DOMAIN Rows("fasteners") :
         /\ Rows("fasteners")[f] \in Placements
         /\ Place(f) \in location \cup {None}
         /\ \E e \in RowsAbout(f) : Request(e).place = Rows("fasteners")[f]

InventoryRead ==
  HasRead(2) =>
    /\ DOMAIN Rows("inventory") \subseteq Items
    /\ \A i \in DOMAIN Rows("inventory") :
         Rows("inventory")[i] \in Stocks /\ RowsAbout(i) # {}

ObservationsRead == HasRead(3) => \A o \in Rows("observations") : RowsAbout(o) # {}

PhotosRead == HasRead(4) => \A p \in Rows("photos") : RowsAbout(p) # {}

LocationsRead ==
  HasRead(5) =>
    /\ Rows("locations") \subseteq location
    /\ \A f \in DOMAIN Rows("fasteners") : Place(f) \in Rows("locations") \cup {None}

RecentRead ==
  HasRead(6) =>
    /\ Rows("recent") \subseteq events[Repair]
    /\ answer.last.seq <= Newest.seq
    /\ \A x \in Shown : Told(x) # {}
    /\ \A f \in DOMAIN Rows("fasteners") :
         \E e \in Told(f) : Request(e).place = Rows("fasteners")[f]

CheckpointRead ==
  HasRead(7) =>
    \A e \in Rows("recent") : e.type \in DOMAIN_EVENT_TYPES => e.seq <= Rows("checkpoint").seq

AnswerInv ==
  /\ AnswerTyped
  /\ FastenersRead /\ InventoryRead /\ ObservationsRead /\ PhotosRead /\ LocationsRead
  /\ RecentRead /\ CheckpointRead

(* A mutation does not make wrong what an answer read before it. *)
LEMMA AnswerRemains ==
  ASSUME AnswerInv, Remains, UNCHANGED answer
  PROVE  AnswerInv'
<1>1. /\ \A x : RowsAbout(x) \subseteq RowsAbout(x)'
      /\ \A x : \A e \in RowsAbout(x) : Request(e)' = Request(e)
  BY DEF Remains, RowsAbout, Request
<1>2. /\ \A t : Rows(t)' = Rows(t)
      /\ \A n : HasRead(n)' <=> HasRead(n)
      /\ \A f : Place(f)' = Place(f)
      /\ Newest' = Newest /\ Shown' = Shown
  BY DEF Rows, HasRead, Place, Newest, Shown
<1>3. \A x : Told(x) \subseteq Told(x)' /\ \A e \in Told(x) : Request(e)' = Request(e)
  BY <1>1, <1>2 DEF Told
<1>4. AnswerTyped'
  BY DEF AnswerInv, AnswerTyped, Remains
<1>5. FastenersRead'
  BY <1>1, <1>2 DEF AnswerInv, FastenersRead, Remains
<1>6. InventoryRead' /\ ObservationsRead' /\ PhotosRead'
  BY <1>1, <1>2 DEF AnswerInv, InventoryRead, ObservationsRead, PhotosRead
<1>7. LocationsRead'
  BY <1>2 DEF AnswerInv, LocationsRead, Remains
<1>8. RecentRead'
  <2> SUFFICES ASSUME HasRead(6) PROVE
        /\ Rows("recent") \subseteq events'[Repair]
        /\ answer.last.seq <= Newest.seq
        /\ \A x \in Shown : Told(x)' # {}
        /\ \A f \in DOMAIN Rows("fasteners") :
             \E e \in Told(f)' : Request(e)' = Request(e) /\ Request(e).place = Rows("fasteners")[f]
    BY <1>2 DEF RecentRead
  <2>1. QED
    BY <1>3 DEF AnswerInv, RecentRead, Remains
<1>9. CheckpointRead'
  BY <1>2 DEF AnswerInv, CheckpointRead
<1>10. QED
  BY <1>4, <1>5, <1>6, <1>7, <1>8, <1>9 DEF AnswerInv

(* The n-th SELECT adds the table it reads to what was read before. *)
Reads(n, table) ==
  /\ answer # None /\ answer.read = n - 1
  /\ UNCHANGED allVars
  /\ Rows(table)' = Selected(table, answer.last)
  /\ \A t \in Tables : t # table => Rows(t)' = Rows(t)
  /\ answer' # None => answer'.read = n /\ answer'.last = answer.last

LEMMA ReadTableReads ==
  ASSUME AnswerInv, ReadTable, UNCHANGED allVars
  PROVE  /\ AnswerTyped'
         /\ \E n \in 1..7 : Reads(n, Selects[n])
<1>1. answer # None /\ answer.read \in 0..7 /\ answer.read < 7
  BY DEF ReadTable, AnswerInv, AnswerTyped, Selects
<1>2. PICK n \in 1..7, table \in Tables : n = answer.read + 1 /\ table = Selects[n]
  BY <1>1 DEF Selects, Tables
<1>3. PICK rows : rows = [answer.rows EXCEPT ![table] = Selected(table, answer.last)]
  OBVIOUS
<1>4. answer' = [read |-> n, last |-> answer.last, rows |-> rows]
  BY <1>1, <1>2, <1>3 DEF ReadTable, AnswerInv, AnswerTyped
<1>5. /\ rows = [t \in Tables |-> rows[t]]
      /\ rows[table] = Selected(table, answer.last)
      /\ \A t \in Tables : t # table => rows[t] = answer.rows[t]
  BY <1>1, <1>2, <1>3 DEF AnswerInv, AnswerTyped
<1>6. answer'.read = n /\ answer'.last = answer.last /\ answer'.rows = rows
  BY <1>4
<1>7. AnswerTyped'
  BY <1>1, <1>2, <1>4, <1>5, <1>6 DEF AnswerInv, AnswerTyped, allVars, vars
<1>8. Rows(table)' = Selected(table, answer.last) /\ \A t \in Tables : t # table => Rows(t)' = Rows(t)
  BY <1>5, <1>6 DEF Rows
<1>9. Reads(n, table)
  BY <1>1, <1>2, <1>6, <1>8 DEF Reads
<1>10. QED
  BY <1>2, <1>7, <1>9

(* What a table says is in the log when it is read. *)
LEMMA TablesAreSaid ==
  ASSUME MInv
  PROVE  /\ \A f \in Fasteners : fastener[f] # None =>
              /\ fastener[f] \in Placements
              /\ fastener[f].location \in location \cup {None}
              /\ \E e \in RowsAbout(f) : Request(e).place = fastener[f]
         /\ \A i \in Items : item[i] # None => item[i] \in Stocks /\ RowsAbout(i) # {}
         /\ \A o \in Observations : observation[o] # None => RowsAbout(o) # {}
         /\ \A p \in Photos : photo[p] = "live" => RowsAbout(p) # {}
         /\ \A l \in location : RowsAbout(l) # {}
<1>1. ASSUME NEW f \in Fasteners, fastener[f] # None
      PROVE  /\ fastener[f] \in Placements
             /\ fastener[f].location \in location \cup {None}
             /\ \E e \in RowsAbout(f) : Request(e).place = fastener[f]
  <2>1. RowsAbout(f) # {} /\ fastener[f] = Request(Latest(RowsAbout(f))).place
    BY <1>1 DEF MInv, TablesAgree, FastenerAgrees
  <2>2. Latest(RowsAbout(f)) \in RowsAbout(f)
    BY <2>1, LatestAbout DEF RowsAbout
  <2>3. QED
    BY <1>1, <2>1, <2>2 DEF MInv, MemoryTypeOK
<1>2. \A i \in Items : item[i] # None => item[i] \in Stocks /\ RowsAbout(i) # {}
  BY DEF MInv, MemoryTypeOK, RowsAreSaid, Counted
<1>3. \A p \in Photos : photo[p] = "live" => RowsAbout(p) # {}
  BY DEF MInv, TablesAgree, PhotoAgrees, Says
<1>4. QED
  BY <1>1, <1>2, <1>3 DEF MInv, RowsAreSaid

(* One SELECT at a time. *)
LEMMA SelectKeeps ==
  ASSUME MInv, AnswerInv, NEW n \in 1..7, Reads(n, Selects[n]), AnswerTyped'
  PROVE  AnswerInv'
<1>0. UNCHANGED <<vars, memoryVars>>
  BY DEF Reads, allVars
<1>1. /\ UNCHANGED <<events, payload, location>>
      /\ \A x : RowsAbout(x)' = RowsAbout(x)
      /\ \A e : Request(e)' = Request(e)
  BY <1>0 DEF vars, memoryVars, RowsAbout, Request
<1>2. \A m \in 1..7 : HasRead(m)' => m <= n /\ (m < n => HasRead(m))
  BY DEF Reads, HasRead
<1>3. FastenersRead'
  <2>1. CASE n = 1
    <3>1. Rows("fasteners")' = [f \in {f \in Fasteners : fastener[f] # None} |-> fastener[f]]
      BY <2>1 DEF Reads, Selects, Selected
    <3>2. QED
      BY <1>1, <3>1, TablesAreSaid DEF FastenersRead, Place
  <2>2. CASE n # 1
    <3>1. Rows("fasteners")' = Rows("fasteners")
      BY <2>2 DEF Reads, Selects, Tables
    <3>2. QED
      BY <1>1, <1>2, <2>2, <3>1 DEF AnswerInv, FastenersRead, Place
  <2>3. QED
    BY <2>1, <2>2
<1>4. InventoryRead'
  <2>1. CASE n = 2
    <3>1. Rows("inventory")' = [i \in {i \in Items : item[i] # None} |-> item[i]]
      BY <2>1 DEF Reads, Selects, Selected
    <3>2. QED
      BY <1>1, <3>1, TablesAreSaid DEF InventoryRead
  <2>2. CASE n # 2
    <3>1. Rows("inventory")' = Rows("inventory")
      BY <2>2 DEF Reads, Selects, Tables
    <3>2. QED
      BY <1>1, <1>2, <2>2, <3>1 DEF AnswerInv, InventoryRead
  <2>3. QED
    BY <2>1, <2>2
<1>5. ObservationsRead'
  <2>1. CASE n = 3
    <3>1. Rows("observations")' = {o \in Observations : observation[o] # None}
      BY <2>1 DEF Reads, Selects, Selected
    <3>2. QED
      BY <1>1, <3>1, TablesAreSaid DEF ObservationsRead
  <2>2. CASE n # 3
    <3>1. Rows("observations")' = Rows("observations")
      BY <2>2 DEF Reads, Selects, Tables
    <3>2. QED
      BY <1>1, <1>2, <2>2, <3>1 DEF AnswerInv, ObservationsRead
  <2>3. QED
    BY <2>1, <2>2
<1>6. PhotosRead'
  <2>1. CASE n = 4
    <3>1. Rows("photos")' = {p \in Photos : photo[p] = "live"}
      BY <2>1 DEF Reads, Selects, Selected
    <3>2. QED
      BY <1>1, <3>1, TablesAreSaid DEF PhotosRead
  <2>2. CASE n # 4
    <3>1. Rows("photos")' = Rows("photos")
      BY <2>2 DEF Reads, Selects, Tables
    <3>2. QED
      BY <1>1, <1>2, <2>2, <3>1 DEF AnswerInv, PhotosRead
  <2>3. QED
    BY <2>1, <2>2
<1>7. LocationsRead'
  <2>1. CASE n = 5
    <3>1. Rows("locations")' = location /\ Rows("fasteners")' = Rows("fasteners") /\ HasRead(1)
      BY <2>1 DEF Reads, Selects, Tables, Selected, HasRead
    <3>2. QED
      BY <1>1, <3>1 DEF AnswerInv, FastenersRead, LocationsRead, Place
  <2>2. CASE n < 5
    BY <1>2, <2>2 DEF LocationsRead
  <2>3. CASE n > 5
    <3>1. Rows("locations")' = Rows("locations") /\ Rows("fasteners")' = Rows("fasteners")
      BY <2>3 DEF Reads, Selects, Tables
    <3>2. QED
      BY <1>1, <1>2, <2>3, <3>1 DEF AnswerInv, LocationsRead, Place
  <2>4. QED
    BY <2>1, <2>2, <2>3
<1>8. RecentRead'
  <2>1. CASE n < 6
    BY <1>2, <2>1 DEF RecentRead
  <2>2. CASE n = 6
    <3>1. /\ Rows("fasteners")' = Rows("fasteners") /\ Rows("inventory")' = Rows("inventory")
          /\ Rows("observations")' = Rows("observations") /\ Rows("photos")' = Rows("photos")
          /\ Rows("locations")' = Rows("locations")
          /\ Rows("recent")' = {e \in events[Repair] :
                                   e.seq > Latest(events[Repair]).seq - RecentEvents}
          /\ \A m \in 1..5 : HasRead(m)
          /\ answer.last \in events[Repair]
      BY <2>2 DEF Reads, Selects, Tables, Selected, HasRead, AnswerInv, AnswerTyped
    <3>2. PICK recent : recent = Rows("recent")'
      OBVIOUS
    <3>3. HasHead(events[Repair]) /\ \A e \in events[Repair] : e.seq \in Nat
      BY <3>1, RepairAssumption, SomeRowIsLast DEF MInv, IInv, Row
    <3>4. PICK last \in events[Repair] :
            /\ last = Latest(events[Repair])
            /\ \A e \in events[Repair] : e.seq <= last.seq
      BY <3>3, LatestIsLast
    <3>5. recent \in SUBSET events[Repair] /\ last \in recent
      BY <3>1, <3>2, <3>3, <3>4, RecentAssumption
    <3>6. HasHead(recent)
      BY <3>5, RepairAssumption, SomeRowIsLast DEF MInv
    <3>7. PICK newest \in recent : newest = Newest' /\ last.seq <= newest.seq
      BY <3>2, <3>5, <3>6, LatestIsLast DEF Newest
    <3>8. \A e \in events[Repair] : e.seq <= newest.seq
      BY <3>3, <3>4, <3>5, <3>7
    <3>9. \A x : Told(x)' = RowsAbout(x)
      BY <1>1, <3>7, <3>8 DEF Told, RowsAbout
    <3>10. Shown' = Shown /\ \A x \in Shown : RowsAbout(x) # {}
      BY <3>1, TablesAreSaid DEF Shown, AnswerInv, FastenersRead, InventoryRead, ObservationsRead,
         PhotosRead, LocationsRead
    <3>11. \A f \in DOMAIN Rows("fasteners") :
             \E e \in Told(f)' : Request(e)' = Request(e) /\ Request(e).place = Rows("fasteners")[f]
      BY <1>1, <3>1, <3>9 DEF AnswerInv, FastenersRead
    <3>12. answer' # None => answer'.last = answer.last
      BY DEF Reads
    <3>13. QED
      BY <1>1, <3>1, <3>2, <3>5, <3>7, <3>8, <3>9, <3>10, <3>11, <3>12 DEF RecentRead, HasRead
  <2>3. CASE n = 7
    <3>1. /\ \A t \in Tables \ {"checkpoint"} : Rows(t)' = Rows(t)
          /\ HasRead(6)
          /\ answer' # None => answer'.last = answer.last
      BY <2>3 DEF Reads, Selects, HasRead
    <3>2. /\ Rows("fasteners")' = Rows("fasteners") /\ Rows("recent")' = Rows("recent")
          /\ Shown' = Shown /\ Newest' = Newest
      BY <3>1 DEF Tables, Shown, Newest
    <3>3. \A x : Told(x)' = Told(x)
      BY <1>1, <3>2 DEF Told
    <3>4. QED
      BY <1>1, <3>1, <3>2, <3>3 DEF AnswerInv, RecentRead, HasRead
  <2>4. QED
    BY <2>1, <2>2, <2>3
<1>9. CheckpointRead'
  <2>1. CASE n = 7
    <3>1. /\ Rows("recent")' = Rows("recent") /\ HasRead(6)
          /\ Rows("checkpoint")' =
               IF DomainEvents = {} THEN answer.last ELSE Latest(DomainEvents)
      BY <2>1 DEF Reads, Selects, Tables, Selected, HasRead
    <3>2. ASSUME NEW e \in Rows("recent"), e.type \in DOMAIN_EVENT_TYPES
          PROVE  e.seq <= Rows("checkpoint")'.seq
      <4>1. e \in DomainEvents /\ DomainEvents \in SUBSET events[Repair]
        BY <3>1, <3>2 DEF AnswerInv, RecentRead, DomainEvents
      <4>2. HasHead(DomainEvents)
        BY <4>1, RepairAssumption, SomeRowIsLast DEF MInv
      <4>3. QED
        BY <3>1, <4>1, <4>2, LatestIsLast
    <3>3. QED
      BY <3>1, <3>2 DEF CheckpointRead
  <2>2. CASE n < 7
    BY <1>2, <2>2 DEF CheckpointRead
  <2>3. QED
    BY <2>1, <2>2
<1>10. QED
  BY <1>3, <1>4, <1>5, <1>6, <1>7, <1>8, <1>9 DEF AnswerInv

LEMMA AnswerStepHolds ==
  ASSUME MInv, AnswerInv, [ReorientationNext]_reorientationVars
  PROVE  AnswerInv'
<1>1. ASSUME [MemoryNext]_allVars, UNCHANGED answer PROVE AnswerInv'
  BY <1>1, MutationRemains, AnswerRemains
<1>2. CASE BeginResume /\ UNCHANGED allVars
  <2>1. answer'.read = 0 /\ answer'.last = Latest(events[Repair])
    BY <1>2 DEF BeginResume
  <2>2. Latest(events[Repair]) \in events[Repair]
    BY <1>2, RepairAssumption, ExistingIsGood, LatestIsLast DEF BeginResume, MInv
  <2>3. AnswerTyped'
    <3>1. PICK rows : rows = [t \in Tables |-> None]
      OBVIOUS
    <3>2. answer' = [read |-> 0, last |-> Latest(events[Repair]), rows |-> rows]
      BY <1>2, <3>1 DEF BeginResume
    <3>3. UNCHANGED events
      BY <1>2 DEF allVars, vars
    <3>4. QED
      BY <2>2, <3>1, <3>2, <3>3 DEF AnswerTyped
  <2>4. \A n \in 1..7 : ~HasRead(n)'
    BY <2>1 DEF HasRead
  <2>5. QED
    BY <2>3, <2>4 DEF AnswerInv, FastenersRead, InventoryRead, ObservationsRead, PhotosRead,
       LocationsRead, RecentRead, CheckpointRead
<1>3. CASE ReadTable /\ UNCHANGED allVars
  BY <1>3, ReadTableReads, SelectKeeps
<1>4. CASE SendAnswer /\ UNCHANGED allVars
  BY <1>4 DEF SendAnswer, AnswerInv, AnswerTyped, HasRead, FastenersRead, InventoryRead,
     ObservationsRead, PhotosRead, LocationsRead, RecentRead, CheckpointRead
<1>5. QED
  BY <1>1, <1>2, <1>3, <1>4 DEF ReorientationNext, reorientationVars

(* Locations are read after the fasteners, so no group is dropped. *)
LEMMA NothingFallsOut ==
  ASSUME AnswerInv, Complete
  PROVE  EveryPartIsAccountedFor
<1>1. HasRead(1) /\ HasRead(2) /\ HasRead(5)
  BY DEF Complete, HasRead, Selects
<1>2. \A f \in DOMAIN Rows("fasteners") :
        /\ f \in Fasteners
        /\ Rows("fasteners")[f].state \in
             {"installed", "removed", "stored", "missing", "damaged", "replaced"}
        /\ Rows("fasteners")[f].state = "stored" => Place(f) # None
        /\ Place(f) \in Rows("locations") \cup {None}
  BY <1>1, StatesAssumption DEF AnswerInv, FastenersRead, LocationsRead, Placements, Place
<1>3. DOMAIN Rows("inventory") \cap Fasteners = {}
  BY <1>1, IdentifiersAssumption DEF AnswerInv, InventoryRead
<1>4. HardwareStored = Located
  <2>1. \A f \in HardwareStored :
          Place(f) \in Rows("locations") /\ f \in StoredIn(Place(f))
    BY <1>2 DEF HardwareStored, Hardware, StoredIn
  <2>2. HardwareStored \subseteq Located
    BY <2>1 DEF Located, StorageGroups
  <2>3. Located \subseteq HardwareStored
    BY DEF Located, StorageGroups, StoredIn, HardwareStored
  <2>4. QED
    BY <2>2, <2>3
<1>5. Attention \cap Fasteners = Hardware({"missing", "damaged"})
  BY <1>2, <1>3 DEF Attention, Hardware, Parts
<1>6. ProcurementBlockers = Attention \ Fasteners
  BY <1>2, <1>3 DEF Attention, Hardware, Parts, ProcurementBlockers
<1>7. NotInstalled = HardwareStored \cup HardwareLoose \cup Hardware({"missing", "damaged"})
                     \cup RemovedElsewhere
  BY <1>2 DEF NotInstalled, HardwareStored, HardwareLoose, RemovedElsewhere, Hardware
<1>8. QED
  BY <1>4, <1>5, <1>6, <1>7 DEF EveryPartIsAccountedFor

(* The events are read after the rows, and a row is not written without    *)
(* its event, so the list is not behind.                                   *)
LEMMA ListIsNotBehind ==
  ASSUME AnswerInv, Complete
  PROVE  ActivityCoversRows
<1>1. HasRead(1) /\ HasRead(2) /\ HasRead(6) /\ HasRead(7)
  BY DEF Complete, HasRead, Selects
<1>2. ASSUME NEW e \in Rows("recent"), NEW x, x = payload[e.key].resource,
             LabelState(e) # None, x \in Fasteners
      PROVE  \E g \in Told(x) : Request(g).place.state = LabelState(e)
  <2>1. x \notin DOMAIN Rows("inventory")
    BY <1>1, <1>2, IdentifiersAssumption DEF AnswerInv, InventoryRead
  <2>2. x \in DOMAIN Rows("fasteners") /\ LabelState(e) = Rows("fasteners")[x].state
    BY <1>2, <2>1 DEF LabelState
  <2>3. QED
    BY <1>1, <2>2 DEF AnswerInv, RecentRead
<1>3. QED
  BY <1>1, <1>2 DEF AnswerInv, RecentRead, CheckpointRead, ActivityCoversRows

(* The answer is whole, however many mutations commit between its SELECTs. *)
THEOREM AnswersAreWhole == ReorientationSpec => []ReorientationIsWhole
<1>1. ReorientationInit => AnswerInv
  BY DEF ReorientationInit, AnswerInv, AnswerTyped, HasRead, FastenersRead, InventoryRead,
     ObservationsRead, PhotosRead, LocationsRead, RecentRead, CheckpointRead
<1>2. AnswerInv => ReorientationIsWhole
  BY NothingFallsOut, ListIsNotBehind
     DEF ReorientationIsWhole, EveryPartIsAccountedFor, ActivityCoversRows
<1>3. QED
  BY <1>1, <1>2, AnswerStepHolds, AnswersReadOnly, MemoryInvariant, PTL DEF ReorientationSpec
===============================================================================
