----------------------------- MODULE UserVehicle -----------------------------
(***************************************************************************)
(* Decoding a VIN and saving a vehicle by its VIN, as concurrent requests  *)
(* of one owner for one market: the cache of what the provider said, the   *)
(* match against the configurations of the catalog, which others change,   *)
(* and the row of the vehicle.                                             *)
(*                                                                         *)
(* A resolution follows from the matches: none, one or more.  The VIN's    *)
(* check digit, its encryption and the fallback of a deployment without    *)
(* keys, which writes nothing, are left out; vehicles entered by hand and  *)
(* their archiving meet none of this (SessionRequests has the archive).    *)
(***************************************************************************)
EXTENDS Integers, FiniteSets

CONSTANTS
  Requests,        \* requests that may overlap
  Vins,            \* the VINs asked for
  Identities,      \* what the provider may say of a VIN
  Configurations,  \* configurations of the catalog
  CacheHours,      \* settings.vin_cache_hours
  MaxClock,        \* bound of the clock
  MaxChanges,      \* bound of the changes of the catalog
  None             \* NULL, nobody

ASSUME BoundsAssumption ==
  /\ CacheHours \in Nat \ {0}
  /\ MaxClock \in Nat /\ MaxChanges \in Nat

CacheRows == [identity: Identities, matches: SUBSET Configurations, observed: Nat]

ASSUME NobodyAssumption == None \notin Requests /\ None \notin CacheRows

VARIABLES
  clock,
  fits,      \* the configurations _details_compatible with an identity
  changes,   \* how often the catalog was changed
  cache,     \* vin_decode_cache: one row per VIN
  vehicles,  \* user_vehicles: the rows with a VIN
  lock,      \* who has written the cache row of a VIN and not committed
  req        \* the requests under way

vars == <<clock, fits, changes, cache, vehicles, lock, req>>

Idle == [pc |-> "idle", op |-> "decode", vin |-> None, now |-> 0, row |-> None,
         identity |-> None, matches |-> {}, observed |-> 0, todo |-> {}, been |-> {}]

At(r, pc) == req[r].pc = pc
Cached(v) == cache[v] # None

VehicleTypeOK ==
  /\ clock \in 0..MaxClock
  /\ fits \in [Identities -> SUBSET Configurations]
  /\ cache \in [Vins -> [identity: Identities, matches: SUBSET Configurations,
                         observed: 0..clock] \cup {None}]
  /\ \A x \in vehicles : x.vin \in Vins /\ x.identity \in Identities
                          /\ x.configuration \in Configurations \cup {None}
  /\ \A v \in Vins : lock[v] # None => At(lock[v], "write") /\ req[lock[v]].vin = v
  /\ \A r \in Requests : req[r].todo \subseteq {"cache", "vehicle"}

Init ==
  /\ clock = 0
  /\ fits \in [Identities -> SUBSET Configurations]
  /\ changes = 0
  /\ cache = [v \in Vins |-> None]
  /\ vehicles = {}
  /\ lock = [v \in Vins |-> None]
  /\ req = [r \in Requests |-> Idle]

-----------------------------------------------------------------------------
(* The transaction ends: the locks are released, and the request is over. *)
Leave(r) ==
  /\ req' = [req EXCEPT ![r] = Idle]
  /\ lock' = [v \in Vins |-> IF lock[v] = r THEN None ELSE lock[v]]

(* USER_VEHICLE_VIN_EXISTS, an error of the provider, a lost connection.   *)
Raise(r) == Leave(r) /\ UNCHANGED <<clock, fits, changes, cache, vehicles>>

Saved(v) == \E x \in vehicles : x.vin = v

(* decode_user_vin, create_vin_user_vehicle *)
Begin(r, op, v) ==
  /\ At(r, "idle")
  /\ req' = [req EXCEPT ![r] = [Idle EXCEPT !.op = op, !.vin = v, !.been = {fits},
               !.pc = IF op = "save" THEN "existing" ELSE "cache"]]
  /\ UNCHANGED <<clock, fits, changes, cache, vehicles, lock>>

(* The unlocked look for the VIN, before anything else. *)
FindExisting(r) ==
  /\ At(r, "existing")
  /\ IF Saved(req[r].vin) THEN Leave(r)
     ELSE req' = [req EXCEPT ![r].pc = "cache"] /\ UNCHANGED lock
  /\ UNCHANGED <<clock, fits, changes, cache, vehicles>>

Expires(row) == row.observed + CacheHours

(* VinDecodeCache.expires_at > now *)
Usable(v, now) == Cached(v) /\ Expires(cache[v]) > now

ReadCache(r) ==
  LET v == req[r].vin IN
  /\ At(r, "cache")
  /\ req' = [req EXCEPT ![r].now = clock,
       ![r].pc  = IF Usable(v, clock) THEN "match" ELSE "provider",
       ![r].row = IF Usable(v, clock) THEN cache[v] ELSE None,
       ![r].identity = IF Usable(v, clock) THEN cache[v].identity ELSE None]
  /\ UNCHANGED <<clock, fits, changes, cache, vehicles, lock>>

(* decode_vin_values_extended: outside the database, slow, and not always  *)
(* the same.                                                               *)
AskProvider(r, i) ==
  /\ At(r, "provider")
  /\ req' = [req EXCEPT ![r].identity = i, ![r].pc = "match"]
  /\ UNCHANGED <<clock, fits, changes, cache, vehicles, lock>>

(* _resolve_identity_snapshot *)
MatchesNow(r) == fits[req[r].identity]

(* The cached row is written only when its matches have changed, and then  *)
(* only them; an answer of the provider is written in full.                *)
Resolve(r) ==
  LET old == req[r].row IN
  /\ At(r, "match")
  /\ req' = [req EXCEPT ![r].matches = MatchesNow(r), ![r].pc = "write",
       ![r].observed = IF old = None THEN clock ELSE old.observed,
       ![r].todo = (IF old = None \/ old.matches # MatchesNow(r) THEN {"cache"} ELSE {})
                     \cup (IF req[r].op = "save" THEN {"vehicle"} ELSE {})]
  /\ UNCHANGED <<clock, fits, changes, cache, vehicles, lock>>

(* Mutant: the changed row is flushed at the end of the transaction. *)
FlushLast(r) ==
  IF "vehicle" \in req[r].todo /\ req[r].row # None THEN "vehicle"
  ELSE IF "cache" \in req[r].todo THEN "cache" ELSE "vehicle"

(* _cache_observation comes before the insertion of the vehicle, and the   *)
(* session flushes a changed row before it executes that insertion.        *)
Due(r) == IF "cache" \in req[r].todo THEN "cache" ELSE "vehicle"

(* INSERT ... ON CONFLICT DO UPDATE and UPDATE wait for the row. *)
WriteCache(r) ==
  LET v == req[r].vin IN
  /\ At(r, "write") /\ "cache" \in req[r].todo /\ Due(r) = "cache"
  /\ lock[v] = None
  /\ lock' = [lock EXCEPT ![v] = r]
  /\ req' = [req EXCEPT ![r].todo = @ \ {"cache"}]
  /\ UNCHANGED <<clock, fits, changes, cache, vehicles>>

Inserted(r) == At(r, "write") /\ req[r].op = "save" /\ "vehicle" \notin req[r].todo

(* Mutant: only what is committed is seen. *)
NoRival(r) == {q \in Requests \ {r} : FALSE}

(* The requests with an uncommitted row for the same VIN. *)
Rivals(r) == {q \in Requests \ {r} : Inserted(q) /\ req[q].vin = req[r].vin}

(* INSERT ... ON CONFLICT DO NOTHING waits for an uncommitted row. *)
InsertVehicle(r) ==
  /\ At(r, "write") /\ "vehicle" \in req[r].todo /\ Due(r) = "vehicle"
  /\ Rivals(r) = {}
  /\ ~Saved(req[r].vin)
  /\ req' = [req EXCEPT ![r].todo = @ \ {"vehicle"}]
  /\ UNCHANGED <<clock, fits, changes, cache, vehicles, lock>>

VinExists(r) ==
  /\ At(r, "write") /\ "vehicle" \in req[r].todo /\ Due(r) = "vehicle"
  /\ Saved(req[r].vin)
  /\ Raise(r)

Configuration(matches) ==
  IF Cardinality(matches) = 1 THEN CHOOSE c \in matches : TRUE ELSE None

Written(r) ==
  IF req[r].row = None
  THEN [identity |-> req[r].identity, matches |-> req[r].matches, observed |-> req[r].observed]
  ELSE [cache[req[r].vin] EXCEPT !.matches = req[r].matches]

(* The commit, and with it the answer. *)
Commit(r) ==
  LET v == req[r].vin IN
  /\ At(r, "write") /\ req[r].todo = {}
  /\ cache' = IF lock[v] = r THEN [cache EXCEPT ![v] = Written(r)] ELSE cache
  /\ vehicles' = IF Inserted(r)
       THEN vehicles \cup {[vin |-> v, identity |-> req[r].identity, by |-> r,
                            configuration |-> Configuration(req[r].matches)]}
       ELSE vehicles
  /\ Leave(r)
  /\ UNCHANGED <<clock, fits, changes>>

Abort(r) == ~At(r, "idle") /\ Raise(r)

(* External: a configuration is created or enriched (VehicleIdentity), so  *)
(* that it begins or ceases to fit.                                        *)
CatalogChange(i, c) ==
  /\ changes < MaxChanges
  /\ changes' = changes + 1
  /\ fits' = [fits EXCEPT ![i] = IF c \in @ THEN @ \ {c} ELSE @ \cup {c}]
  /\ req' = [r \in Requests |-> IF At(r, "idle") THEN req[r]
                                ELSE [req[r] EXCEPT !.been = @ \cup {fits'}]]
  /\ UNCHANGED <<clock, cache, vehicles, lock>>

Tick ==
  /\ clock < MaxClock
  /\ clock' = clock + 1
  /\ UNCHANGED <<fits, changes, cache, vehicles, lock, req>>

Progress(r) ==
  \/ FindExisting(r) \/ ReadCache(r)
  \/ \E i \in Identities : AskProvider(r, i)
  \/ Resolve(r)
  \/ VinExists(r) \/ Commit(r)

Waiting(r) == WriteCache(r) \/ InsertVehicle(r)

Next ==
  \/ Tick
  \/ \E i \in Identities, c \in Configurations : CatalogChange(i, c)
  \/ \E r \in Requests :
       \/ \E op \in {"decode", "save"}, v \in Vins : Begin(r, op, v)
       \/ Progress(r) \/ Waiting(r)
       \/ Abort(r)

Spec == Init /\ [][Next]_vars

-----------------------------------------------------------------------------
(* Properties *)

(* One vehicle per VIN and owner, though two requests may pass the look    *)
(* for an existing one at the same time.                                   *)
OneVehiclePerVin == \A x, y \in vehicles : x.vin = y.vin => x = y

(* What is answered and saved holds together: the matches are those the    *)
(* catalog had for that identity at a moment during the request, also when *)
(* the cached row mixes the identity of one request with the matches of    *)
(* another.                                                                *)
MatchesBelongToIdentity ==
  \A r \in Requests : At(r, "write") =>
    \E f \in req[r].been : req[r].matches = f[req[r].identity]

(* A VIN is saved once, with matches that go with its identity.            *)
SavedVinIsRight == OneVehiclePerVin /\ MatchesBelongToIdentity

(* Among any requests one waits for none of the others, so that no circle  *)
(* forms and none is aborted for a deadlock: all of them lock the cache    *)
(* row before the vehicle's.                                               *)
WaitsFor(r, q) ==
  /\ At(r, "write") /\ req[r].todo # {}
  /\ IF Due(r) = "cache" THEN lock[req[r].vin] = q ELSE q \in Rivals(r)

NobodyWaitsInACircle ==
  \A W \in (SUBSET Requests) \ {{}} : \E r \in W : \A q \in W \ {r} : ~WaitsFor(r, q)
===============================================================================
