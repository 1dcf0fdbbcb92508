# PartGraph in TLA+

This directory is the formal model of the PartGraph repair service (`src/api`, with the web
client in `src/web`): TLA+ modules translated from the source, TLC configurations that check
them on small instances, and TLAPS proofs that hold for instances of any size.  Every
definition that models code is listed in `PROJECT.json` under `map` with the lines it stands
for.  All paths below are relative to the repository; `S` stands for
`api/partgraph/repair_experience`.

## 1. The system

PartGraph guides the owner of a vehicle through a repair.  A FastAPI service keeps everything
in PostgreSQL; photos are files beside it.  A request is one database transaction at READ
COMMITTED (`identity/auth/dependencies.py:15-29`), begun by a dependency, committed before the
response is sent, rolled back when the handler raises.  There is no background work: what is
concurrent is several requests - of one owner, from several devices or tabs, on what the owner
has; of everybody on accounts, the VIN cache and the catalog.

| Component | State | Operations | Model |
|---|---|---|---|
| Repair session core (`S/service.py`) | `repair_sessions`, the append-only `repair_session_events`, the `repair_session_projections` row (status, sequence, edit lease) | create, list, resume, events, acquire / take over the lease, pause / resume / archive; `prepare_domain_mutation` and `append_domain_event` for the parts below; rebuild of a lost or stale projection | `RepairSession`, `SessionRequests`, `SessionHistory`, `ReplayAlgorithm` |
| Request transactions (`identity/auth/dependencies.py`, `database.py`) | row locks, the identity map of a transaction, the pool of connections | commit, rollback, answer | `SessionRequests`, `AuthSessions` |
| Repair memory (`S/memory`) | locations, fasteners, inventory, observations, photo rows; files in the media root | create / update each, store and delete photos | `RepairMemory` |
| Definition binding, readiness, guidance (`S/repair_definition_binding.py`, `readiness.py`, `guidance.py`) | `repair_definition_id` of a session, readiness rows of a session, the owner's garage, progress rows of a session | bind, report readiness, complete / skip / block the current action | `GuidedRepair` |
| Verified knowledge (`knowledge/`) | definitions, requirements, procedures, claims, policies; written outside the API | read by the above: the manifest and the procedure of a definition, verified or bound | `RequirementManifest`, `VerifiedKnowledge`; the order of actions in `GuidedRepair` |
| Vehicles of a user (`identity/user_vehicle`) | saved vehicles, the VIN cache all users share | decode and save a VIN, enter a vehicle by hand, archive | `UserVehicle`; archive in `RepairSession` and `SessionRequests` |
| Vehicle taxonomy (`identity/vehicle`) | vehicle configurations with an identity hash | resolve (match, enrich or create), list options, reconcile reviewed observations | `VehicleIdentity`, `Reconciliation` |
| Authentication (`identity/auth`) | users, sessions, attempt counters, the pool of connections | sign up, in, out, check a token | `AuthSessions` |
| Catalog staging (`knowledge/staging.py`) | batches, source records, verified evidence | stage, close a batch, promote, reject | `CatalogStaging` |
| Reorientation (`S/reorientation.py`) | none | seven SELECTs and what they add up to, in the answer of resume | `Reorientation` |
| Assistance (`assistance/service.py`) | none | explain the guidance view | `Explanation` of `GuidedRepair` |
| Coverage, intelligence | none | reads | no |
| Web client (`web/src`) | what each page shows, a busy flag per page, the active repair of the tab, the device id, forms, the signed-in user | load, choose, write, navigate, with timeouts and retries | `RepairWorkspaces`, `GarageForm`, `AccountGate` |
| Migrations, extraction pipeline, CI | | run by hand | the constraints of migration 0007 |

How they interact.  Every mutation of memory, readiness and guidance has the same frame: lock
the session row and its projection (`_bundle(for_update=True)`, service.py:149-185), look the
idempotency key up, require the edit lease, do its own writes, append one event numbered
`current_sequence + 1` and renew the lease.  So the parts share three things: the row lock of
the session, the event log with its keys, and the lease.  Readiness writes one more shared
table, the owner's garage, which several *sessions* write while each holds a different session
row.  A projection is only a cache of the log; requests that find it missing or behind rebuild
it.

What is hard here, and what the properties are for:

* two requests of a session overlap, and both read a row before they wait for its lock;
* SQLAlchemy does not refresh a row it has loaded, so a decision may rest on a copy from before
  the lock;
* a lease expires or is taken over between its check and the commit;
* answers are lost and requests are sent again with the same key, later, overlapping, or by a
  device that no longer has the lease;
* a projection is lost or behind, and mutations and rebuilds run on it nevertheless;
* the photo file is outside the transaction, and a process may die between the two;
* two sessions of an owner write the same garage row, and guidance reads it without a lock;
* a definition is superseded while sessions are bound to it;
* the attempt counter is written on a second connection while the request holds its first, and
  the pool is finite;
* two requests insert the row each of them found missing;
* an identity grows by details from many calls, under a hash that must stay unique;
* a cached answer outlives what it was computed from;
* an answer is put together from several SELECTs, between which others commit;
* in the browser, answers overtake each other, the owner's clicks, and the page or the account
  they were for.

`PROJECT.json` lists each of these as a hazard, at its line, with the properties that cover it
or a note why none does.

For each component, what makes it correct: the **session core** - the log can always be folded,
grows only at its end and has one row per key; the projection is never ahead of the log and
tells its status when it is not behind; nobody writes who was not the
holder of a live lease when the service checked it, nothing follows
the archive event, and a lease is not lost but by archiving.  **Transactions** - an answered
mutation is committed, a snapshot shows what was answered before it was asked
for.  **Repair memory** - the tables say what the log says, references are to rows that
exist, a deleted photo is off the disk.  **Guidance** - there is always a next action, nothing
is skipped that may not be, nothing is completed without what it requires.  **Garage** - no
report is lost.  **Authentication** - an answered sign-out is final, no failure or overlap lets
more attempts through than the limit, requests that use the pool up still end.  **VIN vehicles** -
one live vehicle per owner and VIN, matches that belong to the identity they are answered with,
no deadlock on the shared cache.  **Vehicle identity** - merged identities never collide, nothing
a caller was told is lost.  **Reconciliation** - what is promoted is what most sources say now.
**Staging** - a review is decided once, and evidence goes with it.
**Verified knowledge** - quantities add up to what the uses say, in any order, and a bound
session keeps the version it was bound to.  **Reorientation** - nothing falls out of the answer,
and no part of it is behind another.  **Web client** - one write at a time and no page that stays
disabled, an active repair that exists, forms that save what they show, and settings of the user
who is signed in.

## 2. Modules

```
SessionLog ── SessionHistory                     (operators of a log; what a history promises)
   │  └────── SessionLogProofs                   (lemmas about the operators)
   ├── RepairSession                             (one request = one step)
   │       ├── ReplayAlgorithm ── RepairSessionProofs    (the loop of _reduce_status)
   │       ├── RepairMemory                      (+ tables, photos, files, crashes)
   │       │      └── Reorientation ── RepairMemoryProofs  (+ an answer read table by table)
   │       ├── GuidedRepair ── GuidedRepairProofs  (+ binding, readiness, garage, guidance)
   │       └── RepairWorkspaces                  (+ the repair pages of a browser)
   └── SessionRequests ── SessionRequestsProofs  (one statement = one step)

RepairWorkspaces   GarageForm   AccountGate ─────────────────────────────── WebClientProofs
VehicleIdentity   UserVehicle   AuthSessions ────────────────────────────── IdentityProofs
CatalogStaging   Reconciliation   RequirementManifest ── VerifiedKnowledge ── CatalogStagingProofs
```

The proofs of `RepairMemory`, `GuidedRepair` and `RepairWorkspaces` build on `RepairSessionProofs`:
the invariant of the session core is part of theirs.

* **SessionLog** - a log is a set of rows; `sequence` is a column, so a gap or a duplicate is
  representable.  `Replayable` and `Status` say declaratively what the fold of
  `service.py:214-276` accepts and returns.  The ten domain event types are one, as the fold
  treats them alike.
* **SessionHistory** - the abstract specification: `Start` puts the first row, `Extend` adds a
  row that may follow under a key that is new.  No leases, projections or transactions.
* **RepairSession** - the service with one action per endpoint.  An action is the whole
  transaction, the trailing lease renewal and rebuild included.  `LoseProjection` and
  `StaleProjection` do to the projection row what `tests/test_repair_session.py:358-410` does.
  `AppendRow` takes the number from the *projection* and relies, as the code does, on the
  unique constraint of migration 0007 when the projection is behind.
* **SessionRequests** - the same service, statement by statement, for requests in flight on one
  session: unlocked SELECTs, waiting for the row lock, writes seen after the commit, rollback
  at any point, the answer after the commit, lost answers.  `loaded` is the copy in the
  identity map; `ChangedColumns` is the UPDATE SQLAlchemy emits, which writes only the columns
  that differ from that copy.
* **Reorientation** - the answer of `build_reorientation`, one SELECT a step, between the
  mutations of `RepairMemory`; groups, flags and labels are operators on what was read, and what
  the code counts is the set it counts.
* **RepairWorkspaces** - the resume, log, guidance, readiness and start pages against the service
  of `RepairSession`.  Each `async` function is a slot with the requests it has left; a request
  is served and its answer received in different steps, so functions overlap, fail, and outlive
  their page (`Unmounted`).  `ServeRequest` is the service's action for the request;
  `GiveUp` is the timeout, `ServeLate` a write that arrives after it, `Elsewhere` another device.
  `SessionsChanged` is the listener of `partgraph:repair-sessions-changed` (ResumeRepair.tsx:106-110):
  a status that was changed and a repair that was created, wherever the owner is by then, make a
  mounted resume page list again, and select and load what it then prefers.
* **ReplayAlgorithm** - the loop of `_reduce_status` with every `raise`, as a recursive function of
  what it has read, compared with `Replayable` and `Status` on every log `RepairSession` reaches and
  on each of its `Damaged` copies: any rows deleted, and any one of the others with another type.
* **RepairMemory** - the eight mutations of the repair memory on top of `RepairSession`.  The
  two photo mutations take several steps: lock and guards, file, rows and commit; the process
  may die between any two (`Abort`), and `CompensateCreatePhoto` is the `except` branch.
* **GuidedRepair** - binding, readiness and guidance on top of `RepairSession`, for several
  sessions.  A mutation begins (lock, guards, reads) and commits in different steps, because
  other sessions write the garage in between; `LockGarage`, `InsertGarage` and `GarageTaken`
  are the SELECT FOR UPDATE, the INSERT and its unique violation.

The others share no table with the session core and stand alone:

* **AuthSessions** - registration, sign-in, sign-out and the check of a token, in requests that
  take their connections from a pool.  `ConsumeRateLimit` commits on a connection of its own;
  `loaded` is the session row in the identity map, and `UpdatedRow` writes what changed of it.
* **VehicleIdentity** - `resolve_configuration`: the advisory lock on the base identity, the
  exact match, the scored candidates, `Merge` of optional details and the new hash.
* **UserVehicle** - decoding a VIN through the shared cache and saving it, with the catalog
  changing meanwhile.  A cached row that is changed through the session is written when the
  session flushes, which `Due` and `WriteCache` place where the code does.
* **RequirementManifest** - `build_requirement_manifest` on a list of uses that grows, and
  **VerifiedKnowledge** - its callers and `_procedure_for_definition`, SELECT by SELECT, while
  definitions are published, superseded and replaced by transactions outside the API.
* **GarageForm** and **AccountGate** - the forms that add a vehicle and the sign-in gate: what is
  typed or clicked, the requests under way, effects that are cleaned up, and late answers.  The gate is
  that of one tab: the cookie belongs to the whole browser, and what another tab does to it, which this
  one is not told of, is not modelled (a session that ends at any time is).
* **Reconciliation** - `reconcile_field_observations` as an operator on a sequence of
  observations that grows as records are verified.
* **CatalogStaging** - the four operations of `staging.py`, statement by statement.

The `MC` modules add the symmetry sets and the structured constants that TLC needs.
`MCRepairSession` takes in `ReplayAlgorithm`.  Three of them put components side by side that share
no state, so that a behaviour has the steps of one, and a state of one is met in every behaviour it
would be met in alone: `MCVehicles` (`VehicleIdentity`, `UserVehicle`: a request for a VIN sees of
the catalog only which configurations fit, which `CatalogChange` changes at will), `MCCatalog`
(`CatalogStaging`, `Reconciliation`, `RequirementManifest`, `VerifiedKnowledge`) and `MCWebClient`
(`RepairWorkspaces`, `GarageForm`, `AccountGate`: different components of the page, with a state of
their own each).  The last split leaves one thing out that the components do share: the active repair
in `sessionStorage` survives a sign-out (active-repair.ts), and the repair pages of the next account
start from it.  `RepairWorkspaces` has one account, so that is not modelled.

An operator whose comment begins with "Mutant" is not part of the model: it is a plausible bug in the
operator after it, and the property it is listed with in `PROJECT.json` fails when it takes the
operator's place.

Every module with state has a type invariant (`TypeOK`, `MemoryTypeOK`, `GuidedTypeOK`, `AuthTypeOK`
...), and all of them are theorems; `TypeOK` of `RepairSession` is checked by its run as well.  In
`Reorientation`, `VerifiedKnowledge`, `Reconciliation` and `RequirementManifest` the types are part of
the inductive invariants.

## 3. Runs

All runs pass but `archived_vehicle` and `lease_banner`.

| Run | Configuration | What it shows |
|---|---|---|
| `repair_session` | 1 session, 2 devices, 4 keys, clock to 3, lease of 1; 36 000 states | The log, projection, list and lease of a session agree; `RepairSession` implements `SessionHistory`; the replay loop accepts exactly the replayable ones of these logs and their damaged copies |
| `session_requests` | 2 requests in flight, 2 devices, 3 keys, clock to 1, all operations, within `MCScenario`; 1 690 000 states | Log, committed projection, answers, snapshots, and the implementation of `SessionHistory`, statement by statement; who writes, and how a live lease may change hands |
| `archived_vehicle` | 2 requests, expected violation | A session can start for an archived vehicle |
| `repair_memory` | 4 keys, 2 devices, clock to 1, 1 of each resource; 280 000 states | Tables and log agree; a deleted photo is off the disk; nobody gets between a photo's lock and its event; a reorientation is whole |
| `guided_progress` | 1 session, 4 keys, 3 actions, all 64 dependency graphs without self-loops, 2 definition versions, clock to 1; 110 000 states | Guidance is always defined and explained, order of work, rows agree with the log and the binding |
| `guided_garage` | 2 sessions, 3 keys, quantities 1 to 3, 2 definition versions | The shared garage |
| `auth_sessions` | 3 requests, sign-in, use and sign-out, 1 token, limit of 1, pool of 2, clock to 2 (renewal, expiry, a second window); 1 300 000 states | The counter counts whatever fails; a sign-out is final |
| `auth_progress` | 3 registrations, 2 people who want one username, pool of 3, `FairAuthSpec` | One account per name; every request ends, also when the pool is used up |
| `vehicles` | 2 overlapping calls, 12 identities, up to 3 rows; 2 requests on one VIN, clock past the expiry, a catalog that changes; 260 000 states | Hashes stay unique, answers stay covered; one vehicle, answers that hold together, no deadlock |
| `catalog` | 3 sessions, 1 batch, 2 records; 4 sources (1 manufacturer), 2 values, 4 observations; 3 uses of 2 keys; 2 versions, 1 reader; 190 000 states | Reviews are final and evidence is the review; promotion against its rule; quantities; bound versions stay readable |
| `web_client` | 2 repairs, 2 devices, 3 keys, 3 functions at a time, clock to 1, within `MCScenario`; 2 markets, models and VINs, 3 requests; 2 users, 4 requests; 1 540 000 states | One handler at a time, the active repair exists; the forms are current; the preferences are the user's |
| `lease_banner` | the same, expected violation | The log page denies a lease this device has |

Bounds, and why they are enough.  *One session* suffices where nothing is shared between
sessions: the statements of the service name the session they work on.  The garage is shared,
and has two.  *Two devices*: a lease has a holder and the others.  *Four keys* give logs of
four rows, as many as a pause, a resume and an archive need; *clock and lease* are such that a
lease can be live, expire, and be taken again.  *Two requests in flight* is what an interleaving
needs; the row lock serialises the rest, and a retry is a third use of the same request slot.
`MCScenario` bounds what they do: either one device and no time, with all changes of status, or
two devices and time, with one mutation beside the creation, an archive or a domain event (a pause
and a resume do with the lease what a domain event does).  Two mutations beside the creation that
overlap a takeover are not covered by this run; one after the other they are in `repair_session`.
`MCAnswers` bounds the log to `MaxRead` = 3 rows while a
reorientation is read, without an unfinished photo mutation, which shows nothing before it commits.
A log of *four rows*
with some of them missing or of another type shows the fold gaps at each place and each type in
each status.
*Three actions* give cycles, chains and diamonds without a node; *quantities 1 to 3* give two
reports that satisfy a requirement of which one is larger.  The only counters are the sequence
numbers, bounded by the keys, and the clock, bounded by `MaxClock`.  With the keys used up and
the clock at its bound a model may stop, so the deadlock check is off in `repair_session`,
`repair_memory`, `guided_progress` and `guided_garage`, and in `catalog`, whose observations are
bounded.  The others have it on: a client may always ask.

In the modules that stand alone: an *attempt limit* of one is reached and passed by two of three
requests, and again in the next window; `TokenLeft` keeps attempts from starting when no token
is left to draw, and the counter stops one above its limit, as attempts beyond it are alike.
*Pools* are as large as the requests are many in `auth_progress`, so that they all get their
first connection and none its second; in `auth_sessions` three requests share two.
*One VIN* is one cache row and one vehicle; `MaxChanges` bounds the
changes of the catalog, of which one between any two statements is enough to tell old matches
from new.  *Three configurations* with a
detail compared as a whole, of two words, and a structured one of up to two give candidates that tie,
that are compatible with a description but not with each other, and that grow towards each other;
`RowsUsedUp` ends a call that would need a fourth.  *Four observations by four sources* reach the
threshold of three, a tie, and a source that changes its mind; two values are a winner and its
rival.  *Three uses* of two keys: a third one meets the sum of two.  *One reader* is enough for
`VerifiedKnowledge`, as readers write nothing, and *two versions* are an old and a new one.
*Three staging sessions* are a
collector, somebody who closes, and a reviewer, or three reviewers of one record.

In the browser: *three functions at a time* (`Slots`) are a creation that goes on while the resume page
it was left for lists and loads, and the list its event starts there; everywhere else two are enough,
a handler and a load it overlaps, or two loads, and `MCScenario` allows a third only when all of them
are of the start and resume pages.  `MCScenario` also leaves out time and the other device once there
are two repairs, as what a lease does concerns one.  `Links` lets the owner go between the resume page
and each other one, and between start and readiness, and `LateWrites` lets a creation be served after
it was given up, the one write whose lateness another page could notice as a repair.  The handlers of
the resume and log pages that need an owned lease are never enabled here, because these pages are never
told that they own it (`lease_banner`); pausing, resuming and archiving by the owner are of that kind.
The lemmas about `Mutate` and what follows it do not use that, so the proofs cover these handlers too.
`MaxFlights` and `MaxAsks` bound the requests of the
garage form and of the gate: both lists and a VIN; a load, a change, a sign-out and a sign-in.  A
browser that has used its keys up may stop, so the deadlock check is off in `web_client`.

Fairness (`FairAuthSpec` of `AuthSessions`).  Weak fairness of the statements a request runs by
itself, as the event loop resumes a coroutine whose statement has returned, and of its end.
Strong fairness of the statements that wait for a row lock, a unique key or a connection:
PostgreSQL and the pool queue their waiters, so a waiter is not passed over for ever, but the
statement is not continuously enabled while others hold what it waits for.  Weak fairness of
`PoolTimeout`: a `QueuePool` raises when no connection comes back in time.  Nothing is assumed of
clients, the clock or failures.  The other modules state safety only.  
Locks.  In `UserVehicle` the order of the locks depends on when a changed row is flushed, and that
nobody waits in a circle is an invariant, `NobodyWaitsInACircle`.  Elsewhere the order is fixed, and
seen by reading:
* mutations, and snapshots that have to rebuild, lock the row of the session, then its projection
  (service.py:149-211, and for a binding repair_definition_binding.py:113-148), then at most further
  rows of that session;
* readiness locks a row of the owner's garage after the session row, or waits for another's INSERT of
  it (`LockGarage`, `InsertGarage`); who holds a garage row has nothing left to lock;
* `resolve_configuration` takes the advisory lock of a base identity, then the rows of that identity,
  which nobody locks without it;
* the staging operations lock one record or wait for one insert.

## 4. What the runs say

**Session core.**  The log of a session replays whatever happens, although mutations trust the
projection and not the log: with a projection that is behind, the only thing between the code
and a corrupt log is the unique constraint on (session, sequence).  `HistoryReplays` fails
without it.

**Leases.**  A mutation is let through only for the device of a lease that is live at the check, made
under the row lock, and until its commit nobody else changes that row, also when statements interleave
(`WriterIsTheEditor`): what lands in the log is of the device that is still recorded as the editor.
That the lease is live at the commit too is not so and not claimed; it may run out during the file
work of a photo, say, but the next editor has to wait for the lock.  A live lease changes its device by
takeover only.  One overlap does
clear a live lease: a snapshot loads the row while its lease is expired, waits for the lock,
and rebuilds the projection from that copy, after another device has acquired the lease
(`rebuild_projection`, service.py:312-335, on the row loaded at :521).
`LeaseDropsOnlyByArchiveOrStaleCopy` states this exception with its exact condition.  The
device that lost it is refused at its next write and has to acquire the lease again.

**Findings** (runs with `expect: violation`).  `archived_vehicle`: a session can start for a
vehicle archived between `_vehicle_for_session` and the insert (service.py:420-442), though
"Archived vehicles cannot start new repair sessions."
`lease_banner`: the log and the resume page ask for the snapshot without the device header, unlike
the guidance and readiness pages (RepairLog.tsx:69, ResumeRepair.tsx:94 against
RepairMemory.tsx:174, GuidedRepair.tsx:163).  The service then never answers "owned", so the log says
"This device does not currently hold the edit lease." (RepairLog.tsx:243) right after it was given
the lease.

**What the other modules make visible**, and no run states:
* `delete_photo` unlinks the file before the tombstone is committed (memory/service.py:907): an
  `Abort` after `UnlinkPhoto` leaves a live photo without content.  `docs/ROADMAP_LIVE.md` says that
  deletion goes "through a durable tombstone".
* `create_photo` stores the file before any row says so (memory/service.py:812): an `Abort` after
  `StorePhoto`, which the `except` branch does not see, leaves a file no row names.  The same
  document says that the intent is recorded "durably before the outside storage write".
* `stage_source_record` checks the status of a batch without a lock (staging.py:80-84): after
  `FindOpenBatch` and another session's `CommitClose`, `CommitStage` adds a record to a closed
  batch.  `tests/test_catalog_staging.py` tests the refusal for calls that do not overlap.
* Of a field in conflict, `Entry` of `Reconciliation` has the value with the most votes neither as
  selected value nor among the conflicts (reconciliation.py:109-121).

**Guidance.**  For every graph `_validate_dependency_graph` accepts there is a next action until
all are resolved.  Stronger than the code asks for, actions are worked off in the order of
their positions without a gap: the validation makes the earliest unresolved action eligible,
so a blocked action blocks the session even when others do not depend on it.

**Garage.**  The row lock keeps the largest report.  The inventory is checked before the commit
and without a lock on the garage, and still holds at the commit, *because* a garage row never
shrinks and never changes its unit.  `CompletedWithInventory` fails when `Remember` takes the
latest report instead.

**Sign-in.**  The counter is exact because it commits by itself, and before the limit is judged.
The price is a second connection: as many sign-ins as the pool has connections wait for each
other until the pool times out.  They do end (`EveryAuthRequestEnds`); without `PoolTimeout`
they would not.  A sign-out is final although neither it nor the check of a token locks the row
it reads: the UPDATE writes `last_seen_at` alone.

**VIN vehicles.**  Requests that share a VIN lock its cache row and then the vehicle's key, in
this order only because the session flushes the changed row before the INSERT it is asked for;
were it flushed at the commit, two requests could wait in a circle.  `NobodyWaitsInACircle` speaks of
circles of any length and over any VINs.  A cached row may hold the
identity of one request and the matches of another; no answer ever shows it, since the matches
are computed again each time.

**Vehicle identity.**  An enrichment changes the hash to one that was not looked up.  It is
never taken: a stored row with that hash would have been a candidate of no lower score.

**Staging.**  The row lock makes a review final.  Closing a batch has none.

**Verified knowledge.**  A version that is bound is read whole whatever is replaced meanwhile,
because its rows do not change and `superseded` counts for a bound reader in the definition as in
the claims.  A reader of the verified version has no such promise: superseded between the SELECT of
the definition and that of the evidence, it ends in an integrity error.

**Reorientation.**  The order of the SELECTs matters: locations are read after the fasteners stored
in them, and the log last.  A storage group whose location was not read would be dropped, and an
activity list read first would be behind the parts.

**Web client.** `busy` is cleared by a `finally` that awaits the reload, so it says exactly whether
a handler runs.  The active repair is set by functions that may finish on another page, and by a
resume page that hears of what they did, and still always names a repair the service has
(`ActiveRepairExists`).  Whose repair it is, is not stated: see section 6.  The gate's effect voids
the preferences of who was signed in before; a change of units (AuthGate.tsx:173) has no such guard,
and `LoadedUnitsAreTheUsers` states the rest, for a browser with one tab.  The market of a decoded
VIN may be changed by the manual form before it is saved; `DecodedVinIsSaved` speaks of the VIN
only.

## 5. Proofs

Every safety property a passing run checks is also proved, for every value of the constants: any
numbers of sessions, requests in flight, devices, keys, VINs, versions and observations, any clock
and any lease.  What a run shows on its instance is listed in section 3; here is what the proofs rest
on.

| Module | Of | Invariant | Properties |
|---|---|---|---|
| `RepairSessionProofs` | `Spec` of `RepairSession` | `IInv` | `TypeOK` (`TypeCorrect`), `HistoryReplays` (`HistoryAlwaysReplays`), `ProjectionBehindOrRight` (`ProjectionSafe`), `ListedSessionsAreOpen` (`ListIsRight`), `ArchivedSessionHasNoEditor` (`ArchiveEndsEditing`), `OnlyTheEditorWrites` (`EditorsWrite`), `LiveLeaseIsKept` (`LeaseKept`), `ImplementsHistory` (`HistoryRefinement`), `FoldIsReference` (`LoopIsReference`, `FoldAlwaysIsReference`) |
| `SessionRequestsProofs` | `Spec` of `SessionRequests` | `RInv` | `TypeOK` (`RequestsTyped`), `CommittedRowIsRight`, `AnswersAreKept`, `SnapshotIsConsistent`, `WriterIsTheEditor` (`OnlyTheEditorWrites`), `LeaseIsNotLost` (`LeasesAreNotLost`), `ImplementsHistory` (`RequestsImplementHistory`) |
| `RepairMemoryProofs` | `ReorientationSpec`, of which `RepairMemory` is a part | `MInv`, `AnswerInv` | `MemoryTypeOK`, `TablesAgree`, `DeletedPhotoHasNoFile`, `JobIsNotOvertaken` (`MutationsAreNotOvertaken`), `ReorientationIsWhole` (`AnswersAreWhole`), `ImplementsHistory` (`MemoryHistory`) |
| `GuidedRepairProofs` | `GuidedSpec` | `GInv` | `GuidedTypeOK`, `WorkedInOrder` (`OrderIsKept`), `RecordsAgree`, `GarageKeepsBest` (`GarageLosesNothing`), `GuidanceIsDefined`, `CompletedWithInventory` (`CompletionIsEquipped`), `ImplementsHistory` (`GuidedHistory`) |
| `IdentityProofs` | `IdentitySpec` | `IdentityInv` | `IdentityTypeOK`, `HashNeverTaken` (`HashStaysFree`), `AnswersStayCovered` (`AnswersCovered`) |
| | `Spec` of `UserVehicle` | `VehicleInv` | `VehicleTypeOK`, `SavedVinIsRight`, `NobodyWaitsInACircle` |
| | `AuthSpec` | `AuthInv` | `AuthTypeOK`, `AttemptsAreCounted`, `OneAccountPerIdentity` (`AccountsStayApart`), `SignOutIsFinal` |
| `CatalogStagingProofs` | `Spec` of `CatalogStaging` | `StagingInv` | `StagingTypeOK`, `PromotionStands` (`ReviewsStand`) |
| | `KnowledgeSpec` | `KnowledgeInv` | `BoundKnowledgeIsPinned` |
| | `ReconciliationSpec`, `ManifestSpec` | the type of the list | `PromotionIsByVotes`, `QuantitiesAreNotInvented` (`QuantitiesAreNeverInvented`) |
| `WebClientProofs` | `GarageFormSpec`, `AccountGateSpec` | `GarageInv`, `GateInv` | `GarageFormIsCurrent`, `LoadedUnitsAreTheUsers`, both type invariants |
| | `WebSpec` | `ClientInv`, beside `IInv` | `WebTypeOK`, `OneHandlerAtATime`, `ActiveRepairExists`; and that `WebSpec` implements `Spec` of `RepairSession` (`ClientUsesTheService`) |

`SessionLogProofs` has the lemmas about the operators of a log they share.

**The session core.**  None of the invariants is inductive alone: that a log stays replayable when a
mutation appends to it needs the projection's status to be the log's whenever the append goes
through, which needs its number not to be ahead, which the rebuild and the two mutations
preserve only for logs that are replayable.  `IInv` therefore says of each session that its
three rows are `Good` together: either none of them exists, or the log is replayable and begins
with its first row, the archive flag and the presence of an archive event agree with the status
of the log, and a projection that is there is a `GoodRow` of the log - not ahead of it, right
when level with it, and without a lease when it says "archived".  `OneSessionStep` reduces the
preservation of `IInv` to the rows of one session, and there is a lemma for each action
(`CreateKeeps`, `RebuildKeeps`, `AcquireKeeps`, `AppendStatusKeeps`, `AppendDomainKeeps`,
`LoseKeeps`, `StaleKeeps`).  When a projection is behind, the unique constraint makes the append
impossible (`AppendExtends`): its number is one that a log without gaps has.  The refinement maps
the log to itself; every append is an `Extend`, everything else a stutter.

**The loop.**  `Loop` is a recursive function on what the table may hold (`EventTables`: finite, one row
per number).  There is no induction over it: a closed form is shown to satisfy its equation
(`ClosedFormIsLoop`), so that the CHOOSE behind the recursion has something to choose, and two
functions that satisfy it cannot differ, as they would differ first at a smallest table.  What the
loop returns is then read off the closed form, for damaged logs as for whole ones.

**Statements in flight.**  `RInv` says of each request what it knows at the statement it has reached
(`Phase`), of what it has flushed that it extends the *committed* log and keeps a live lease
(`Pending`), of a snapshot that what it has read was true of a prefix that includes all that was
answered before it was asked for (`Shows`), and of a mutation near its end that its row is there
(`Done`).  A commit of one request leaves all this true of the others for one of two reasons: who has
flushed something holds the row lock, so that no other commit can come between; and the rest is
about a log that only grows at its end.  The same lock carries `WriterIsTheEditor` from the check of the
lease (`LetThroughByAppend`) to the commit (`LetThroughHolds`).

**Repair memory.**  `MInv` adds to `IInv` what each table row and each file owes to the log
(`RowsAreSaid`), and what a photo mutation that holds the lock may rely on (`JobIsPrepared`): its
device is the editor, its key unused, and its photo and file as far as its stage says.  `AnswerInv` says of a
reorientation under way, for each SELECT it has done, that what was read was said by the log as it
is now, which later mutations do not take back (`AnswerRemains`).

**Guided repair.**  `GInv` adds what a mutation checked before it waited and relies on when it
commits: a report of readiness is enough and its garage row is locked by it alone and as it was read
(`ReportsHoldTheGarage`, `OneLockPerRow`), a report of progress is still allowed
(`ProgressIsStillAllowed`).  The latter is what needs `GarageKeepsBest`: other sessions change the
garage in between, but only to more.  That guidance is defined is that of the unresolved actions the
first is the current one (`CurrentIsFirst`), which is what `_validate_dependency_graph` accepts.

**Vehicles and accounts.**  `IdentityInv` says of a caller past the lookup that the row he chose is as
he loaded it and a candidate, and that the hash he is about to write is free.  That it is free is
about the score: merging is again a candidate for the same input (`MergedIsCandidate`), matches no
field less and is no less specific (`MergedScoresNoLower`), and who scores no lower than the single
best candidate is that candidate (`BestHasNoEqual`).  `VehicleInv` orders what a request locks: who has
inserted a vehicle has written the cache row before (`HasInserted`, `HasWritten`).  In any set of
requests, one that has inserted waits for nobody; without such a one, who has written the cache row
waits for nobody; without either, nobody waits for another.  `AuthInv` says what a request has drawn
is nobody's and not another's (`Apart`), and of a sign-out about to commit that it has the token
locked or nothing left to do.

**Catalog.**  `StagingInv`: a reviewer past the lock holds it, and his guard is still true of the record
when he commits; a collector's uncommitted row is nobody else's.  `KnowledgeInv`: what was published
has evidence a bound reader accepts, whatever became of the versions that share it, and a bound
reader is on the way to a version that was published.  `Reconciliation` and `RequirementManifest`
compute on lists of any length: a finite set has a first element in a total order
(`FiniteHasFirst`), so values have ranks; the sum, a recursive function, is whatever adds its terms up
(`SumExists`, `SumIsUnique`, `SumOfIs`), so that one more use adds its quantity (`SumOfFront`) and
neighbours may change places (`SumOfSwapped`).

**Browser.**  `GarageInv`: a request whose effect was not cleaned up asks for what the form shows.
`GateInv`: preferences asked for by a live effect are those of the user who is signed in.
`ClientInv`: of each function, what requests it has left, whom it is about and that the service knows
that repair by the time the function may set it active; `busy` is the one live handler.

Assumptions on the constants are the ASSUMEs of the modules, which TLC evaluates in the runs.  They
say that a NULL is none of the values it stands beside (`NullAssumption`, `NilAssumption`,
`NobodyAssumption`, `NoRowAssumption`, `GuidedNullAssumption`, `MemoryNullAssumption`,
`NobodyCallsAssumption`, `ConflictAssumption`), that identifiers of different tables differ
(`IdentifiersAssumption`, `GuidedNullAssumption`; `SessionsAssumption` has creation keys among the
keys), that sizes are positive numbers (`LeaseAssumption`, `TimeAssumption`, `SizeAssumption`,
`BoundsAssumption`, `RecentAssumption`, `AmountsAssumption`), that what is configured is of its type
(`OpsAssumption`, `KeyAssumption`, `RepairAssumption`, `StatesAssumption`, `ActionsAssumption`,
`ManifestAssumption`, `ProceduresAssumption`, `BrowserAssumption`, `FieldsAssumption`: finitely many
fields), that the form has something to show (`FormAssumption`), that values have an order
(`ValuesAssumption`), and of a version that its uses do not conflict and every use and action has a
claim (`KnowledgeAssumption`: versions are curated outside the API, and a reader of one that is not
so gets an integrity error, repair_service.py:76-102).

What the proofs found.  Two guards of a CASE in `RepairWorkspaces` overlapped, so that the operator
was not determined there; they are disjoint now.  Nothing the runs had passed was false of larger
instances.

What is only model-checked: liveness, that is `EveryAuthRequestEnds` (neither ENABLED nor fairness is
in the prover's reach), and the two expected violations, which are not theorems.

## 6. What is left out

* *Texts, ids, timestamps, payloads* no property reads; `last_event_id`, `last_event_at` and
  `projection_version` are written and compared together with `current_sequence`, which stands
  for them.
* *Users*: every statement is restricted to the owner's id, so there is one owner.
* *Reads* that write nothing are no actions; the answer of a snapshot is in `SessionRequests`,
  because it is assembled from several statements.
* *Coverage* and the option lists of the taxonomy write nothing; the *intelligence* gateway makes no
  call in the repository's configuration.
* Vehicles entered by hand are one insert without a unique key; preferences of a user one
  statement.  Password hashes, VIN encryption and the check digit are data.
* The pool of connections is in `AuthSessions`, the only place where a request takes two.
* A script that calls the staging or the identity functions again and again on one session
  reads what that session remembers; in the models every call has a session of its own.
* *Migrations* are run once, by hand, in order; what the service relies on of them (unique
  constraints) is in the modules.  The *extraction pipeline*, *CI scripts* and
  `local-validation` are run by hand, one at a time, and call the service from outside.
* In the *web client*: rendering, forms other than those of `GarageForm`, the year wheel, the launch
  page and the assistance panel; other tabs, which share the cookie with `AccountGate`; and accounts in
  `RepairWorkspaces`: the active repair in `sessionStorage` outlives a sign-out, so another account that
  signs in on the tab begins with the id of a repair that is not its own (the service answers it with
  404), which no module shows.  The parallel requests of a `Promise.all` are one, as they fail
  together.
* In `GuidedRepair` every requirement of a version is needed by the same procedure in every
  version, quantities are whole, and readiness states the code treats alike are one.

## 7. Plan

Done: the session core, statement by statement too; repair memory and its reorientation; guided
repair; verified knowledge; authentication, vehicles, the catalog; the web client; and a proof of every
safety property the runs check.  Next:

1. Abstract specifications of what the parts that stand alone promise (accounts and the sessions that
   are open, a map from VINs to vehicles, a set of reviewed records), and their implementation as
   refinements, checked and proved as that of `SessionHistory` is.
2. Of `SessionRequests`, a run with two mutations that overlap a takeover; the theorems cover it.
