--------------------------- MODULE RepairWorkspaces ---------------------------
(***************************************************************************)
(* The repair pages of the web client in one browser, against the service  *)
(* of RepairSession: resume, log, guidance, readiness and start.  A page   *)
(* lists the repairs, loads the selected one and writes to it; each of     *)
(* these is an async function that awaits one request after another while  *)
(* the owner goes on choosing, clicking and leaving.  A page that is left  *)
(* is unmounted: what its functions set on the page is lost, but they run  *)
(* on, and still set the active repair, which all pages share.             *)
(*                                                                         *)
(* Requests are those of apiRequest: given up after ten seconds, the reads *)
(* tried twice.  A request that was given up may still reach the service.  *)
(* One account is signed in throughout: sessionStorage keeps the active    *)
(* repair at a sign-out, and what the next account meets is left out.      *)
(* Requests a function sends side by side (Promise.all) are one here: they *)
(* fail together.  What is typed into forms is left out, and of what is    *)
(* shown only whose it is and the lease.                                   *)
(***************************************************************************)
EXTENDS RepairSession, Sequences, FiniteSets

CONSTANTS
  Browser,  \* the device id in localStorage
  Slots,    \* bound: async functions that run at a time
  Links,    \* bound: pages and those opened from them
  LateWrites, \* bound: the writes that may be served after they were given up
  None      \* null, '', no function

ASSUME BrowserAssumption == Browser \in Devices /\ Slots \subseteq Nat /\ Slots # {}

VARIABLES
  page,      \* the page the shell renders
  selected,  \* selectedId: a repair, on the start page a vehicle
  listed,    \* the rows of the picker
  shown,     \* whose snapshot and guidance the page shows, with the lease in it
  busy,      \* the busy flag of the page
  pending,   \* pendingSession of the start page
  stored,    \* the active repair in sessionStorage
  calls,     \* calls[i]: the async function in slot i
  late       \* writes that were given up and may still be served

pageVars  == <<page, selected, listed, shown, busy, pending>>
clientVars == <<pageVars, stored, calls, late>>
webVars   == <<vars, clientVars>>

Pages  == {"resume", "log", "guidance", "readiness", "start"}
Writes == {"lease", "domain", "status", "create", "bind"}

Transitions == {"session_paused", "session_resumed", "session_archived"}

(* The functions that set busy, and clear it in a finally. *)
Handlers == {"lease", "domain", "status", "create", "bind", "plan"}

Reads == {"list", "vehicles", "snapshot", "refresh", "guidance", "plan", "options"}

(* The lease a snapshot tells, and whether it is held by this browser. *)
SnapshotRow == [lease: {"available", "owned", "held_by_other"}, held: BOOLEAN]

(* What a write says, as far as it matters. *)
Subjects ==
  {"acquire", "takeover", "recorded", "verified", None} \cup Transitions \cup Vehicles

AnswersTo(request) ==
  CASE request = "list"                    -> SUBSET Sessions
    [] request = "vehicles"                -> SUBSET Vehicles
    [] request \in {"snapshot", "refresh"} -> SnapshotRow
    [] OTHER                               -> {"ok"}

(* A function that awaits the answer to a request. *)
CallRow(request) ==
  [page: Pages, do: Handlers \cup {"initialize", "open"}, session: Sessions \cup {None},
   todo: Seq(Writes \cup Reads), key: Keys \cup {None}, what: Subjects,
   live: BOOLEAN, active: BOOLEAN, answer: {None} \cup AnswersTo(request)]

ASSUME NobodyCallsAssumption ==
  /\ \A request \in Writes \cup Reads : None \notin CallRow(request)
  /\ LateWrites \subseteq Writes

NothingShown == [session |-> None, lease |-> None, held |-> FALSE, guidance |-> None]

-----------------------------------------------------------------------------
(* Async functions: what is left `todo` is a sequence of requests. *)

Call(do, s, todo) ==
  [page |-> page, do |-> do, session |-> s, todo |-> todo, key |-> None, what |-> None,
   live |-> TRUE, active |-> TRUE, answer |-> None]

(* loadSnapshot, loadMemory, loadSession, loadReadiness *)
Load(p) == IF p = "guidance" THEN <<"snapshot", "guidance">> ELSE <<"snapshot">>

Free(f) == {i \in Slots : f[i] = None}

Room(f, n) == Cardinality(Free(f)) >= n

Put(f, c) ==
  LET i == CHOOSE i \in Free(f) : \A j \in Free(f) : i <= j IN [f EXCEPT ![i] = c]

Running(i) == calls[i] # None

Awaiting(i, request) == Running(i) /\ Head(calls[i].todo) = request

Received(i, request) == Awaiting(i, request) /\ calls[i].answer # None

Rest(c) == [c EXCEPT !.todo = Tail(@), !.answer = None]

(* The function goes on as c, or returns. *)
Advance(i, c) == [calls EXCEPT ![i] = IF c.todo = <<>> THEN None ELSE c]

Returned(i) == [calls EXCEPT ![i] = None]

(* Mutant: busy is cleared when the write is answered, before the reload.  *)
ClearedAfterWrite(i, c) ==
  busy /\ ~(calls[i].live /\ calls[i].do \in Handlers)

(* finally { setBusy(false) } *)
BusyAfter(i, c) ==
  busy /\ ~(c.todo = <<>> /\ calls[i].live /\ calls[i].do \in Handlers)

(* The effect that loads the selected repair. *)
Opened(f, p, s) == IF s = None THEN f ELSE Put(f, [Call("open", s, Load(p)) EXCEPT !.page = p])

(* The effects of a page that is mounted. *)
Mounted(f, p) ==
  LET list(todo) == [Call("initialize", stored, todo) EXCEPT !.page = p] IN
  CASE p \in {"resume", "log"}         -> Opened(Put(f, list(<<"list">>)), p, stored)
    [] p \in {"guidance", "readiness"} -> Put(f, list(<<"list">> \o Load(p)))
    [] OTHER                           -> Put(f, list(<<"vehicles">>))

(* How many functions those are, when s is the active repair. *)
Started(p, s) == IF p \in {"resume", "log"} /\ s # None THEN 2 ELSE 1

(* A function with nothing left but page state to set is forgotten. *)
Unmounted(c) ==
  IF c = None \/ \A n \in DOMAIN c.todo : c.todo[n] \notin Writes \cup {"snapshot", "options"}
  THEN None ELSE [c EXCEPT !.live = FALSE]

(* navigate *)
Render(p, f) ==
  /\ page' = p
  /\ selected' = IF p = "start" THEN None ELSE stored'
  /\ listed' = {} /\ shown' = NothingShown /\ busy' = FALSE /\ pending' = None

Navigate(p) ==
  LET rest == [i \in Slots |-> Unmounted(calls[i])] IN
  /\ <<page, p>> \in Links
  /\ Room(rest, Started(p, stored))
  /\ UNCHANGED <<vars, stored, late>>
  /\ Render(p, rest)
  /\ calls' = Mounted(rest, p)

-----------------------------------------------------------------------------
(* The owner *)

(* Readiness shows nothing else while it initializes. *)
Loading ==
  page = "readiness" /\ \E i \in Slots : Running(i) /\ calls[i].do = "initialize"
                                         /\ calls[i].live /\ calls[i].active

(* setSessionId: the effect that depended on it is cleaned up. *)
CleanedUp(f) ==
  [i \in Slots |-> IF f[i] # None /\ f[i].live /\ f[i].do = "initialize"
                   THEN [f[i] EXCEPT !.active = FALSE] ELSE f[i]]

(* The picker of a page; guidance disables it while busy. *)
ChooseSession(s) ==
  /\ page # "start"
  /\ s \in listed \ {selected}
  /\ page = "guidance" => ~busy
  /\ ~Loading
  /\ Room(calls, IF page = "readiness" THEN 2 ELSE 1)
  /\ selected' = s
  /\ stored' = IF page = "resume" THEN stored ELSE s
  /\ shown' = CASE page = "guidance"  -> [shown EXCEPT !.guidance = None]
                [] page = "readiness" -> NothingShown
                [] OTHER              -> shown
  /\ calls' = IF page = "readiness"
              THEN Put(Opened(CleanedUp(calls), page, s),
                       Call("initialize", s, <<"list">> \o Load(page)))
              ELSE Opened(calls, page, s)
  /\ UNCHANGED <<vars, page, listed, busy, pending, late>>

(* disabled={busy} *)
Ready == ~busy

Handle(c) ==
  /\ Ready
  /\ ~Loading
  /\ Room(calls, 1)
  /\ busy' = TRUE
  /\ calls' = Put(calls, c)
  /\ UNCHANGED <<vars, page, selected, listed, stored, late>>

(* newIdempotencyKey *)
FreshKey(k) ==
  /\ \A s \in Sessions : KeyUnused(s, k)
  /\ \A i \in Slots : Running(i) => calls[i].key # k
  /\ \A r \in late : r.key # k

CanEdit == shown.session # None /\ shown.lease = "owned"

(* leaseAction, acquireLease: takes over when the lease is another's.      *)
LeaseAction ==
  /\ page # "start"
  /\ selected # None /\ shown.session # None /\ ~CanEdit
  /\ Handle([Call("lease", selected, <<"lease">> \o Load(page))
               EXCEPT !.what = IF shown.lease = "held_by_other" THEN "takeover" ELSE "acquire"])
  /\ UNCHANGED <<shown, pending>>

(* createStorage, createFastener, updateFastener, createObservation,       *)
(* uploadPhoto and deletePhoto of the log, createInventory and             *)
(* changeInventoryState of readiness, updateProgress of guidance, and      *)
(* mutateSession of the resume page; changeVerifiedReadiness of readiness  *)
(* reloads the snapshot alone.                                             *)
MutationTodo(what) ==
  CASE what = "verified"                            -> <<"domain", "refresh">>
    [] what = "session_archived"                    -> <<"status", "list">>
    [] what \in Transitions \ {"session_archived"}  -> <<"status", "list">> \o Load(page)
    [] OTHER                                        -> <<"domain">> \o Load(page)

Mutate(k, what) ==
  /\ page # "start" /\ selected # None /\ CanEdit
  /\ page = "resume" <=> what \in Transitions
  /\ what = "verified" => page = "readiness"
  /\ page = "guidance" => shown.guidance # None
  /\ FreshKey(k)
  /\ Handle([Call(IF what \in Transitions THEN "status" ELSE "domain", selected,
                  MutationTodo(what)) EXCEPT !.key = k, !.what = what])
  /\ UNCHANGED <<shown, pending>>

(* bindVerifiedRepair of readiness and of the start page, without a key.   *)
BindVerifiedRepair ==
  \/ /\ page = "readiness" /\ selected # None /\ CanEdit
     /\ Handle(Call("bind", selected, <<"bind">> \o Load(page)))
     /\ UNCHANGED <<shown, pending>>
  \/ /\ page = "start" /\ pending # None
     /\ Handle(Call("bind", pending, <<"bind">>))
     /\ UNCHANGED <<shown, pending>>

(* togglePlan of guidance, when the plan is not loaded. *)
TogglePlan ==
  /\ page = "guidance" /\ shown.guidance # None
  /\ Handle(Call("plan", selected, <<"plan">>))
  /\ UNCHANGED <<shown, pending>>

(* Mutant: the repair becomes the active one before it is confirmed.       *)
CreateActiveRepair(s) ==
  /\ page = "start" /\ selected \in listed /\ Ready /\ Room(calls, 1) /\ FreshKey(s)
  /\ calls' = Put(calls, [Call("create", s, <<"create", "options">>)
                            EXCEPT !.key = s, !.what = selected])
  /\ stored' = s /\ busy' = TRUE
  /\ UNCHANGED <<vars, page, selected, listed, shown, pending, late>>

(* createRepair; the key names the repair. *)
CreateRepair(s) ==
  /\ page = "start" /\ selected \in listed /\ pending = None
  /\ FreshKey(s)
  /\ Handle([Call("create", s, <<"create", "options">>) EXCEPT !.key = s, !.what = selected])
  /\ pending' = None
  /\ UNCHANGED shown

(* "Continue without binding": finish *)
ContinueToRepair ==
  /\ page = "start" /\ pending # None /\ ~busy
  /\ stored' = pending
  /\ UNCHANGED <<vars, late>>
  /\ LET rest == [i \in Slots |-> Unmounted(calls[i])] IN
     /\ Room(rest, 2)
     /\ Render("resume", rest)
     /\ calls' = Opened(Put(rest, [Call("initialize", pending, <<"list">>) EXCEPT !.page = "resume"]),
                        "resume", pending)

-----------------------------------------------------------------------------
(* The service *)

(* The requests of the resume page and of the log name no device.          *)
DeviceSent(p) == IF p \in {"resume", "log"} THEN NoDevice ELSE Browser

(* lease_view *)
LeaseShown(s, d) ==
  IF d = NoDevice /\ LeaseView(projection[s], d) = "owned" THEN "held_by_other"
  ELSE LeaseView(projection[s], d)

Snapshot(c) ==
  [lease |-> LeaseShown(c.session, DeviceSent(c.page)),
   held  |-> LeaseView(projection[c.session], Browser) = "owned"]

AnswerOf(c) ==
  CASE Head(c.todo) = "list"                    -> {s \in Sessions : Listed(s)}
    [] Head(c.todo) = "vehicles"                -> Vehicles \ archivedVehicles
    [] Head(c.todo) \in {"snapshot", "refresh"} -> Snapshot(c)
    [] OTHER                                    -> "ok"

(* A write is accepted: the request of RepairSession it is. *)
Serve(request, s, k, what) ==
  CASE request = "lease"  -> AcquireEditLease(s, Browser, what = "takeover")
    [] request = "domain" -> DomainMutation(s, k, Browser)
    [] request = "status" -> AppendStatusEvent(s, what, k, Browser)
    [] request = "create" -> CreateRepairSession(s, what, Browser)
    [] OTHER              -> HasEditLease(projection[s], Browser) /\ UNCHANGED vars

ServeRequest(i) ==
  /\ Running(i) /\ calls[i].answer = None
  /\ LET c == calls[i]
         request == Head(c.todo)
     IN /\ IF request \in Writes THEN Serve(request, c.session, c.key, c.what) ELSE UNCHANGED vars
        /\ calls' = [calls EXCEPT ![i].answer = AnswerOf(c)]
  /\ UNCHANGED <<pageVars, stored, late>>

ServeLate(r) ==
  /\ Serve(r.request, r.session, r.key, r.what)
  /\ late' = late \ {r}
  /\ UNCHANGED <<pageVars, stored, calls>>

LoseLate(r) ==
  /\ late' = late \ {r}
  /\ UNCHANGED <<vars, pageVars, stored, calls>>

(* Another device, or time. *)
Elsewhere ==
  /\ \/ \E s \in Sessions, d \in Devices \ {Browser} : AcquireEditLease(s, d, TRUE)
     \/ Tick
  /\ UNCHANGED clientVars

-----------------------------------------------------------------------------
(* Answers *)

(* preferredRepairSessionId *)
Preferred(rows, current) ==
  IF stored \in rows THEN {stored}
  ELSE IF current \in rows THEN {current}
  ELSE IF rows = {} THEN {None} ELSE rows

(* The list arrives at the resume page or the log: an effect loads what    *)
(* is selected when that changes.                                          *)
ReceiveList(i) ==
  LET c == calls[i]
      next == Advance(i, Rest(c))
  IN
  /\ Received(i, "list") /\ c.page \in {"resume", "log"}
  /\ IF ~c.live
     THEN calls' = next /\ UNCHANGED <<selected, listed, shown, stored>>
     ELSE \E s \in Preferred(c.answer, selected) :
            /\ listed' = c.answer /\ selected' = s
            /\ s # selected => Free(next) # {}
            /\ calls' = IF s = selected THEN next ELSE Opened(next, page, s)
            /\ shown' = IF s = None THEN NothingShown ELSE shown
            /\ stored' = IF s = None /\ selected # None THEN None ELSE stored
  /\ busy' = BusyAfter(i, Rest(c))
  /\ UNCHANGED <<vars, page, pending, late>>

(* The list arrives at guidance (refresh) or readiness (initialize), which *)
(* go on with the repair they prefer; readiness looks whether the effect   *)
(* was cleaned up, guidance does not.                                      *)
ReceiveFirstList(i) ==
  LET c == calls[i] IN
  /\ Received(i, "list") /\ c.page \in {"guidance", "readiness"}
  /\ IF c.page = "readiness" /\ ~(c.live /\ c.active)
     THEN calls' = Returned(i) /\ UNCHANGED <<selected, listed, shown, stored>>
     ELSE \E s \in Preferred(c.answer, c.session) :
       LET goesOn == [Rest(c) EXCEPT !.session = s]
           next   == IF s = None THEN Returned(i) ELSE Advance(i, goesOn)
           moved  == c.live /\ s # selected
       IN
       /\ listed' = IF c.live THEN c.answer ELSE listed
       /\ selected' = IF c.live THEN s ELSE selected
       /\ shown' = IF c.live /\ s = None THEN NothingShown ELSE shown
       /\ stored' = IF s = None THEN None ELSE stored
       /\ IF moved /\ c.page = "readiness"
          THEN /\ Free(next) # {}
               /\ calls' = Put(CleanedUp(next), Call("initialize", s, <<"list">> \o Load(page)))
          ELSE calls' = next
  /\ UNCHANGED <<vars, page, busy, pending, late>>

ReceiveVehicles(i) ==
  /\ Received(i, "vehicles")
  /\ listed' = calls[i].answer
  /\ \E v \in calls[i].answer \cup {None} :
       /\ v = None => calls[i].answer = {}
       /\ selected' = v
  /\ calls' = Returned(i)
  /\ UNCHANGED <<vars, page, shown, busy, pending, stored, late>>

(* The snapshot is shown, if its page is, and becomes the active repair.   *)
ReceiveSnapshot(i) ==
  LET c == calls[i] IN
  /\ Received(i, "snapshot")
  /\ shown' = IF c.live
              THEN [shown EXCEPT !.session = c.session, !.lease = c.answer.lease,
                                 !.held = c.answer.held]
              ELSE shown
  /\ stored' = c.session
  /\ calls' = Advance(i, Rest(c))
  /\ busy' = BusyAfter(i, Rest(c))
  /\ UNCHANGED <<vars, page, selected, listed, pending, late>>

(* setSnapshot after changeVerifiedReadiness; setGuidance; setPlan *)
ReceiveDetail(i) ==
  LET c == calls[i] IN
  /\ Received(i, "refresh") \/ Received(i, "guidance") \/ Received(i, "plan")
  /\ shown' = CASE c.live /\ Head(c.todo) = "guidance" -> [shown EXCEPT !.guidance = c.session]
                [] c.live /\ Head(c.todo) = "refresh"  ->
                     [shown EXCEPT !.session = c.session, !.lease = c.answer.lease,
                                   !.held = c.answer.held]
                [] OTHER                               -> shown
  /\ calls' = Advance(i, Rest(c))
  /\ busy' = BusyAfter(i, Rest(c))
  /\ UNCHANGED <<vars, page, selected, listed, pending, stored, late>>

(* partgraph:repair-sessions-changed is heard by the resume page alone, if *)
(* it is mounted: it lists the repairs once more.                          *)
SessionsChanged(f) ==
  /\ page = "resume" => Free(f) # {}
  /\ calls' = IF page = "resume" THEN Put(f, Call("initialize", selected, <<"list">>)) ELSE f

(* The write is confirmed.  A changed status is told to the resume page;   *)
(* guidance clears what it shows before it loads.                          *)
ReceiveWrite(i) ==
  LET c == calls[i]
      next == Advance(i, Rest(c))
  IN
  /\ \E request \in {"lease", "domain", "status"} : Received(i, request)
  /\ IF c.do = "status" THEN SessionsChanged(next) ELSE calls' = next
  /\ shown' = IF c.live /\ page = "guidance" THEN [shown EXCEPT !.guidance = None] ELSE shown
  /\ busy' = BusyAfter(i, Rest(c))
  /\ UNCHANGED <<vars, page, selected, listed, pending, stored, late>>

(* createRepair tells of the new repair, which is active from now on, and  *)
(* goes on to the options, wherever the owner is by then.                  *)
ReceiveCreated(i) ==
  /\ Received(i, "create")
  /\ stored' = calls[i].session
  /\ SessionsChanged(Advance(i, Rest(calls[i])))
  /\ UNCHANGED <<vars, pageVars, late>>

(* Options to choose from, or none could be loaded: the start page asks.   *)
AskForRepair(i) ==
  LET c == calls[i] IN
  /\ pending' = IF c.live THEN c.session ELSE pending
  /\ calls' = Returned(i)
  /\ busy' = (busy /\ ~c.live)
  /\ UNCHANGED <<vars, page, selected, listed, shown, stored, late>>

(* finish: the repair is active and the event sent; then the resume page   *)
(* is opened, or stays the one that is rendered.                           *)
Finish(i) ==
  LET s == calls[i].session
      rest == [j \in Slots |-> IF j = i THEN None ELSE Unmounted(calls[j])]
  IN
  /\ stored' = s
  /\ UNCHANGED <<vars, late>>
  /\ IF page = "resume"
     THEN SessionsChanged(Returned(i)) /\ UNCHANGED pageVars
     ELSE /\ Room(rest, 2)
          /\ Render("resume", rest)
          /\ calls' = Opened(Put(rest, [Call("initialize", s, <<"list">>) EXCEPT !.page = "resume"]),
                             "resume", s)

ReceiveOptions(i) == Received(i, "options") /\ (AskForRepair(i) \/ Finish(i))

ReceiveBound(i) ==
  LET c == calls[i] IN
  /\ Received(i, "bind")
  /\ IF c.page = "start" THEN Finish(i)
     ELSE /\ calls' = Advance(i, Rest(c))
          /\ UNCHANGED <<vars, pageVars, stored, late>>

Receive(i) ==
  \/ ReceiveList(i) \/ ReceiveFirstList(i) \/ ReceiveVehicles(i)
  \/ ReceiveSnapshot(i) \/ ReceiveDetail(i) \/ ReceiveWrite(i)
  \/ ReceiveCreated(i) \/ ReceiveOptions(i) \/ ReceiveBound(i)

-----------------------------------------------------------------------------
(* Failures *)

(* Ten seconds, a lost connection or answer, an error of the service: an   *)
(* attempt can end in failure at any time.  A read is tried once more,     *)
(* which only matters when its answer was lost.                            *)
Retry(i) ==
  /\ Running(i) /\ calls[i].answer # None
  /\ Head(calls[i].todo) \notin Writes
  /\ calls' = [calls EXCEPT ![i].answer = None]
  /\ UNCHANGED <<vars, pageVars, stored, late>>

(* The resume page catches the failure of a loader and goes on with what   *)
(* is left; the others give the whole function up.  A write that was not   *)
(* served yet may still be on its way.                                     *)
GiveUp(i) ==
  LET c == calls[i]
      request == Head(c.todo)
      goesOn == c.page = "resume" /\ request \in {"list", "snapshot"}
      left == IF goesOn THEN Rest(c) ELSE [c EXCEPT !.todo = <<>>]
  IN
  /\ Running(i)
  /\ IF request = "options" THEN AskForRepair(i)
     ELSE
     /\ calls' = Advance(i, left)
     /\ shown' = IF c.live /\ goesOn /\ request = "snapshot" THEN NothingShown ELSE shown
     /\ listed' = IF c.live /\ goesOn /\ request = "list" THEN {} ELSE listed
     /\ busy' = BusyAfter(i, left)
     /\ late' \in {late} \cup
          (IF request \in LateWrites /\ c.answer = None /\ late = {}
           THEN {late \cup {[request |-> request, session |-> c.session,
                             key |-> c.key, what |-> c.what]}}
           ELSE {})
     /\ UNCHANGED <<vars, page, selected, pending, stored>>

-----------------------------------------------------------------------------
WebInit ==
  /\ Init
  /\ page = "resume" /\ selected = None /\ listed = {} /\ shown = NothingShown
  /\ busy = FALSE /\ pending = None /\ stored = None /\ late = {}
  /\ calls = Mounted([i \in Slots |-> None], "resume")

Settle(i) == Receive(i) \/ Retry(i) \/ GiveUp(i)

WebNext ==
  \/ \E p \in Pages : Navigate(p)
  \/ \E s \in Sessions : ChooseSession(s) \/ CreateRepair(s)
  \/ LeaseAction
  \/ \E k \in Keys \ Sessions, what \in Transitions \cup {"recorded", "verified"} : Mutate(k, what)
  \/ BindVerifiedRepair
  \/ TogglePlan
  \/ ContinueToRepair
  \/ Elsewhere
  \/ \E r \in late : ServeLate(r) \/ LoseLate(r)
  \/ \E i \in Slots : ServeRequest(i) \/ Settle(i)

WebSpec == WebInit /\ [][WebNext]_webVars
-----------------------------------------------------------------------------
(* Properties *)

LateRow ==
  [request: LateWrites, session: Sessions \cup {None}, key: Keys \cup {None}, what: Subjects]

WebTypeOK ==
  /\ page \in Pages /\ busy \in BOOLEAN
  /\ selected \in Sessions \cup Vehicles \cup {None}
  /\ listed \subseteq Sessions \cup Vehicles
  /\ shown.session \in Sessions \cup {None} /\ shown.guidance \in Sessions \cup {None}
  /\ shown.lease \in {"available", "owned", "held_by_other", None} /\ shown.held \in BOOLEAN
  /\ pending \in Sessions \cup {None} /\ stored \in Sessions \cup {None}
  /\ DOMAIN calls = Slots
  /\ \A i \in Slots : Running(i) => calls[i] \in CallRow(Head(calls[i].todo))
  /\ late \subseteq LateRow

Busy(i) == Running(i) /\ calls[i].live /\ calls[i].do \in Handlers

(* A page is busy exactly while one handler of it runs, reload included:   *)
(* no second write starts before the first is settled and its result is    *)
(* loaded, and no failure leaves the page disabled.                        *)
OneHandlerAtATime ==
  /\ Cardinality({i \in Slots : Busy(i)}) <= 1
  /\ busy <=> \E i \in Slots : Busy(i)

(* The active repair, the one the start page asks about and what any page  *)
(* has selected is a repair the service has: no function, left page, lost  *)
(* or late answer makes a repair active that was not created.  Whose it is *)
(* is not said: one account is signed in throughout.                       *)
ActiveRepairExists ==
  /\ stored # None => session[stored] # NoSession
  /\ page # "start" /\ selected # None => session[selected] # NoSession
  /\ pending # None => session[pending] # NoSession

(* What a page says of the lease was so when the service answered: "This   *)
(* device does not currently hold the edit lease" (RepairLog).             *)
LeaseBannerIsTrue ==
  shown.session # None => (shown.held <=> shown.lease = "owned")
===============================================================================
