------------------------------ MODULE AccountGate -----------------------------
(***************************************************************************)
(* AuthGate of the web client: what is shown depends on what the service   *)
(* last said of the session, and the units of the account are loaded when  *)
(* somebody is signed in.  Every request is awaited while the owner signs  *)
(* out and somebody else in; loading the units is an effect whose cleanup  *)
(* voids its answer, changing them is not.                                 *)
(*                                                                         *)
(* The service is the one of AuthSessions.  A session may end at any time, *)
(* so that an answer is the user of the cookie the request was sent with,  *)
(* or a refusal, or a failure that says nothing.                           *)
(*                                                                         *)
(* This is the gate of one tab.  Its cookie belongs to the whole browser:  *)
(* signing in or out in another tab, which this one is not told of, is     *)
(* not modelled.                                                           *)
(***************************************************************************)
EXTENDS FiniteSets, Naturals

CONSTANTS
  Users,
  MaxAsks,  \* bound: requests awaited at a time
  Nobody    \* null, no cookie

ASSUME NobodyAssumption == Nobody \notin Users

VARIABLES
  auth,       \* status, and the user who is signed in
  units,      \* whose units are shown, and what set them
  unitsBusy,  \* preferenceBusy
  submitting, \* the submitting flag
  cookie,     \* the user of the session cookie
  asks        \* requests awaited; active: the effect was not cleaned up

gateVars == <<auth, units, unitsBusy, submitting, cookie, asks>>

GateTypeOK ==
  /\ auth \in [status: {"checking", "in", "out", "unavailable"}, user: Users \cup {Nobody}]
  /\ units \in [of: Users, by: {"load", "change"}] \cup {Nobody}
  /\ unitsBusy \in BOOLEAN /\ submitting \in BOOLEAN
  /\ cookie \in Users \cup {Nobody}
  /\ asks \subseteq [do: {"me", "submit", "logout", "load", "change"},
                    as: Users \cup {Nobody}, active: BOOLEAN]

Ask(do, user) == [do |-> do, as |-> user, active |-> TRUE]

State(status, user) == [status |-> status, user |-> user]

AccountGateInit ==
  /\ auth = State("checking", Nobody)
  /\ units = Nobody /\ unitsBusy = FALSE /\ submitting = FALSE
  /\ cookie \in Users \cup {Nobody}
  /\ asks = {Ask("me", cookie)}

(* A click: alike to none that is awaited. *)
AskFor(a) ==
  /\ a \notin asks
  /\ Cardinality(asks) < MaxAsks
  /\ asks' = asks \cup {a}

Cleaned(rest) ==
  {IF a.do = "load" THEN [a EXCEPT !.active = FALSE] ELSE a : a \in rest}

(* setAuth, and the effect of auth.status: the units of who is signed in   *)
(* are loaded, and those of anybody else forgotten.                        *)
SetAuth(new, rest) ==
  /\ auth' = new
  /\ CASE new.status = auth.status ->
            asks' = rest /\ UNCHANGED <<units, unitsBusy>>
       [] new.status # auth.status /\ new.status = "in" ->
            /\ asks' = Cleaned(rest) \cup {Ask("load", cookie')}
            /\ unitsBusy' = TRUE /\ UNCHANGED units
       [] OTHER ->
            asks' = Cleaned(rest) /\ units' = Nobody /\ unitsBusy' = FALSE

-----------------------------------------------------------------------------
(* The owner *)

Submit(u) ==
  /\ auth.status = "out" /\ ~submitting
  /\ AskFor(Ask("submit", u))
  /\ submitting' = TRUE
  /\ UNCHANGED <<auth, units, unitsBusy, cookie>>

ChangeUnits ==
  /\ auth.status = "in" /\ ~unitsBusy
  /\ AskFor(Ask("change", cookie))
  /\ unitsBusy' = TRUE
  /\ UNCHANGED <<auth, units, submitting, cookie>>

Logout ==
  /\ auth.status = "in" /\ ~submitting
  /\ AskFor(Ask("logout", cookie))
  /\ submitting' = TRUE
  /\ UNCHANGED <<auth, units, unitsBusy, cookie>>

(* Try again *)
LoadSession ==
  /\ auth.status = "unavailable"
  /\ UNCHANGED <<submitting, cookie>>
  /\ SetAuth(State("checking", Nobody), asks \cup {Ask("me", cookie)})

-----------------------------------------------------------------------------
(* Answers *)

ReceiveSession(a) ==
  /\ a.do = "me"
  /\ UNCHANGED <<submitting, cookie>>
  /\ \/ a.as # Nobody /\ SetAuth(State("in", a.as), asks \ {a})
     \/ SetAuth(State("out", Nobody), asks \ {a})
     \/ SetAuth(State("unavailable", Nobody), asks \ {a})

(* Mutant: the answer is used whether the effect was cleaned up or not.    *)
UsedAnyway(a) == TRUE

(* if (active) *)
Used(a) == a.active

ReceiveUnits(a) ==
  /\ a.do = "load"
  /\ UNCHANGED <<submitting, cookie>>
  /\ IF ~Used(a)
     THEN asks' = asks \ {a} /\ UNCHANGED <<auth, units, unitsBusy>>
     ELSE \/ /\ units' \in {[of |-> a.as, by |-> "load"], units}
             /\ asks' = asks \ {a} /\ unitsBusy' = FALSE
             /\ UNCHANGED auth
          \/ SetAuth(State("out", Nobody), asks \ {a})

(* changeUnits does not look who is signed in by now. *)
ReceiveChange(a) ==
  /\ a.do = "change"
  /\ UNCHANGED <<submitting, cookie>>
  /\ \/ /\ units' \in {[of |-> a.as, by |-> "change"], units}
        /\ asks' = asks \ {a} /\ unitsBusy' = FALSE
        /\ UNCHANGED auth
     \/ /\ auth.status # "out"
        /\ SetAuth(State("out", Nobody), asks \ {a})
     \/ /\ auth.status = "out"
        /\ asks' = asks \ {a} /\ unitsBusy' = FALSE /\ UNCHANGED <<auth, units>>

ReceiveSignIn(a) ==
  /\ a.do = "submit"
  /\ submitting' = FALSE
  /\ \/ cookie' = a.as /\ SetAuth(State("in", a.as), asks \ {a})
     \/ asks' = asks \ {a} /\ UNCHANGED <<auth, units, unitsBusy, cookie>>

(* Only a confirmed logout signs out. *)
ReceiveLogout(a) ==
  /\ a.do = "logout"
  /\ submitting' = FALSE
  /\ \/ cookie' = Nobody /\ SetAuth(State("out", Nobody), asks \ {a})
     \/ asks' = asks \ {a} /\ UNCHANGED <<auth, units, unitsBusy, cookie>>

AccountGateNext ==
  \/ \E u \in Users : Submit(u)
  \/ ChangeUnits \/ Logout \/ LoadSession
  \/ \E a \in asks :
       \/ ReceiveSession(a) \/ ReceiveUnits(a) \/ ReceiveChange(a)
       \/ ReceiveSignIn(a) \/ ReceiveLogout(a)

AccountGateSpec == AccountGateInit /\ [][AccountGateNext]_gateVars
-----------------------------------------------------------------------------
(* In a browser with one tab, units that were loaded are those of the user *)
(* who is signed in, however late they come; and who is signed in is who   *)
(* the cookie will name.  (A change that outlives its user is the          *)
(* exception the code has.)                                                *)
LoadedUnitsAreTheUsers ==
  /\ units # Nobody /\ units.by = "load" => units.of = auth.user
  /\ auth.status = "in" => cookie = auth.user
===============================================================================
