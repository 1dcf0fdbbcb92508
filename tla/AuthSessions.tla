----------------------------- MODULE AuthSessions -----------------------------
(***************************************************************************)
(* Registration, sign-in, sign-out and the check of a session token, as    *)
(* concurrent requests, statement by statement.  A request holds a         *)
(* connection of the pool from its first statement to its end.  The        *)
(* counter of attempts is written on a second connection, in a transaction *)
(* of its own that commits whatever becomes of the request, and a request  *)
(* that waits for a connection longer than the pool allows raises.         *)
(*                                                                         *)
(* An attempt says whether its password is right; hashing and rehashing    *)
(* are left out.  A deactivated user and the preferences row, which has no *)
(* other writer than its user's requests, are not modelled.                *)
(***************************************************************************)
EXTENDS Integers, FiniteSets

CONSTANTS
  Handlers,      \* requests that may be in flight at once
  Accounts,      \* what people register: records with email and username
  Tokens,        \* session tokens, never drawn twice
  AttemptLimit,  \* settings.auth_rate_limit_attempts
  Window,        \* settings.auth_rate_limit_minutes
  SessionLife,   \* settings.session_days
  TouchAfter,    \* the five minutes of last_seen_at
  PoolSize,      \* connections, overflow included
  MaxTime,      \* bound of the clock
  ClientOps,     \* the operations clients ask for
  Nil           \* NULL, no row

Attempts == {"login", "register"}
Ops      == Attempts \cup {"use", "logout"}

Emails      == {a.email : a \in Accounts}
Identifiers == Emails \cup {a.username : a \in Accounts}
RateKeys    == [action: Attempts, id: Identifiers]

(* auth_sessions, auth_rate_limits *)
TokenRow   == [expires: Nat, revoked: BOOLEAN, seen: Nat]
CounterRow == [start: Nat, attempts: 1..AttemptLimit + 1]

ASSUME OpsAssumption  == ClientOps \subseteq Ops
ASSUME SizeAssumption ==
  /\ {AttemptLimit, Window, SessionLife, PoolSize} \subseteq Nat \ {0}
  /\ {TouchAfter, MaxTime} \subseteq Nat
ASSUME NilAssumption ==
  Nil \notin Handlers \cup Accounts \cup Tokens \cup TokenRow \cup CounterRow

VARIABLES
  time,
  users,      \* users: the accounts that exist
  token,      \* auth_sessions: expires, revoked, seen of a token
  limit,      \* auth_rate_limits: start and attempts under a key
  row,        \* the transaction that has the row of a token locked
  handler,        \* the requests in flight
  passed,     \* attempts let through since the counter was last reset
  loggedOut   \* tokens whose sign-out was answered

authVars == <<time, users, token, limit, row, handler, passed, loggedOut>>

(* A request in flight, as far as it has come.                             *)
HandlerRow ==
  [pc: {"idle", "connect", "limit", "counting", "verify", "clear", "clearing",
        "resolve", "update", "flushed", "committed"},
   op: Ops, account: Accounts \cup {Nil}, id: Identifiers \cup {Nil},
   right: BOOLEAN, token: Tokens \cup {Nil}, loaded: TokenRow \cup {Nil},
   now: Nat, conns: {0, 1, 2}, late: BOOLEAN]

Resting ==
  [pc |-> "idle", op |-> "use", account |-> Nil, id |-> Nil, right |-> FALSE,
   token |-> Nil, loaded |-> Nil, now |-> 0, conns |-> 0, late |-> FALSE]

Key(r) == [action |-> handler[r].op, id |-> handler[r].id]

Overlap(a, b) == a.email = b.email \/ a.username = b.username

AuthTypeOK ==
  /\ time \in 0..MaxTime
  /\ users \subseteq Accounts
  /\ token \in [Tokens -> TokenRow \cup {Nil}]
  /\ limit \in [RateKeys -> CounterRow \cup {Nil}]
  /\ row \in [Tokens -> Handlers \cup {Nil}]
  /\ handler \in [Handlers -> HandlerRow]
  /\ passed \in [RateKeys -> Nat]
  /\ loggedOut \subseteq Tokens

AuthInit ==
  /\ time = 0
  /\ users \in {U \in SUBSET Accounts : \A a, b \in U : Overlap(a, b) => a = b}
  /\ token = [t \in Tokens |-> Nil]
  /\ limit = [k \in RateKeys |-> Nil]
  /\ row = [t \in Tokens |-> Nil]
  /\ handler = [r \in Handlers |-> Resting]
  /\ passed = [k \in RateKeys |-> 0]
  /\ loggedOut = {}

-----------------------------------------------------------------------------
ReqAt(r, pc) == handler[r].pc = pc

Goto(r, pc) == handler' = [handler EXCEPT ![r].pc = pc]

(* Connections that nobody has. *)
InUse == {c \in Handlers \X {1, 2} : c[2] <= handler[c[1]].conns}
Free  == PoolSize - Cardinality(InUse)

(* Tokens are random: one that was never drawn. *)
Fresh(t) == token[t] = Nil /\ \A r \in Handlers : handler[r].token # t

WillDraw(r) ==
  handler[r].op \in Attempts /\ handler[r].token = Nil /\ ~ReqAt(r, "idle")

(* Bound: an attempt that may succeed starts only while there is a token    *)
(* for it to draw.                                                         *)
TokenLeft ==
  Cardinality({t \in Tokens : Fresh(t)}) > Cardinality({r \in Handlers : WillDraw(r)})

(* The transaction rolls back, its locks and connections are released.     *)
RaiseError(r) ==
  /\ handler' = [handler EXCEPT ![r] = Resting]
  /\ row' = [t \in Tokens |-> IF row[t] = r THEN Nil ELSE row[t]]
  /\ UNCHANGED <<time, users, token, limit, passed, loggedOut>>

-----------------------------------------------------------------------------
(* A request arrives. *)

BeginLogin(r, a, id, right) ==
  /\ "login" \in ClientOps /\ ReqAt(r, "idle")
  /\ right => TokenLeft
  /\ handler' = [handler EXCEPT ![r] =
       [Resting EXCEPT !.pc = "connect", !.op = "login",
                       !.account = a, !.id = id, !.right = right]]
  /\ UNCHANGED <<time, users, token, limit, row, passed, loggedOut>>

BeginRegister(r, a) ==
  /\ "register" \in ClientOps /\ ReqAt(r, "idle")
  /\ a \notin users => TokenLeft
  /\ handler' = [handler EXCEPT ![r] =
       [Resting EXCEPT !.pc = "connect", !.op = "register",
                       !.account = a, !.id = a.email]]
  /\ UNCHANGED <<time, users, token, limit, row, passed, loggedOut>>

BeginWithToken(r, op, t) ==
  /\ op \in ClientOps /\ ReqAt(r, "idle")
  /\ token[t] # Nil
  /\ handler' = [handler EXCEPT ![r] =
       [Resting EXCEPT !.pc = "connect", !.op = op,
                       !.token = t, !.late = t \in loggedOut]]
  /\ UNCHANGED <<time, users, token, limit, row, passed, loggedOut>>

(* get_auth_session: SET LOCAL ROLE takes the connection of the request.   *)
(* The handler then reads the clock, before it asks for anything else.     *)
Connect(r) ==
  /\ ReqAt(r, "connect")
  /\ Free > 0
  /\ handler' = [handler EXCEPT ![r].conns = 1, ![r].now = time,
       ![r].pc = IF handler[r].op \in Attempts THEN "limit" ELSE "resolve"]
  /\ UNCHANGED <<time, users, token, limit, row, passed, loggedOut>>

-----------------------------------------------------------------------------
(* The counter of attempts *)

ConnectAgain(r) ==
  /\ handler[r].pc \in {"limit", "clear"}
  /\ Free > 0
  /\ handler' = [handler EXCEPT ![r].conns = 2,
       ![r].pc = IF ReqAt(r, "limit") THEN "counting" ELSE "clearing"]
  /\ UNCHANGED <<time, users, token, limit, row, passed, loggedOut>>

(* No row, or window_started_at < now - auth_rate_limit_minutes. *)
NewWindow(r) ==
  LET l == limit[Key(r)] IN l = Nil \/ l.start < handler[r].now - Window

(* Attempts beyond the limit are not told apart, so the counter stops one  *)
(* above it.                                                               *)
Counted(r) ==
  LET l == limit[Key(r)] IN
  IF NewWindow(r) THEN [start |-> handler[r].now, attempts |-> 1]
  ELSE IF l.attempts > AttemptLimit THEN l
  ELSE [l EXCEPT !.attempts = @ + 1]

(* Mutant: counted in the transaction of the request, and so rolled back   *)
(* with an attempt that fails.                                             *)
ConsumeInRequest(r) ==
  LET k == Key(r) IN
  /\ ReqAt(r, "counting")
  /\ limit' = IF handler[r].right THEN [limit EXCEPT ![k] = Counted(r)] ELSE limit
  /\ passed' = [passed EXCEPT ![k] =
       IF NewWindow(r) /\ handler[r].right THEN 1 ELSE @ + 1]
  /\ handler' = [handler EXCEPT ![r].conns = 1, ![r].pc = "verify", ![r].now = 0]
  /\ UNCHANGED <<time, users, token, row, loggedOut>>

(* consume_rate_limit: one upsert, committed before the limit is judged.   *)
ConsumeRateLimit(r) ==
  LET k == Key(r) IN
  /\ ReqAt(r, "counting")
  /\ limit' = [limit EXCEPT ![k] = Counted(r)]
  /\ IF Counted(r).attempts > AttemptLimit
     THEN handler' = [handler EXCEPT ![r] = Resting] /\ UNCHANGED passed
     ELSE /\ handler' =
               [handler EXCEPT ![r].conns = 1, ![r].pc = "verify", ![r].now = 0]
          /\ passed' = [passed EXCEPT ![k] = IF NewWindow(r) THEN 1 ELSE @ + 1]
  /\ UNCHANGED <<time, users, token, row, loggedOut>>

(* clear_rate_limit: after the new session is flushed, before it commits.  *)
ClearRateLimit(r) ==
  /\ ReqAt(r, "clearing")
  /\ limit' = [limit EXCEPT ![Key(r)] = Nil]
  /\ passed' = [passed EXCEPT ![Key(r)] = 0]
  /\ handler' = [handler EXCEPT ![r].conns = 1, ![r].pc = "flushed"]
  /\ UNCHANGED <<time, users, token, row, loggedOut>>

-----------------------------------------------------------------------------
(* The statements of the request *)

(* Mutant: the uncommitted insert of another request is not waited for.    *)
NothingInserted(r) == Handlers \ Handlers

(* The inserts of other requests that are not committed yet.               *)
UncommittedInserts(r) ==
  {q \in Handlers \ {r} : handler[q].op = "register" /\
     handler[q].pc \in {"clear", "clearing", "flushed"}}

(* register_user, create_auth_session: INSERT ... ON CONFLICT DO NOTHING   *)
(* waits for an uncommitted row with the same email or username.           *)
RegisterUser(r, t) ==
  /\ ReqAt(r, "verify") /\ handler[r].op = "register"
  /\ \A a \in users : ~Overlap(a, handler[r].account)
  /\ \A q \in UncommittedInserts(r) :
       ~Overlap(handler[q].account, handler[r].account)
  /\ Fresh(t)
  /\ handler' = [handler EXCEPT ![r].token = t, ![r].now = time, ![r].pc = "clear"]
  /\ UNCHANGED <<time, users, token, limit, row, passed, loggedOut>>

IdentityConflict(r) ==
  /\ ReqAt(r, "verify") /\ handler[r].op = "register"
  /\ \E a \in users : Overlap(a, handler[r].account)
  /\ RaiseError(r)

(* authenticate_user, create_auth_session. *)
AuthenticateUser(r, t) ==
  /\ ReqAt(r, "verify") /\ handler[r].op = "login"
  /\ handler[r].account \in users /\ handler[r].right
  /\ Fresh(t)
  /\ handler' = [handler EXCEPT ![r].token = t, ![r].now = time, ![r].pc = "clear",
                                 ![r].account = Nil, ![r].right = FALSE]
  /\ UNCHANGED <<time, users, token, limit, row, passed, loggedOut>>

InvalidCredentials(r) ==
  /\ ReqAt(r, "verify") /\ handler[r].op = "login"
  /\ handler[r].account \notin users \/ ~handler[r].right
  /\ RaiseError(r)

(* resolve_auth_session: an unlocked SELECT; last_seen_at is written when  *)
(* it is old.                                                              *)
ResolveAuthSession(r) ==
  LET t == token[handler[r].token] IN
  /\ ReqAt(r, "resolve") /\ handler[r].op = "use"
  /\ ~t.revoked /\ t.expires > handler[r].now
  /\ handler' = [handler EXCEPT ![r].loaded = t, ![r].pc =
       IF t.seen < handler[r].now - TouchAfter THEN "update" ELSE "flushed"]
  /\ UNCHANGED <<time, users, token, limit, row, passed, loggedOut>>

SessionRefused(r) ==
  LET t == token[handler[r].token] IN
  /\ ReqAt(r, "resolve") /\ handler[r].op = "use"
  /\ t.revoked \/ t.expires <= handler[r].now
  /\ RaiseError(r)

(* revoke_auth_session: an unlocked SELECT, too. *)
LoadForLogout(r) ==
  LET t == token[handler[r].token] IN
  /\ ReqAt(r, "resolve") /\ handler[r].op = "logout"
  /\ handler' = [handler EXCEPT ![r].loaded = t,
       ![r].pc = IF t.revoked THEN "flushed" ELSE "update"]
  /\ UNCHANGED <<time, users, token, limit, row, passed, loggedOut>>

(* The UPDATE waits for another that is not committed. *)
UpdateToken(r) ==
  /\ ReqAt(r, "update")
  /\ row[handler[r].token] = Nil
  /\ row' = [row EXCEPT ![handler[r].token] = r]
  /\ Goto(r, "flushed")
  /\ UNCHANGED <<time, users, token, limit, passed, loggedOut>>

-----------------------------------------------------------------------------
(* The end of a request *)

(* Mutant: UPDATE of every column of the row that was loaded. *)
UpdatedWholeRow(r) ==
  IF handler[r].op = "use"
  THEN [handler[r].loaded EXCEPT !.seen = handler[r].now]
  ELSE [handler[r].loaded EXCEPT !.revoked = TRUE]

(* UPDATE sets the one column that was changed. *)
UpdatedRow(r) ==
  IF handler[r].op = "use"
  THEN [token[handler[r].token] EXCEPT !.seen = handler[r].now]
  ELSE [token[handler[r].token] EXCEPT !.revoked = TRUE]

NewRow(r) ==
  [expires |-> handler[r].now + SessionLife, revoked |-> FALSE,
   seen |-> handler[r].now]

CommitRequest(r) ==
  LET t == handler[r].token IN
  /\ ReqAt(r, "flushed")
  /\ users' =
       users \cup IF handler[r].op = "register" THEN {handler[r].account} ELSE {}
  /\ token' = [token EXCEPT ![t] =
       IF handler[r].op \in Attempts THEN NewRow(r)
       ELSE IF row[t] = r THEN UpdatedRow(r) ELSE @]
  /\ row' = [row EXCEPT ![t] = IF @ = r THEN Nil ELSE @]
  /\ handler' = [handler EXCEPT ![r] =
       [Resting EXCEPT !.pc = "committed", !.op = handler[r].op,
                       !.token = t, !.late = handler[r].late]]
  /\ UNCHANGED <<time, limit, passed, loggedOut>>

(* The response, which may not arrive. *)
Respond(r) ==
  /\ ReqAt(r, "committed")
  /\ loggedOut' =
       loggedOut \cup IF handler[r].op = "logout" THEN {handler[r].token} ELSE {}
  /\ handler' = [handler EXCEPT ![r] = Resting]
  /\ UNCHANGED <<time, users, token, limit, row, passed>>

(* Mutant: a request waits for a connection as long as it takes. *)
WaitForEver(r) == ReqAt(r, "connect") /\ PoolSize = 0 /\ RaiseError(r)

(* QueuePool's timeout: nobody gave a connection back in time. *)
PoolTimeout(r) ==
  /\ handler[r].pc \in {"connect", "limit", "clear"}
  /\ Free = 0
  /\ RaiseError(r)

(* An exception, a lost connection, a cancelled request. *)
Rollback(r) ==
  /\ handler[r].pc \notin {"idle", "committed"}
  /\ RaiseError(r)

TimePasses ==
  /\ time < MaxTime
  /\ time' = time + 1
  /\ UNCHANGED <<users, token, limit, row, handler, passed, loggedOut>>

(* Statements that wait for nobody, and those that wait for a connection   *)
(* or a row.                                                               *)
Running(r) ==
  \/ ConsumeRateLimit(r) \/ ClearRateLimit(r)
  \/ IdentityConflict(r) \/ InvalidCredentials(r)
  \/ \E t \in Tokens : AuthenticateUser(r, t)
  \/ ResolveAuthSession(r) \/ SessionRefused(r) \/ LoadForLogout(r)
  \/ CommitRequest(r) \/ Respond(r)

Granted(r) ==
  \/ Connect(r) \/ ConnectAgain(r)
  \/ \E t \in Tokens : RegisterUser(r, t)
  \/ UpdateToken(r)

AuthNext ==
  \/ TimePasses
  \/ \E r \in Handlers :
       \/ \E a \in Accounts, right \in BOOLEAN :
            \/ BeginLogin(r, a, a.email, right)
            \/ BeginLogin(r, a, a.username, right)
       \/ \E a \in Accounts : BeginRegister(r, a)
       \/ \E op \in {"use", "logout"}, t \in Tokens : BeginWithToken(r, op, t)
       \/ Running(r)
       \/ Granted(r)
       \/ PoolTimeout(r)
       \/ Rollback(r)

AuthSpec == AuthInit /\ [][AuthNext]_authVars

(* A request runs on, connections and row locks are granted in the order   *)
(* they were asked for, and the pool gives up when none is returned.       *)
Fairness ==
  \A r \in Handlers :
    /\ WF_authVars(Running(r))
    /\ SF_authVars(Granted(r))
    /\ WF_authVars(PoolTimeout(r))

FairAuthSpec == AuthSpec /\ Fairness
-----------------------------------------------------------------------------
(* Properties *)

(* "The limit decision is raised only after the transaction exits          *)
(* successfully so a 401/409 response cannot roll the counter back with    *)
(* the request transaction": between two resets of a counter, by a sign-in *)
(* that succeeded or by a new window, no more attempts than the limit are  *)
(* let through, however they overlap, fail and roll back.                  *)
AttemptsAreCounted ==
  \A k \in RateKeys :
    /\ passed[k] <= AttemptLimit
    /\ limit[k] # Nil => passed[k] <= limit[k].attempts

(* An email and a username belong to one account, though two requests may  *)
(* register them at the same time; so authenticate_user finds one row.     *)
OneAccountPerIdentity ==
  \A a, b \in users : Overlap(a, b) => a = b

(* After the answer to a sign-out no request with its token is let in.     *)
LogoutIsFinal ==
  \A r \in Handlers :
    handler[r].op = "use" /\ handler[r].late =>
      handler[r].pc \notin {"update", "flushed", "committed"}

(* A revoked token stays revoked: the update of last_seen_at of a request  *)
(* that loaded the row before the sign-out does not bring it back.         *)
RevokedStaysRevoked ==
  [][\A t \in Tokens : token[t] # Nil /\ token[t].revoked =>
       token'[t] # Nil /\ token'[t].revoked]_authVars

(* A sign-out is the end of its session, for good.                         *)
SignOutIsFinal == []LogoutIsFinal /\ RevokedStaysRevoked

(* Every request ends, also when sign-ins hold all connections while each  *)
(* waits for a second one.                                                 *)
EveryAuthRequestEnds == \A r \in Handlers : ~ReqAt(r, "idle") ~> ReqAt(r, "idle")
===============================================================================
