---------------------------- MODULE SessionHistory ----------------------------
(***************************************************************************)
(* What a repair session promises about its history, with nothing said of  *)
(* leases, projections, transactions or requests: a log starts once with   *)
(* session_started, grows at its end only, by a row that may follow, under *)
(* an idempotency key the log has not used, and never changes otherwise.   *)
(* RepairSession and SessionRequests are shown to implement it.            *)
(***************************************************************************)
EXTENDS SessionLog

CONSTANTS Sessions,  \* identities of repair sessions
          Keys,      \* idempotency keys
          Devices    \* client devices

VARIABLE events      \* events[s]: the committed rows of session s

TypeOK == events \in [Sessions -> SUBSET Row(Keys, Devices)]

Init == events = [s \in Sessions |-> {}]

Start(s, k, d) ==
  /\ events[s] = {}
  /\ events' = [events EXCEPT ![s] =
       {[seq |-> 1, type |-> "session_started", key |-> k, device |-> d]}]

Extend(s, type, k, d) ==
  /\ events[s] # {}
  /\ \A e \in events[s] : e.key # k
  /\ Follows(Status(events[s]), type)
  /\ events' = [events EXCEPT ![s] = @ \cup
       {[seq |-> Latest(events[s]).seq + 1, type |-> type, key |-> k, device |-> d]}]

Next ==
  \E s \in Sessions, k \in Keys, d \in Devices :
    \/ Start(s, k, d)
    \/ \E type \in EventTypes : Extend(s, type, k, d)

Spec == Init /\ [][Next]_events
===============================================================================
