------------------------------ MODULE SessionLog ------------------------------
(***************************************************************************)
(* The rows of repair_session_events that belong to one repair session,    *)
(* and what the service computes from them.  A log is a SET of rows: the   *)
(* order is the column `sequence`, as in the table, so a gap or a          *)
(* duplicate is something a log can have and the code must rule out.       *)
(*                                                                         *)
(* The ten domain event types are one type here, "domain": the fold treats *)
(* them alike.  A row's payload and timestamps are data no property reads. *)
(***************************************************************************)
EXTENDS Integers

LIFECYCLE_EVENT_TYPES ==
  {"session_started", "session_paused", "session_resumed", "session_archived"}

DOMAIN_EVENT_TYPES == {"domain"}

EventTypes == LIFECYCLE_EVENT_TYPES \cup DOMAIN_EVENT_TYPES

Statuses == {"active", "paused", "archived"}

StatusAfterEvent(type) ==
  CASE type \in {"session_started", "session_resumed"} -> "active"
    [] type = "session_paused"                         -> "paused"
    [] OTHER                                           -> "archived"

Row(Keys, Devices) ==
  [seq: Nat \ {0}, type: EventTypes, key: Keys, device: Devices]

-----------------------------------------------------------------------------
(* ORDER BY sequence DESC LIMIT 1 *)
Latest(rows) == CHOOSE e \in rows : \A f \in rows : f.seq <= e.seq

(* The prefix of the log before sequence n. *)
Before(rows, n) == {e \in rows : e.seq < n}

LifecycleRows(rows) == {e \in rows : e.type \in LIFECYCLE_EVENT_TYPES}

(* The status the latest lifecycle row leaves; "none" before the first. *)
Status(rows) ==
  IF LifecycleRows(rows) = {}
  THEN "none"
  ELSE StatusAfterEvent(Latest(LifecycleRows(rows)).type)

(* The row types the fold accepts after a given status. *)
Follows(status, type) ==
  \/ type = "session_started" /\ status = "none"
  \/ type = "session_paused"  /\ status = "active"
  \/ type = "session_resumed" /\ status = "paused"
  \/ /\ type \in DOMAIN_EVENT_TYPES \cup {"session_archived"}
     /\ status \in {"active", "paused"}

(***************************************************************************)
(* The fold over the rows raises no REPAIR_SESSION_STATE_CORRUPT: sequence *)
(* numbers run from 1 without a gap, and each row may follow what the rows *)
(* before it leave.  This is the fold of the service written row by row;   *)
(* module ReplayAlgorithm has the loop itself and compares the two.        *)
(***************************************************************************)
Replayable(rows) ==
  /\ rows # {}
  /\ \A e, f \in rows : e.seq = f.seq => e = f
  /\ \A e \in rows : \A n \in 1..e.seq : \E f \in rows : f.seq = n
  /\ \A e \in rows : Follows(Status(Before(rows, e.seq)), e.type)
===============================================================================
