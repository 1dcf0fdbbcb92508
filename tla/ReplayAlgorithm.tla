---------------------------- MODULE ReplayAlgorithm ---------------------------
(***************************************************************************)
(* The loop of _reduce_status, iteration by iteration in the order of the  *)
(* sequence, on the logs the service writes and on what they become        *)
(* when rows are lost or altered, which a rebuild has to refuse.  It is    *)
(* compared with SessionLog's Replayable and Status, which the other       *)
(* modules use.                                                            *)
(***************************************************************************)
EXTENDS RepairSession, FiniteSets

(* Rows deleted from a log, and one row of what is left changed: still one *)
(* row per sequence number.                                                *)
Damaged(log) ==
  LET Retyped(rows) ==
        {(rows \ {e}) \cup {[e EXCEPT !.type = t]} : e \in rows, t \in EventTypes}
  IN UNION {Retyped(rows) \cup {rows} : rows \in SUBSET log}

(* What the table may hold of a session: one row per sequence number.      *)
EventTables ==
  {rows \in SUBSET Row(Keys, Devices) :
     IsFiniteSet(rows) /\ \A e, f \in rows : e.seq = f.seq => e = f}

(* The values of `current` in which the branch of a type does not raise;   *)
(* "none" is None.                                                         *)
ReadableIn(type) ==
  CASE type = "session_started" -> {"none"}
    [] type = "session_paused"  -> {"active"}
    [] type = "session_resumed" -> {"paused"}
    [] type \in DOMAIN_EVENT_TYPES \cup {"session_archived"} -> {"active", "paused"}

(* Mutant: gaps go unnoticed. *)
GapUnnoticed(expected, e) == FALSE

(* event.sequence != expected_sequence *)
Gap(expected, e) == e.seq # expected

(* REPAIR_SESSION_STATE_CORRUPT, which ends the loop.                      *)
Raised == [expected |-> 0, current |-> "corrupt"]

(* One iteration.                                                          *)
Iterate(loop, e) ==
  IF loop = Raised \/ Gap(loop.expected, e) \/ loop.current \notin ReadableIn(e.type)
  THEN Raised
  ELSE [expected |-> loop.expected + 1,
        current  |-> IF e.type \in DOMAIN_EVENT_TYPES THEN loop.current
                     ELSE StatusAfterEvent(e.type)]

(* ORDER BY sequence: the last row of a prefix is read after the others.   *)
Loop[prefix \in EventTables] ==
  IF prefix = {} THEN [expected |-> 1, current |-> "none"]
  ELSE Iterate(Loop[prefix \ {Latest(prefix)}], Latest(prefix))

ReduceStatus(rows) ==
  IF Loop[rows].current = "none" THEN "corrupt" ELSE Loop[rows].current

-----------------------------------------------------------------------------
(* Properties *)

(* The loop raises for exactly the tables that are not Replayable, and     *)
(* otherwise returns the status of the latest lifecycle row, the one that  *)
(* _ensure_projection_current expects a projection to have.                *)
FoldIsReference ==
  \A s \in Sessions : \A rows \in Damaged(events[s]) :
    ReduceStatus(rows) = IF Replayable(rows) THEN Status(rows) ELSE "corrupt"
===============================================================================
