--------------------------- MODULE SessionLogProofs ---------------------------
(***************************************************************************)
(* Lemmas about the log operators of SessionLog: what the latest row is,   *)
(* and what adding a row at the end of a replayable log preserves.         *)
(***************************************************************************)
EXTENDS SessionLog, WellFoundedInduction, TLAPS

(* Sequence numbers and positions: of some naturals, one is the least. *)
LEMMA LeastNatural ==
  ASSUME NEW T \in SUBSET Nat, T # {}
  PROVE  \E x \in T : \A y \in T : x <= y
<1> DEFINE R == {pair \in Nat \X Nat : pair[1] < pair[2]}
<1>1. IsWellFoundedOn(R, Nat)
  BY NatLessThanWellFounded DEF OpToRel
<1> HIDE DEF R
<1>2. PICK x \in T : \A y \in T : <<y, x>> \notin R
  BY <1>1, WFMin
<1>3. \A y \in T : y \in Nat /\ x \in Nat /\ (y < x => <<y, x>> \in R)
  BY DEF R
<1>4. \A y \in T : x <= y
  <2> TAKE y \in T
  <2>1. y \in Nat /\ x \in Nat /\ ~(y < x)
    BY <1>2, <1>3
  <2>2. QED
    BY <2>1
<1>5. QED
  BY <1>4

(* A finite nonempty log has a last row; stated as what the proofs use.    *)
HasHead(rows) == \E h \in rows : \A f \in rows : f.seq <= h.seq

(* ORDER BY sequence DESC LIMIT 1 finds the last row. *)
LEMMA LatestIsLast ==
  ASSUME NEW rows, HasHead(rows)
  PROVE  /\ Latest(rows) \in rows
         /\ \A f \in rows : f.seq <= Latest(rows).seq
BY DEF HasHead, Latest

(* A row with the highest sequence, alone in that, is the one found. *)
LEMMA LatestIsUnique ==
  ASSUME NEW rows, NEW x \in rows,
         \A f \in rows : f.seq \in Int,
         \A f \in rows : f # x => f.seq < x.seq
  PROVE  Latest(rows) = x
<1>1. \A f \in rows : f.seq <= x.seq
  OBVIOUS
<1>2. HasHead(rows)
  BY <1>1 DEF HasHead
<1>3. Latest(rows) \in rows /\ x.seq <= Latest(rows).seq
  BY <1>2, LatestIsLast
<1>4. QED
  BY <1>3

(* A replayable log starts with session_started, so it has a status. *)
LEMMA ReplayableHasStatus ==
  ASSUME NEW Keys, NEW Devices,
         NEW rows \in SUBSET Row(Keys, Devices), Replayable(rows)
  PROVE  Status(rows) \in Statuses
<1>1. PICK e \in rows : e.seq = 1
  <2>1. PICK g \in rows : TRUE
    BY DEF Replayable
  <2>2. 1 \in 1..g.seq
    BY <2>1 DEF Row
  <2>3. QED
    BY <2>1, <2>2 DEF Replayable
<1>2. Before(rows, e.seq) = {}
  BY <1>1 DEF Before, Row
<1>3. Status(Before(rows, e.seq)) = "none"
  BY <1>2 DEF Status, LifecycleRows
<1>4. Follows("none", e.type)
  BY <1>3, <1>1 DEF Replayable
<1>5. e.type = "session_started"
  BY <1>4 DEF Follows
<1>6. LifecycleRows(rows) # {}
  BY <1>1, <1>5 DEF LifecycleRows, LIFECYCLE_EVENT_TYPES
<1>7. \A type : StatusAfterEvent(type) \in Statuses
  BY DEF StatusAfterEvent, Statuses
<1>8. QED
  BY <1>6, <1>7 DEF Status

(* In a replayable log nothing follows an archive: before each of its rows *)
(* the status is not "archived".                                           *)
LEMMA NoRowAfterArchive ==
  ASSUME NEW rows, Replayable(rows), NEW e \in rows
  PROVE  Status(Before(rows, e.seq)) # "archived"
BY DEF Replayable, Follows

(* The one row a creation inserts is a replayable log. *)
LEMMA StartReplayable ==
  ASSUME NEW Keys, NEW Devices, NEW k \in Keys, NEW d \in Devices,
         NEW e, e = [seq |-> 1, type |-> "session_started", key |-> k, device |-> d]
  PROVE  /\ {e} \in SUBSET Row(Keys, Devices)
         /\ Replayable({e})
         /\ HasHead({e})
         /\ Latest({e}) = e
         /\ Status({e}) = "active"
<1>1. e \in Row(Keys, Devices) /\ e.seq = 1 /\ e.type = "session_started"
  BY DEF Row, EventTypes, LIFECYCLE_EVENT_TYPES
<1>2. Latest({e}) = e
  BY <1>1 DEF Latest
<1>3. HasHead({e})
  BY <1>1 DEF HasHead
<1>4. LifecycleRows({e}) = {e}
  BY <1>1 DEF LifecycleRows, LIFECYCLE_EVENT_TYPES
<1>5. Status({e}) = "active"
  BY <1>1, <1>2, <1>4 DEF Status, StatusAfterEvent
<1>6. Before({e}, 1) = {}
  BY <1>1 DEF Before
<1>7. Status({}) = "none"
  BY DEF Status, LifecycleRows
<1>8. Replayable({e})
  <2>1. \A n \in 1..e.seq : n = 1
    BY <1>1
  <2>2. Follows(Status(Before({e}, e.seq)), e.type)
    BY <1>1, <1>6, <1>7 DEF Follows
  <2>3. QED
    BY <1>1, <2>1, <2>2 DEF Replayable
<1>9. QED
  BY <1>1, <1>2, <1>3, <1>5, <1>8

(* Adding the next row, of a type that may follow, keeps a log replayable, *)
(* and the new row decides the status unless it is a domain event.         *)
LEMMA ExtendReplayable ==
  ASSUME NEW Keys, NEW Devices,
         NEW rows \in SUBSET Row(Keys, Devices), Replayable(rows), HasHead(rows),
         NEW e \in Row(Keys, Devices),
         e.seq = Latest(rows).seq + 1,
         Follows(Status(rows), e.type)
  PROVE  /\ Replayable(rows \cup {e})
         /\ HasHead(rows \cup {e})
         /\ Latest(rows \cup {e}) = e
         /\ Status(rows \cup {e}) =
              IF e.type \in LIFECYCLE_EVENT_TYPES
              THEN StatusAfterEvent(e.type) ELSE Status(rows)
<1> DEFINE new == rows \cup {e}
           last == Latest(rows)
<1>1. last \in rows /\ \A f \in rows : f.seq <= last.seq
  BY LatestIsLast
<1>2. \A f \in new : f.seq \in Nat \ {0}
  BY DEF Row
<1>3. (\A f \in rows : f.seq < e.seq) /\ (\A f \in new : f.seq \in Int)
  BY <1>1, <1>2
<1>4. HasHead(new)
  BY <1>2, <1>3 DEF HasHead
<1>5. Latest(new) = e
  <2>1. e \in new
    OBVIOUS
  <2>2. \A f \in new : f.seq \in Int
    BY <1>3
  <2>3. \A f \in new : f # e => f.seq < e.seq
    BY <1>3
  <2>4. QED
    BY ONLY <2>1, <2>2, <2>3, LatestIsUnique
<1>6. ASSUME NEW f \in rows PROVE Before(new, f.seq) = Before(rows, f.seq)
  BY <1>2, <1>3 DEF Before
<1>7. Before(new, e.seq) = rows
  BY <1>2, <1>3 DEF Before
<1>8. Replayable(new)
  <2>1. \A f, g \in new : f.seq = g.seq => f = g
    BY <1>2, <1>3 DEF Replayable
  <2>2. ASSUME NEW f \in new, NEW n \in 1..f.seq PROVE \E g \in new : g.seq = n
    <3>1. CASE f \in rows
      BY <3>1 DEF Replayable
    <3>2. CASE f = e /\ n = e.seq
      BY <3>2
    <3>3. CASE f = e /\ n # e.seq
      <4>1. n \in 1..last.seq
        BY <3>3, <1>1, <1>2
      <4>2. QED
        BY <4>1, <1>1 DEF Replayable
    <3>4. QED
      BY <3>1, <3>2, <3>3
  <2>3. \A f \in new : Follows(Status(Before(new, f.seq)), f.type)
    BY <1>6, <1>7 DEF Replayable
  <2>4. QED
    BY <2>1, <2>2, <2>3 DEF Replayable
<1>9. Status(new) = IF e.type \in LIFECYCLE_EVENT_TYPES
                    THEN StatusAfterEvent(e.type) ELSE Status(rows)
  <2>1. CASE e.type \in LIFECYCLE_EVENT_TYPES
    <3>1. e \in LifecycleRows(new) /\ LifecycleRows(new) \subseteq new
      BY <2>1 DEF LifecycleRows
    <3>2. Latest(LifecycleRows(new)) = e
      <4>1. \A f \in LifecycleRows(new) : f.seq \in Int
        BY <3>1, <1>3
      <4>2. \A f \in LifecycleRows(new) : f # e => f.seq < e.seq
        BY <3>1, <1>3
      <4>3. QED
        BY ONLY <3>1, <4>1, <4>2, LatestIsUnique
    <3>3. QED
      BY <2>1, <3>1, <3>2 DEF Status
  <2>2. CASE e.type \notin LIFECYCLE_EVENT_TYPES
    <3>1. LifecycleRows(new) = LifecycleRows(rows)
      BY <2>2 DEF LifecycleRows
    <3>2. QED
      BY <2>2, <3>1 DEF Status
  <2>3. QED
    BY <2>1, <2>2
<1>10. QED
  BY <1>4, <1>5, <1>8, <1>9
===============================================================================
