-------------------------- MODULE MCSessionRequests ---------------------------
(* SessionRequests for TLC; the constants are given in the .cfg files. *)
EXTENDS SessionRequests, FiniteSets, TLC

StatusChanges == {"session_paused", "session_resumed", "session_archived"}

Active == {r \in Requests : ~At(r, "idle")}

Asked == {req[r].op : r \in Active}

DevicesSeen ==
  ({e.device : e \in events} \cup {req[r].device : r \in Active}
     \cup {a.device : a \in {row} \ {Missing}}) \ {NoDevice}

KeysSeen == {CreationKey} \cup {e.key : e \in events} \cup {req[r].key : r \in Active}

(* Bound: either one device and no time, or one mutation beside the        *)
(* creation, and of the changes of status only the archive.                *)
MCScenario ==
  \/ /\ clock = 0 /\ Cardinality(DevicesSeen) <= 1
     /\ Asked \cap {"acquire", "takeover"} = {}
  \/ /\ Cardinality(KeysSeen) <= 2
     /\ ({e.type : e \in events} \cup Asked) \cap StatusChanges \subseteq {"session_archived"}

(* Requests, devices and the keys that create nothing are interchangeable. *)
MCSymmetry ==
  Permutations(Requests) \cup Permutations(Devices)
    \cup Permutations(Keys \ {CreationKey})
===============================================================================
