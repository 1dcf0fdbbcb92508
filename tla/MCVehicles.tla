------------------------------ MODULE MCVehicles ------------------------------
(***************************************************************************)
(* Configurations of vehicles and the vehicles of a user, for TLC.  The    *)
(* second sees of the first that the catalog changes, so a behaviour has   *)
(* the calls of one, with a trim compared as a whole and an engine of up   *)
(* to two words, or requests for a VIN.                                    *)
(***************************************************************************)
EXTENDS VehicleIdentity, UserVehicle, TLC

CONSTANTS LX, EX, V6, hybrid

MCWords ==
  [trim |-> {LX, EX}, engine |-> {V6, hybrid}]

MCInit == IdentityInit /\ Init

NoVehicles == Init /\ fits = [i \in Identities |-> {}] /\ UNCHANGED vars

MCIdentity ==
  /\ NoVehicles
  /\ \E r \in Callers :
       \/ \E i \in Descriptions : BeginResolve(r, i)
       \/ LockBaseIdentity(r) \/ ResolveProgress(r) \/ AbortCall(r)

MCVehicle == IdentityInit /\ Next /\ UNCHANGED identityVars

MCSpec == MCInit /\ [][MCIdentity \/ MCVehicle]_<<identityVars, vars>>

MCSymmetry ==
  Permutations(Callers) \cup Permutations(Identities) \cup Permutations({V6, hybrid})
===============================================================================
