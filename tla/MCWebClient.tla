----------------------------- MODULE MCWebClient -----------------------------
(***************************************************************************)
(* The web client for TLC.  The gate, the garage form and the repair pages *)
(* share no state of the browser, so a behaviour has the steps of one.     *)
(***************************************************************************)
EXTENDS RepairWorkspaces, GarageForm, AccountGate, TLC

(* The owner goes between the resume page and each of the others, and      *)
(* between starting a repair and its readiness.                            *)
MCLinks ==
  {l \in Pages \X Pages : l[1] # l[2] /\ ("resume" \in {l[1], l[2]} \/ {l[1], l[2]} = {"start", "readiness"})}

MCInit == WebInit /\ GarageFormInit /\ AccountGateInit

MCPages ==
  /\ GarageFormInit /\ cookie = Nobody /\ AccountGateInit
  /\ WebNext
  /\ UNCHANGED <<garageVars, gateVars>>

MCGarage ==
  /\ WebInit /\ cookie = Nobody /\ AccountGateInit
  /\ GarageFormNext
  /\ UNCHANGED <<webVars, gateVars>>

MCGate ==
  /\ WebInit /\ GarageFormInit
  /\ AccountGateNext
  /\ UNCHANGED <<webVars, garageVars>>

MCSpec == MCInit /\ [][MCPages \/ MCGarage \/ MCGate]_<<webVars, garageVars, gateVars>>

(* Bound: with two repairs nothing happens elsewhere, and three functions  *)
(* run at a time only between the resume and the start page, where a       *)
(* creation overlaps the two functions of a resume page.                   *)
MCScenario ==
  /\ (\A s \in Sessions : session[s] # NoSession) =>
       clock = 0 /\ \A s \in Sessions : projection[s].device \in {Browser, NoDevice}
  /\ (\A i \in Slots : Running(i)) =>
       {page} \cup {calls[i].page : i \in Slots} \subseteq {"resume", "start"}

MCSymmetry == Permutations(Sessions)
===============================================================================
