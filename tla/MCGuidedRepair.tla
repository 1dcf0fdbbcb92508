---------------------------- MODULE MCGuidedRepair ----------------------------
(* GuidedRepair for model checking: two versions of a definition and small *)
(* procedures.                                                             *)
EXTENDS GuidedRepair, TLC

CONSTANTS tool, old, new

(* The new version asks for more of the tool. *)
MCManifest ==
  [v \in Definitions |-> [q \in Requirements |->
     [quantity |-> IF v = old THEN 1 ELSE 2, unit |-> "ea",
      mode |-> IF q = tool THEN "reusable" ELSE "consumed"]]]

(* Every dependency graph, cyclic ones included; the second action may be  *)
(* skipped, and needs every requirement.                                   *)
MCProcedures ==
  {[a \in Actions |-> [deps |-> graph[a], skippable |-> a = 2,
                       needs |-> IF a = 2 THEN Requirements ELSE {}]] :
     graph \in {g \in [Actions -> SUBSET Actions] : \A a \in Actions : a \notin g[a]}}

(* One action that needs the tool. *)
MCToolProcedure ==
  {[a \in Actions |-> [deps |-> {}, skippable |-> FALSE, needs |-> Requirements]]}

MCSymmetry == Permutations(Keys \ Sessions) \cup Permutations(Sessions)
===============================================================================
