---------------------------- MODULE MCRepairMemory ----------------------------
(* RepairMemory and the reorientation answers read from it; the constants  *)
(* are given in the .cfg file.                                             *)
EXTENDS Reorientation, FiniteSets, TLC

MCSymmetry ==
  Permutations(Keys \ Sessions) \cup Permutations(Devices) \cup Permutations(Photos)

CONSTANT MaxRead  \* bound: the rows of the log while an answer is put together

MCAnswers ==
  answer # None =>
    Cardinality(events[Repair]) <= MaxRead /\ job = None /\ clock = 0
===============================================================================
