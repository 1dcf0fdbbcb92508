--------------------------- MODULE MCRepairSession ----------------------------
(* RepairSession for TLC, with the fold its rebuild rests on; the          *)
(* constants are given in the .cfg.                                        *)
EXTENDS ReplayAlgorithm, TLC

(* Devices are interchangeable, and so are the keys that create no session. *)
MCSymmetry == Permutations(Devices) \cup Permutations(Keys \ Sessions)
===============================================================================
