--------------------------- MODULE MCAlertPipeline ---------------------------
(* AlertPipeline with the symmetry its safety runs use: handlers are alike. *)
EXTENDS AlertPipeline, TLC

SlotSymmetry == Permutations(Slots)
==============================================================================
