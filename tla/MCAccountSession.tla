--------------------------- MODULE MCAccountSession ---------------------------
(***************************************************************************)
(* Two callers, one label and one cut: a root, children and successors of  *)
(* it, versions, tests and the lineage of one residual, four or five rows. *)
(***************************************************************************)
EXTENDS AccountSession, TLC

CONSTANTS o1, p, q

MCOperations == {"CARRY", "SPLIT"}
MCStatuses == {"OPEN", "SUPERSEDED"}
MCSymmetry == Permutations(Callers)
===============================================================================
