--------------------------- MODULE MCDataManager ---------------------------
(***************************************************************************)
(* DataManager for TLC: writes and managers are interchangeable.           *)
(***************************************************************************)
EXTENDS DataManager, TLC

Symmetry == Permutations(Writes) \cup Permutations(Managers)
=============================================================================
