------------------------------ MODULE MCOrderFlow ------------------------------
(* Small instances of OrderFlow for TLC. *)
EXTENDS OrderFlow

ScriptSymmetry == Permutations(Scripts)
=============================================================================
