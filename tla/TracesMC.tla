------------------------------ MODULE TracesMC ------------------------------
(* Traces with pipelines and elements that may be exchanged. *)
EXTENDS Traces, TLC

Symmetry == Permutations(Pipelines) \cup Permutations(Elements)
=============================================================================
