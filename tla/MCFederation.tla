----------------------------- MODULE MCFederation -----------------------------
(* Small instances of Federation.  Exporters are interchangeable. *)
EXTENDS Federation, TLC

Symmetry == Permutations(Exporter)
=============================================================================
