----------------------------- MODULE MCD1Store -----------------------------
(* Small instances of D1Store.  Isolates and keys are interchangeable where *)
(* no liveness is checked.                                                  *)
EXTENDS D1Store, TLC

Symmetry == Permutations(Proc) \union Permutations(Key)
=============================================================================
