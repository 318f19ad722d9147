---------------------------- MODULE MCFileStore ----------------------------
(* Small instances of FileStore.  Transactions and keys are interchangeable. *)
EXTENDS FileStore, TLC

Symmetry == Permutations(Tx) \union Permutations(Key)
=============================================================================
