---------------------------- MODULE AtomicStore ----------------------------
(***************************************************************************)
(* What both stores of the repository promise their callers:               *)
(* transaction(mutator) runs the mutator on the latest accepted state, one *)
(* transaction at a time, installs everything the mutator changed or       *)
(* nothing, and raises state.revision by one.  D1Store (the production     *)
(* adapter) and FileStore (the self-host adapter) are shown to implement   *)
(* this specification.                                                     *)
(*                                                                         *)
(* A record is abstracted to the set of transactions whose edits it        *)
(* carries; {} is a record that does not exist.                            *)
(***************************************************************************)
EXTENDS Naturals

CONSTANTS Key,    \* the records (collection, id) of the state
          Tx      \* the transactions

VARIABLES records,    \* the accepted records
          revision,   \* state.revision
          call        \* history: what the latest accepted mutator was given and
              \* what it returned

storeVars == <<records, revision, call>>

NoRecords == [k \in Key |-> {}]

\* The state a mutator of transaction t returns when it is given the state S,
\* edits the records of E and deletes the records of D.
Mutated(t, S, E, D) ==
  [k \in Key |-> IF k \in D THEN {} ELSE IF k \in E THEN S[k] \union {t} ELSE S[k]]

TypeOK ==
  /\ records \in [Key -> SUBSET Tx]
  /\ revision \in Nat
  /\ call \in [before : [Key -> SUBSET Tx], after : [Key -> SUBSET Tx]]

Init ==
  /\ records = NoRecords
  /\ revision = 0
  /\ call = [before |-> NoRecords, after |-> NoRecords]

Apply(t, E, D) ==
  /\ call' = [before |-> records, after |-> Mutated(t, records, E, D)]
  /\ records' = Mutated(t, records, E, D)
  /\ revision' = revision + 1

Next == \E t \in Tx, E \in SUBSET Key, D \in SUBSET Key : Apply(t, E, D)

Spec == Init /\ [][Next]_storeVars
=============================================================================
