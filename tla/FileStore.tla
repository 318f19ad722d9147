----------------------------- MODULE FileStore -----------------------------
(***************************************************************************)
(* sites-app/src/storage.mjs: the store of a self-hosted instance.  One    *)
(* process keeps the state in memory, runs the transactions one after the  *)
(* other on a chain of promises and replaces the file by a rename.         *)
(*                                                                         *)
(* All mutators of server.mjs are synchronous, so the clone of the state   *)
(* and the mutator are one step.  A mutator refuses its input by throwing. *)
(***************************************************************************)
EXTENDS Naturals, Sequences, FiniteSets

CONSTANTS Tx,   \* transactions, each called once
          Key   \* the records of the state

VARIABLES
  memory,     \* this.state
  exists,     \* this.file exists
  file,       \* its contents
  queue,      \* calls of transaction() that are not answered, oldest first
  stage,      \* where the oldest of them is
  draft,      \* transaction(): the local variable draft
  rejected,   \* this.queue is a rejected promise
  up,         \* the process runs
  outcome,    \* what the caller of each transaction has been told
  known,      \* history: the writes acknowledged when a transaction was called
  atFault,    \* history: transactions whose own mutator or write failed
  call        \* history: what the mutator of the latest renamed draft was
              \* given and what it returned

vars == <<memory, exists, file, queue, stage, draft, rejected, up, outcome, known, atFault, call>>

Stage   == {"idle", "write", "rename", "swap"}
Outcome == {"new", "waiting", "ok", "refused", "lost"}

NoRecords  == [k \in Key |-> {}]
\* applied: the transactions that led to this state.
Snapshot   == [revision : Nat, records : [Key -> SUBSET Tx], applied : SUBSET Tx]
EmptyState == [revision |-> 0, records |-> NoRecords, applied |-> {}]

Acknowledged == {t \in Tx : outcome[t] = "ok"}

TypeOK ==
  /\ memory \in Snapshot
  /\ exists \in BOOLEAN
  /\ file \in Snapshot
  /\ queue \in Seq(Tx)
  /\ stage \in Stage
  /\ draft \in Snapshot
  /\ rejected \in BOOLEAN
  /\ up \in BOOLEAN
  /\ outcome \in [Tx -> Outcome]
  /\ known \in [Tx -> SUBSET Tx]
  /\ atFault \subseteq Tx
  /\ call \in [before : [Key -> SUBSET Tx], after : [Key -> SUBSET Tx]]
  /\ stage # "idle" => up /\ ~rejected /\ queue # << >>

Init ==
  /\ memory = EmptyState
  /\ exists = FALSE
  /\ file = EmptyState
  /\ queue = << >>
  /\ stage = "idle"
  /\ draft = EmptyState
  /\ rejected = FALSE
  /\ up = FALSE
  /\ outcome = [t \in Tx |-> "new"]
  /\ known = [t \in Tx |-> {}]
  /\ atFault = {}
  /\ call = [before |-> NoRecords, after |-> NoRecords]

-----------------------------------------------------------------------------
(* The process *)

\* init(): the file is read, or created from an empty state.  An error of
\* either ends the process without any change.
Boot ==
  /\ ~up
  /\ up' = TRUE
  /\ exists' = TRUE
  /\ \/ exists /\ memory' = file /\ UNCHANGED file
     \/ ~exists /\ memory' = EmptyState /\ file' = EmptyState
  /\ UNCHANGED <<queue, stage, draft, rejected, outcome, known, atFault, call>>

\* The process ends: everything but the file is gone, callers lose the
\* connection.  A temporary file that was being written is never read again.
Crash ==
  /\ up
  /\ up' = FALSE
  /\ memory' = EmptyState /\ draft' = EmptyState
  /\ queue' = << >> /\ stage' = "idle" /\ rejected' = FALSE
  /\ outcome' = [t \in Tx |-> IF outcome[t] = "waiting" THEN "lost" ELSE outcome[t]]
  /\ UNCHANGED <<exists, file, known, atFault, call>>

-----------------------------------------------------------------------------
(* transaction() *)

\* this.queue.then(...): the call waits for its turn.
Submit(t) ==
  /\ up
  /\ outcome[t] = "new"
  /\ outcome' = [outcome EXCEPT ![t] = "waiting"]
  /\ known' = [known EXCEPT ![t] = Acknowledged]
  /\ queue' = Append(queue, t)
  /\ UNCHANGED <<memory, exists, file, stage, draft, rejected, up, atFault, call>>

\* The oldest call is answered and the next one has its turn.
Answer(what) ==
  /\ outcome' = [outcome EXCEPT ![Head(queue)] = what]
  /\ queue' = Tail(queue)
  /\ stage' = "idle"
  /\ draft' = EmptyState

\* Mutant of Turn: the handlers run on after an error.
TurnAfterError == up /\ queue # << >> /\ stage = "idle"

\* The oldest call has its turn; a rejected promise runs no then-handler.
Turn == up /\ queue # << >> /\ stage = "idle" /\ ~rejected

\* The mutators of AtomicStore.
Mutated(t, S, E, D) ==
  [k \in Key |-> IF k \in D THEN {} ELSE IF k \in E THEN S[k] \union {t} ELSE S[k]]

\* The mutator returns, the revision is raised.
Mutate(E, D) ==
  /\ Turn
  /\ LET t == Head(queue)
     IN  draft' = [revision |-> memory.revision + 1,
                   records |-> Mutated(t, memory.records, E, D),
                   applied |-> memory.applied \union {t}]
  /\ stage' = "write"
  /\ UNCHANGED <<memory, exists, file, queue, rejected, up, outcome, known, atFault, call>>

\* Mutant of AfterThrow: the mutator works on this.state, not on a clone.
AfterThrowNoClone(E) ==
  [memory EXCEPT !.records = Mutated(Head(queue), memory.records, E, {})]

\* this.state after a mutator that threw in the middle of its edits E.
AfterThrow(E) == memory

\* The mutator throws: the chain is rejected and stays so.
MutatorThrows(E) ==
  /\ Turn
  /\ memory' = AfterThrow(E)
  /\ Answer("refused")
  /\ rejected' = TRUE
  /\ atFault' = atFault \union {Head(queue)}
  /\ UNCHANGED <<exists, file, up, known, call>>

\* Every later call is told the error of the one that failed.
Refuse ==
  /\ up /\ queue # << >> /\ rejected
  /\ Answer("refused")
  /\ UNCHANGED <<memory, exists, file, rejected, up, known, atFault, call>>

\* #write(): the temporary file is complete.
WriteTmp ==
  /\ up /\ stage = "write"
  /\ stage' = "rename"
  /\ UNCHANGED <<memory, exists, file, queue, draft, rejected, up, outcome, known, atFault, call>>

\* #write(): writing the temporary file or renaming it fails.
WriteFails ==
  /\ up /\ stage \in {"write", "rename"}
  /\ Answer("refused")
  /\ rejected' = TRUE
  /\ atFault' = atFault \union {Head(queue)}
  /\ UNCHANGED <<memory, exists, file, up, known, call>>

\* #write(): the rename replaces the file; an error of chmod() is swallowed.
Rename ==
  /\ up /\ stage = "rename"
  /\ file' = draft
  /\ call' = [before |-> memory.records, after |-> draft.records]
  /\ stage' = "swap"
  /\ UNCHANGED <<memory, exists, queue, draft, rejected, up, outcome, known, atFault>>

\* Mutants: the caller is answered while the rename is still under way; the
\* new state is not installed in memory.
WrittenTooEarly == stage \in {"rename", "swap"}
InstalledNot == memory

\* #write() has returned.
Written == stage = "swap"

\* this.state = draft
Installed == draft

\* The draft becomes what read() returns, and the caller is answered.
Swap ==
  /\ up /\ Written
  /\ memory' = Installed
  /\ Answer("ok")
  /\ UNCHANGED <<exists, file, rejected, up, known, atFault, call>>

-----------------------------------------------------------------------------

Next ==
  \/ Boot \/ Crash
  \/ \E t \in Tx : Submit(t)
  \/ \E E \in SUBSET Key : MutatorThrows(E)
  \/ \E E \in SUBSET Key, D \in SUBSET Key : E \intersect D = {} /\ Mutate(E, D)
  \/ Refuse \/ WriteTmp \/ WriteFails \/ Rename \/ Swap

Spec == Init /\ [][Next]_vars

-----------------------------------------------------------------------------
(* Properties *)

\* A write its caller was told of is in the file, whatever happens after the
\* answer: #write() ends with the rename, and the rename comes before the
\* caller is answered (transaction, #write, init).
AcknowledgedIsDurable == Acknowledged \subseteq file.applied

\* A refused transaction has changed nothing that anybody can ever read, nor
\* will it after a restart: the mutator worked on a clone, and a failing write
\* has not reached the file (transaction, #write).
RefusedLeavesNoTrace ==
  \A t \in Tx : outcome[t] = "refused" =>
    /\ t \notin memory.applied \union file.applied
    /\ \A k \in Key : t \notin memory.records[k] \union file.records[k]

\* A mutator is given every write that had been acknowledged when its
\* transaction was called, restarts in between or not (the promise chain).
SeesAcknowledged ==
  stage # "idle" => known[Head(queue)] \subseteq draft.applied

\* The file is an atomic store.
Atomic == INSTANCE AtomicStore WITH records <- file.records, revision <- file.revision
ImplementsAtomicStore == Atomic!Spec

\* "Existing functions work": a caller is refused only for its own mutator or
\* write.  this.queue stays rejected after the first error, so every later
\* transaction is refused with the error of a stranger until a restart.
RefusedOnlyForItself ==
  \A t \in Tx : outcome[t] = "refused" => t \in atFault
=============================================================================
