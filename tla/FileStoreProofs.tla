-------------------------- MODULE FileStoreProofs --------------------------
(***************************************************************************)
(* Proofs about FileStore, for every set of transactions and keys.         *)
(***************************************************************************)
EXTENDS FileStore, SequenceTheorems, TLAPS

\* Memory and file differ only between the rename and the end of #write().
StateInv ==
  /\ up => exists
  /\ ~exists => file = EmptyState
  /\ up /\ stage # "swap" => memory = file
  /\ stage = "swap" => file = draft

\* The draft is one mutator ahead of memory.
DraftInv ==
  /\ stage # "idle" => memory.applied \union {Head(queue)} \subseteq draft.applied
  /\ stage \in {"write", "rename"} =>
       /\ draft.revision = memory.revision + 1
       /\ \E E, D \in SUBSET Key : draft.records = Mutated(Head(queue), memory.records, E, D)

\* Nothing is acknowledged, and so known to a caller, before it is in the file.
AckInv ==
  /\ AcknowledgedIsDurable
  /\ \A t \in Tx : known[t] \subseteq file.applied

IInv == TypeOK /\ StateInv /\ DraftInv /\ AckInv /\ SeesAcknowledged

LEMMA MutatedType ==
  ASSUME NEW t \in Tx, NEW S \in [Key -> SUBSET Tx], NEW E \in SUBSET Key, NEW D \in SUBSET Key
  PROVE  Mutated(t, S, E, D) \in [Key -> SUBSET Tx]
  BY DEF Mutated

LEMMA EmptyType == EmptyState \in Snapshot
  BY DEF EmptyState, Snapshot, NoRecords

LEMMA HeadTail ==
  ASSUME NEW q \in Seq(Tx), q # << >>
  PROVE  Head(q) \in Tx /\ Tail(q) \in Seq(Tx)
  BY HeadTailProperties

LEMMA HeadAppend ==
  ASSUME NEW q \in Seq(Tx), NEW t \in Tx
  PROVE  /\ Append(q, t) \in Seq(Tx)
         /\ Append(q, t) # << >>
         /\ q # << >> => Head(Append(q, t)) = Head(q)
  BY AppendProperties

LEMMA InitIInv == Init => IInv
  <1> SUFFICES ASSUME Init PROVE IInv
    OBVIOUS
  <1>1. TypeOK
    <2>1. [before |-> NoRecords, after |-> NoRecords]
            \in [before : [Key -> SUBSET Tx], after : [Key -> SUBSET Tx]]
      BY DEF NoRecords
    <2>2. << >> \in Seq(Tx)
      OBVIOUS
    <2>. QED
      BY <2>1, <2>2, EmptyType DEF Init, TypeOK, Outcome, Stage
  <1>2. StateInv /\ DraftInv /\ SeesAcknowledged
    BY DEF Init, StateInv, DraftInv, SeesAcknowledged
  <1>3. AckInv
    BY DEF Init, AckInv, AcknowledgedIsDurable, Acknowledged
  <1>. QED
    BY <1>1, <1>2, <1>3 DEF IInv

-----------------------------------------------------------------------------
(* Answering the oldest call *)

LEMMA AnswerType ==
  ASSUME TypeOK, queue # << >>, NEW what \in Outcome, Answer(what)
  PROVE  /\ outcome' \in [Tx -> Outcome]
         /\ queue' \in Seq(Tx)
         /\ stage' = "idle"
         /\ draft' \in Snapshot
  BY HeadTail, EmptyType DEF Answer, TypeOK

LEMMA Acknowledges ==
  ASSUME TypeOK, queue # << >>, Answer("ok")
  PROVE  Acknowledged' \subseteq Acknowledged \union {Head(queue)}
  BY HeadTail DEF Answer, TypeOK, Acknowledged

LEMMA RefusalAcknowledgesNothing ==
  ASSUME TypeOK, queue # << >>, Answer("refused")
  PROVE  Acknowledged' \subseteq Acknowledged
  BY HeadTail DEF Answer, TypeOK, Acknowledged

\* A call that is refused with file and memory unchanged, as the three failing
\* steps do it.
LEMMA RefusalStep ==
  ASSUME IInv, up, queue # << >>, stage # "swap", Answer("refused"),
         rejected' \in BOOLEAN, atFault' \in SUBSET Tx,
         UNCHANGED <<memory, exists, file, up, known, call>>
  PROVE  IInv'
  <1>1. TypeOK'
    <2>1. /\ outcome' \in [Tx -> Outcome]
          /\ queue' \in Seq(Tx)
          /\ stage' = "idle"
          /\ draft' \in Snapshot
      BY AnswerType DEF IInv, Outcome
    <2>. QED
      BY <2>1 DEF IInv, TypeOK, Stage
  <1>2. StateInv' /\ DraftInv' /\ SeesAcknowledged'
    BY DEF IInv, StateInv, DraftInv, SeesAcknowledged, Answer
  <1>3. AckInv'
    BY RefusalAcknowledgesNothing DEF IInv, AckInv, AcknowledgedIsDurable
  <1>. QED
    BY <1>1, <1>2, <1>3 DEF IInv

-----------------------------------------------------------------------------
(* The steps *)

LEMMA BootStep == ASSUME IInv, Boot PROVE IInv'
  <1>1. TypeOK'
    BY EmptyType DEF IInv, TypeOK, Boot
  <1>2. stage = "idle" /\ stage' = "idle"
    BY DEF IInv, TypeOK, Boot
  <1>3. StateInv'
    BY <1>2 DEF IInv, TypeOK, StateInv, Boot
  <1>4. DraftInv' /\ SeesAcknowledged'
    BY <1>2 DEF DraftInv, SeesAcknowledged
  <1>5. file' = file
    BY DEF IInv, StateInv, Boot
  <1>6. AckInv'
    BY <1>5 DEF IInv, AckInv, AcknowledgedIsDurable, Acknowledged, Boot
  <1>. QED
    BY <1>1, <1>3, <1>4, <1>6 DEF IInv

LEMMA CrashStep == ASSUME IInv, Crash PROVE IInv'
  <1>1. TypeOK'
    <2>1. << >> \in Seq(Tx)
      OBVIOUS
    <2>2. outcome' \in [Tx -> Outcome]
      BY DEF IInv, TypeOK, Crash, Outcome
    <2>. QED
      BY <2>1, <2>2, EmptyType DEF IInv, TypeOK, Crash, Stage
  <1>2. StateInv' /\ DraftInv' /\ SeesAcknowledged'
    BY DEF IInv, StateInv, DraftInv, SeesAcknowledged, Crash
  <1>3. Acknowledged' \subseteq Acknowledged
    BY DEF IInv, TypeOK, Acknowledged, Crash
  <1>4. AckInv'
    BY <1>3 DEF IInv, AckInv, AcknowledgedIsDurable, Crash
  <1>. QED
    BY <1>1, <1>2, <1>4 DEF IInv

LEMMA SubmitStep == ASSUME IInv, NEW t \in Tx, Submit(t) PROVE IInv'
  <1>1. /\ queue' \in Seq(Tx)
        /\ queue' # << >>
        /\ queue # << >> => Head(queue') = Head(queue)
    BY HeadAppend DEF IInv, TypeOK, Submit
  <1>2. Acknowledged' = Acknowledged /\ Acknowledged \in SUBSET Tx
    BY DEF IInv, TypeOK, Acknowledged, Submit
  <1>3. known' \in [Tx -> SUBSET Tx] /\ outcome' \in [Tx -> Outcome]
    BY <1>2 DEF IInv, TypeOK, Submit, Outcome
  <1>4. TypeOK'
    BY <1>1, <1>3 DEF IInv, TypeOK, Submit
  <1>5. stage # "idle" => Head(queue') = Head(queue)
    BY <1>1 DEF IInv, TypeOK
  <1>6. StateInv' /\ DraftInv'
    BY <1>5 DEF IInv, StateInv, DraftInv, Submit
  <1>7. AckInv'
    BY <1>2 DEF IInv, TypeOK, AckInv, AcknowledgedIsDurable, Submit
  <1>8. SeesAcknowledged'
    <2>1. stage # "idle" => Head(queue) \in Tx
      BY HeadTail DEF IInv, TypeOK
    <2>2. stage # "idle" => file.applied \subseteq draft.applied
      BY DEF IInv, TypeOK, StateInv, DraftInv
    <2>. QED
      BY <1>5, <1>7, <2>1, <2>2 DEF SeesAcknowledged, AckInv, Submit
  <1>. QED
    BY <1>4, <1>6, <1>7, <1>8 DEF IInv

LEMMA MutateStep ==
  ASSUME IInv, NEW E \in SUBSET Key, NEW D \in SUBSET Key, Mutate(E, D)
  PROVE  IInv'
  <1>1. Head(queue) \in Tx
    BY HeadTail DEF IInv, TypeOK, Mutate, Turn
  <1>2. Mutated(Head(queue), memory.records, E, D) \in [Key -> SUBSET Tx]
    BY <1>1, MutatedType DEF IInv, TypeOK, Snapshot
  <1>3. draft' \in Snapshot
    BY <1>1, <1>2 DEF IInv, TypeOK, Mutate, Snapshot
  <1>4. TypeOK'
    BY <1>3 DEF IInv, TypeOK, Mutate, Turn, Stage
  <1>5. StateInv'
    BY DEF IInv, StateInv, Mutate, Turn
  <1>6. /\ draft'.revision = memory.revision + 1
        /\ draft'.records = Mutated(Head(queue), memory.records, E, D)
        /\ draft'.applied = memory.applied \union {Head(queue)}
    BY DEF Mutate
  <1>7. DraftInv'
    BY <1>6 DEF DraftInv, Mutate
  <1>8. AckInv' /\ SeesAcknowledged'
    BY <1>1, <1>6 DEF IInv, StateInv, AckInv, AcknowledgedIsDurable, Acknowledged, SeesAcknowledged,
       Mutate, Turn
  <1>. QED
    BY <1>4, <1>5, <1>7, <1>8 DEF IInv

LEMMA FailingSteps ==
  ASSUME IInv, NEW E \in SUBSET Key, MutatorThrows(E) \/ Refuse \/ WriteFails
  PROVE  IInv'
  <1>1. /\ up /\ queue # << >> /\ stage # "swap"
        /\ Answer("refused")
        /\ UNCHANGED <<memory, exists, file, up, known, call>>
        /\ rejected' = TRUE
    BY DEF IInv, TypeOK, MutatorThrows, AfterThrow, Refuse, WriteFails, Turn
  <1>2. Head(queue) \in Tx
    BY <1>1, HeadTail DEF IInv, TypeOK
  <1>3. atFault' \in SUBSET Tx
    BY <1>2 DEF IInv, TypeOK, MutatorThrows, Refuse, WriteFails
  <1>. QED
    BY <1>1, <1>3, RefusalStep

LEMMA WriteTmpStep == ASSUME IInv, WriteTmp PROVE IInv'
  BY DEF IInv, TypeOK, Stage, StateInv, DraftInv, AckInv, AcknowledgedIsDurable, Acknowledged,
     SeesAcknowledged, WriteTmp

LEMMA RenameStep == ASSUME IInv, Rename PROVE IInv'
  <1>1. call' \in [before : [Key -> SUBSET Tx], after : [Key -> SUBSET Tx]]
    BY DEF IInv, TypeOK, Rename, Snapshot
  <1>2. TypeOK'
    BY <1>1 DEF IInv, TypeOK, Rename, Stage
  <1>3. file.applied \subseteq draft.applied
    BY DEF IInv, TypeOK, StateInv, DraftInv, Rename
  <1>4. StateInv' /\ DraftInv' /\ SeesAcknowledged'
    BY DEF IInv, TypeOK, StateInv, DraftInv, SeesAcknowledged, Rename
  <1>5. AckInv'
    BY <1>3 DEF IInv, TypeOK, AckInv, AcknowledgedIsDurable, Acknowledged, Rename
  <1>. QED
    BY <1>2, <1>4, <1>5 DEF IInv

LEMMA SwapStep == ASSUME IInv, Swap PROVE IInv'
  <1>1. queue # << >> /\ stage = "swap" /\ Answer("ok") /\ memory' = draft
    BY DEF IInv, TypeOK, Swap, Written, Installed
  <1>2. TypeOK'
    <2>1. /\ outcome' \in [Tx -> Outcome]
          /\ queue' \in Seq(Tx)
          /\ stage' = "idle"
          /\ draft' \in Snapshot
      BY <1>1, AnswerType DEF IInv, Outcome
    <2>. QED
      BY <1>1, <2>1 DEF IInv, TypeOK, Swap, Stage
  <1>3. StateInv' /\ DraftInv' /\ SeesAcknowledged'
    BY <1>1 DEF IInv, StateInv, DraftInv, SeesAcknowledged, Answer, Swap
  <1>4. Head(queue) \in file.applied
    BY <1>1 DEF IInv, StateInv, DraftInv
  <1>5. AckInv'
    BY <1>1, <1>4, Acknowledges DEF IInv, AckInv, AcknowledgedIsDurable, Swap
  <1>. QED
    BY <1>2, <1>3, <1>5 DEF IInv

-----------------------------------------------------------------------------

LEMMA NextIInv == IInv /\ [Next]_vars => IInv'
  <1> SUFFICES ASSUME IInv, [Next]_vars PROVE IInv'
    OBVIOUS
  <1>1. CASE UNCHANGED vars
    BY <1>1 DEF vars, IInv, TypeOK, StateInv, DraftInv, AckInv, AcknowledgedIsDurable,
       Acknowledged, SeesAcknowledged
  <1>2. CASE Next
    BY <1>2, BootStep, CrashStep, SubmitStep, MutateStep, FailingSteps, WriteTmpStep,
       RenameStep, SwapStep DEF Next
  <1>. QED
    BY <1>1, <1>2

LEMMA Inductive == Spec => []IInv
  BY InitIInv, NextIInv, PTL DEF Spec

\* The variables of the store keep their types, and a transaction is only under
\* way in a running process whose chain has not been rejected (transaction).
THEOREM FileStoreIsTyped == Spec => []TypeOK
  <1>1. IInv => TypeOK
    BY DEF IInv
  <1>. QED
    BY <1>1, Inductive, PTL

\* What a caller was told of survives every later crash, restart and failing
\* write (transaction, #write, init).
THEOREM AcknowledgedWritesAreDurable == Spec => []AcknowledgedIsDurable
  <1>1. IInv => AcknowledgedIsDurable
    BY DEF IInv, AckInv
  <1>. QED
    BY <1>1, Inductive, PTL

\* A mutator is given all that its caller could know of, across restarts (the
\* promise chain of transaction).
THEOREM MutatorsSeeAcknowledged == Spec => []SeesAcknowledged
  <1>1. IInv => SeesAcknowledged
    BY DEF IInv
  <1>. QED
    BY <1>1, Inductive, PTL

-----------------------------------------------------------------------------
(* Traces of a transaction *)

\* The transactions that have left something in the state s.
Touched(s) == s.applied \union UNION {s.records[k] : k \in Key}

\* Calls wait in the queue once each.
QueueInv ==
  /\ \A i \in 1 .. Len(queue) : outcome[queue[i]] = "waiting"
  /\ \A i, j \in 1 .. Len(queue) : i # j => queue[i] # queue[j]

\* Only the transaction that is being installed, and those that were answered
\* or lost after they were, have left a trace.
TraceInv ==
  /\ QueueInv
  /\ \A t \in Touched(file) \union Touched(memory) :
       outcome[t] \in {"ok", "lost"} \/ (stage = "swap" /\ t = Head(queue))
  /\ stage # "idle" => Touched(draft) \subseteq Touched(memory) \union {Head(queue)}

LEMMA EmptyTouched == Touched(EmptyState) = {}
  BY DEF Touched, EmptyState, NoRecords

LEMMA TouchedType == ASSUME NEW s \in Snapshot PROVE Touched(s) \subseteq Tx
  BY DEF Touched, Snapshot

LEMMA HeadWaits ==
  ASSUME TypeOK, QueueInv, queue # << >>
  PROVE  Head(queue) \in Tx /\ outcome[Head(queue)] = "waiting"
  <1>1. Len(queue) \in Nat /\ Len(queue) # 0 /\ Head(queue) = queue[1]
    BY HeadTailProperties, EmptySeq, LenProperties DEF TypeOK
  <1>2. 1 \in 1 .. Len(queue)
    BY <1>1
  <1>. QED
    BY <1>1, <1>2, HeadTail DEF TypeOK, QueueInv

LEMMA AnswerQueue ==
  ASSUME TypeOK, QueueInv, queue # << >>, NEW what, Answer(what)
  PROVE  /\ QueueInv'
         /\ outcome'[Head(queue)] = what
         /\ \A t \in Tx : t # Head(queue) => outcome'[t] = outcome[t]
  <1>1. /\ Len(queue) \in Nat \ {0}
        /\ Head(queue) = queue[1] /\ Head(queue) \in Tx
        /\ Len(Tail(queue)) = Len(queue) - 1
        /\ \A i \in 1 .. Len(Tail(queue)) : Tail(queue)[i] = queue[i + 1]
    BY HeadTailProperties, EmptySeq, LenProperties DEF TypeOK
  <1>2. /\ outcome'[Head(queue)] = what
        /\ \A t \in Tx : t # Head(queue) => outcome'[t] = outcome[t]
    BY <1>1 DEF TypeOK, Answer
  <1>3. queue' = Tail(queue)
    BY DEF Answer
  <1>4. \A i \in 1 .. Len(queue) : queue[i] \in Tx
    BY ElementOfSeq DEF TypeOK
  <1>5. ASSUME NEW i \in 1 .. Len(queue')
        PROVE  /\ i + 1 \in 1 .. Len(queue) /\ i + 1 # 1 /\ 1 \in 1 .. Len(queue)
               /\ queue'[i] = queue[i + 1]
    BY <1>1, <1>3
  <1>6. \A i \in 1 .. Len(queue') : outcome'[queue'[i]] = "waiting"
    <2> SUFFICES ASSUME NEW i \in 1 .. Len(queue') PROVE outcome'[queue'[i]] = "waiting"
      OBVIOUS
    <2>1. queue'[i] \in Tx /\ queue'[i] # Head(queue) /\ outcome[queue'[i]] = "waiting"
      BY <1>1, <1>4, <1>5 DEF QueueInv
    <2>. QED
      BY <1>2, <2>1
  <1>7. \A i, j \in 1 .. Len(queue') : i # j => queue'[i] # queue'[j]
    <2> SUFFICES ASSUME NEW i \in 1 .. Len(queue'), NEW j \in 1 .. Len(queue'), i # j
                 PROVE  queue'[i] # queue'[j]
      OBVIOUS
    <2>1. i + 1 # j + 1 /\ i + 1 \in 1 .. Len(queue) /\ j + 1 \in 1 .. Len(queue)
      BY <1>1, <1>3, <1>5
    <2>. QED
      BY <1>5, <2>1 DEF QueueInv
  <1>. QED
    BY <1>2, <1>6, <1>7 DEF QueueInv

LEMMA SubmitQueue ==
  ASSUME TypeOK, QueueInv, NEW t \in Tx, Submit(t)
  PROVE  /\ QueueInv'
         /\ \A u \in Tx : u # t => outcome'[u] = outcome[u]
         /\ queue # << >> => Head(queue') = Head(queue)
  <1>1. /\ Len(queue) \in Nat
        /\ Len(queue') = Len(queue) + 1
        /\ \A i \in 1 .. Len(queue) : queue'[i] = queue[i]
        /\ queue'[Len(queue) + 1] = t
    BY AppendProperties, LenProperties DEF TypeOK, Submit
  <1>2. /\ outcome'[t] = "waiting" /\ outcome[t] = "new"
        /\ \A u \in Tx : u # t => outcome'[u] = outcome[u]
    BY DEF TypeOK, Submit
  <1>3. \A i \in 1 .. Len(queue) : queue[i] \in Tx /\ queue[i] # t
    BY <1>2, ElementOfSeq DEF TypeOK, QueueInv
  <1>4. \A i \in 1 .. Len(queue') : i \in 1 .. Len(queue) \/ i = Len(queue) + 1
    BY <1>1
  <1>5. \A i \in 1 .. Len(queue') : outcome'[queue'[i]] = "waiting"
    BY <1>1, <1>2, <1>3, <1>4 DEF QueueInv
  <1>6. \A i, j \in 1 .. Len(queue') : i # j => queue'[i] # queue'[j]
    BY <1>1, <1>3, <1>4 DEF QueueInv
  <1>. QED
    BY <1>2, <1>5, <1>6, HeadAppend DEF QueueInv, TypeOK, Submit

LEMMA MutateTouches ==
  ASSUME IInv, NEW E \in SUBSET Key, NEW D \in SUBSET Key, Mutate(E, D)
  PROVE  Touched(draft') \subseteq Touched(memory) \union {Head(queue)}
  <1>1. /\ draft'.applied = memory.applied \union {Head(queue)}
        /\ draft'.records = Mutated(Head(queue), memory.records, E, D)
    BY DEF Mutate
  <1>2. \A k \in Key : draft'.records[k] \subseteq memory.records[k] \union {Head(queue)}
    BY <1>1 DEF Mutated
  <1>. QED
    BY <1>1, <1>2 DEF Touched

LEMMA FailingTrace ==
  ASSUME IInv, TraceInv, NEW E \in SUBSET Key, MutatorThrows(E) \/ Refuse \/ WriteFails
  PROVE  TraceInv'
  <1>1. /\ queue # << >> /\ stage # "swap" /\ stage' = "idle"
        /\ Answer("refused")
        /\ memory' = memory /\ file' = file
    BY DEF IInv, TypeOK, MutatorThrows, AfterThrow, Refuse, WriteFails, Turn, Answer
  <1>2. /\ QueueInv'
        /\ \A t \in Tx : t # Head(queue) => outcome'[t] = outcome[t]
    BY <1>1, AnswerQueue DEF IInv, TraceInv
  <1>3. outcome[Head(queue)] = "waiting"
    BY <1>1, HeadWaits DEF IInv, TraceInv
  <1>4. \A t \in Touched(file) \union Touched(memory) : t \in Tx /\ t # Head(queue)
    BY <1>1, <1>3, TouchedType DEF IInv, TypeOK, TraceInv
  <1>5. Touched(file') = Touched(file) /\ Touched(memory') = Touched(memory)
    BY <1>1
  <1>6. \A t \in Touched(file') \union Touched(memory') : outcome'[t] \in {"ok", "lost"}
    BY <1>1, <1>2, <1>4, <1>5 DEF TraceInv
  <1>. QED
    BY <1>1, <1>2, <1>6 DEF TraceInv, Touched

LEMMA CrashTrace == ASSUME IInv, TraceInv, Crash PROVE TraceInv'
  <1>1. queue' = << >> /\ stage' = "idle" /\ file' = file /\ memory' = EmptyState
    BY DEF Crash
  <1>2. QueueInv'
    BY <1>1 DEF QueueInv
  <1>3. \A t \in Tx : outcome'[t] = IF outcome[t] = "waiting" THEN "lost" ELSE outcome[t]
    BY DEF Crash
  <1>4. stage = "swap" => outcome[Head(queue)] = "waiting"
    BY HeadWaits DEF IInv, TypeOK, TraceInv
  <1>5. Touched(file') = Touched(file) /\ Touched(memory') = {} /\ Touched(file) \subseteq Tx
    BY <1>1, EmptyTouched, TouchedType DEF IInv, TypeOK
  <1>6. \A t \in Touched(file') \union Touched(memory') : outcome'[t] \in {"ok", "lost"}
    BY <1>3, <1>4, <1>5 DEF TraceInv
  <1>. QED
    BY <1>1, <1>2, <1>6 DEF TraceInv, Touched

LEMMA SubmitTrace == ASSUME IInv, TraceInv, NEW t \in Tx, Submit(t) PROVE TraceInv'
  <1>1. /\ QueueInv'
        /\ \A u \in Tx : u # t => outcome'[u] = outcome[u]
        /\ stage # "idle" => queue # << >> /\ Head(queue') = Head(queue)
    BY SubmitQueue DEF IInv, TypeOK, TraceInv
  <1>2. UNCHANGED <<memory, file, draft, stage>> /\ outcome[t] = "new"
    BY DEF Submit
  <1>3. stage # "idle" => outcome[Head(queue)] = "waiting"
    BY <1>1, HeadWaits DEF IInv, TraceInv
  <1>4. \A u \in Touched(file) \union Touched(memory) : u \in Tx /\ u # t
    BY <1>2, <1>3, TouchedType DEF IInv, TypeOK, TraceInv
  <1>5. /\ Touched(file') = Touched(file)
        /\ Touched(memory') = Touched(memory)
        /\ Touched(draft') = Touched(draft)
    BY <1>2
  <1>. QED
    BY <1>1, <1>2, <1>4, <1>5 DEF TraceInv, Touched

LEMMA BootTrace == ASSUME IInv, TraceInv, Boot PROVE TraceInv'
  <1>1. /\ stage = "idle" /\ stage' = "idle" /\ queue' = queue /\ outcome' = outcome
        /\ file' = file
        /\ memory' = file \/ memory' = EmptyState
    BY DEF IInv, TypeOK, StateInv, Boot
  <1>2. Touched(file') = Touched(file) /\ (Touched(memory') = Touched(file) \/ Touched(memory') = {})
    BY <1>1, EmptyTouched
  <1>. QED
    BY <1>1, <1>2 DEF TraceInv, QueueInv, Touched

LEMMA MutateTrace ==
  ASSUME IInv, TraceInv, NEW E \in SUBSET Key, NEW D \in SUBSET Key, Mutate(E, D)
  PROVE  TraceInv'
  <1>1. /\ stage = "idle" /\ stage' = "write"
        /\ UNCHANGED <<memory, file, queue, outcome>>
    BY DEF Mutate, Turn
  <1>2. Touched(draft') \subseteq Touched(memory) \union {Head(queue)}
    BY MutateTouches
  <1>3. Touched(file') = Touched(file) /\ Touched(memory') = Touched(memory)
    BY <1>1
  <1>. QED
    BY <1>1, <1>2, <1>3 DEF TraceInv, QueueInv, Touched

LEMMA RenameTrace == ASSUME IInv, TraceInv, Rename PROVE TraceInv'
  <1>1. /\ stage = "rename" /\ stage' = "swap" /\ file' = draft
        /\ UNCHANGED <<memory, queue, outcome, draft>>
    BY DEF Rename
  <1>2. Touched(file') = Touched(draft) /\ Touched(memory') = Touched(memory)
    BY <1>1
  <1>. QED
    BY <1>1, <1>2 DEF TraceInv, QueueInv, Touched

LEMMA SwapTrace == ASSUME IInv, TraceInv, Swap PROVE TraceInv'
  <1>1. /\ queue # << >> /\ stage = "swap" /\ stage' = "idle" /\ Answer("ok")
        /\ memory' = file /\ file' = file
    BY DEF IInv, TypeOK, StateInv, Swap, Written, Installed, Answer
  <1>2. /\ QueueInv' /\ outcome'[Head(queue)] = "ok"
        /\ \A t \in Tx : t # Head(queue) => outcome'[t] = outcome[t]
    BY <1>1, AnswerQueue DEF IInv, TraceInv
  <1>3. Touched(file') = Touched(file) /\ Touched(memory') = Touched(file) /\ Touched(file) \subseteq Tx
    BY <1>1, TouchedType DEF IInv, TypeOK
  <1>4. \A t \in Touched(file') \union Touched(memory') : outcome'[t] \in {"ok", "lost"}
    BY <1>1, <1>2, <1>3 DEF TraceInv
  <1>. QED
    BY <1>1, <1>2, <1>4 DEF TraceInv, Touched

LEMMA TraceStep == IInv /\ TraceInv /\ [Next]_vars => TraceInv'
  <1> SUFFICES ASSUME IInv, TraceInv, [Next]_vars PROVE TraceInv'
    OBVIOUS
  <1>1. CASE UNCHANGED vars
    BY <1>1 DEF vars, TraceInv, QueueInv, Touched
  <1>2. CASE WriteTmp
    BY <1>2 DEF WriteTmp, TraceInv, QueueInv, Touched
  <1>3. CASE Next
    BY <1>2, <1>3, BootTrace, CrashTrace, SubmitTrace, MutateTrace, FailingTrace, RenameTrace,
       SwapTrace DEF Next
  <1>. QED
    BY <1>1, <1>3

\* What a refused transaction did is nowhere and comes back after no restart:
\* not what its mutator had edited when it threw, not a state whose write or
\* rename failed (transaction, #write, init).
THEOREM RefusalsLeaveNoTrace == Spec => []RefusedLeavesNoTrace
  <1>1. Init => TraceInv
    BY EmptyTouched DEF Init, TraceInv, QueueInv
  <1>2. IInv /\ TraceInv => RefusedLeavesNoTrace
    <2> SUFFICES ASSUME IInv, TraceInv, NEW t \in Tx, outcome[t] = "refused"
                 PROVE  t \notin Touched(file) \union Touched(memory)
      BY DEF RefusedLeavesNoTrace, Touched
    <2>1. stage = "swap" => outcome[Head(queue)] = "waiting"
      BY HeadWaits DEF IInv, TypeOK, TraceInv
    <2>. QED
      BY <2>1 DEF TraceInv
  <1>. QED
    BY <1>1, <1>2, TraceStep, Inductive, PTL DEF Spec

-----------------------------------------------------------------------------

\* Clone, mutator, temporary file, rename and swap are one atomic step of
\* AtomicStore, the rename; everything else is a stutter.
THEOREM FileImplementsAtomicStore == Spec => ImplementsAtomicStore
  <1>1. Init => Atomic!Init
    BY DEF Init, Atomic!Init, EmptyState, NoRecords, Atomic!NoRecords
  <1>2. IInv /\ [Next]_vars => [Atomic!Next]_(Atomic!storeVars)
    <2> SUFFICES ASSUME IInv, [Next]_vars PROVE [Atomic!Next]_(Atomic!storeVars)
      OBVIOUS
    <2>1. CASE Rename
      <3>1. Head(queue) \in Tx
        BY <2>1, HeadTail DEF IInv, TypeOK, Rename
      <3>2. PICK E, D \in SUBSET Key : draft.records = Mutated(Head(queue), memory.records, E, D)
        BY <2>1 DEF IInv, DraftInv, Rename
      <3>3. memory = file /\ draft.revision = memory.revision + 1
        BY <2>1 DEF IInv, StateInv, DraftInv, Rename
      <3>4. Atomic!Apply(Head(queue), E, D)
        BY <2>1, <3>2, <3>3 DEF Atomic!Apply, Rename, Mutated, Atomic!Mutated
      <3>. QED
        BY <3>1, <3>4 DEF Atomic!Next
    <2>2. CASE Boot
      <3>1. file' = file /\ call' = call
        BY <2>2 DEF IInv, StateInv, Boot
      <3>. QED
        BY <3>1 DEF Atomic!storeVars
    <2>. QED
      BY <2>1, <2>2 DEF Next, vars, Atomic!storeVars, Crash, Submit, MutatorThrows, Mutate, Refuse,
         WriteTmp, WriteFails, Swap
  <1>. QED
    BY <1>1, <1>2, Inductive, PTL DEF Spec, ImplementsAtomicStore, Atomic!Spec
=============================================================================
