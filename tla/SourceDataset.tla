--------------------------- MODULE SourceDataset ---------------------------
(***************************************************************************)
(* What an instance that publishes promises about its data set, on which   *)
(* the chain of snapshots rests: a version has one text for ever, a row    *)
(* that is in the data set stays as it is until it is released again or    *)
(* leaves, and only a release brings it in.                                *)
(***************************************************************************)
EXTENDS Naturals

CONSTANT Record

VARIABLES version,  \* how often a record was written, 0 before it exists
          text,     \* what its owner wrote
          verdict,  \* what the reviewers added to it
          listed    \* the records in the public data set

datasetVars == <<version, text, verdict, listed>>

Others(r, before, after) == \A q \in Record \ {r} : after[q] = before[q]

DatasetInit == version = [r \in Record |-> 0] /\ listed = {}

\* Its owner writes or rewrites r, which has to be released anew.
Write(r) ==
  /\ version' = [version EXCEPT ![r] = @ + 1]
  /\ Others(r, text, text') /\ Others(r, verdict, verdict')
  /\ listed' = listed \ {r}

\* r comes in, or is released again as it stands.
ListAgain(r) ==
  /\ version[r] > 0
  /\ Others(r, verdict, verdict')
  /\ listed' = listed \union {r}
  /\ UNCHANGED <<version, text>>

\* r is judged, corrected or withdrawn, and is not in the data set after that.
TakeOut(r) ==
  /\ Others(r, verdict, verdict')
  /\ listed' = listed \ {r}
  /\ UNCHANGED <<version, text>>

DatasetNext == \E r \in Record : Write(r) \/ ListAgain(r) \/ TakeOut(r)

DatasetSpec == DatasetInit /\ [][DatasetNext]_datasetVars
=============================================================================
