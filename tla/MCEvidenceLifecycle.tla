------------------------ MODULE MCEvidenceLifecycle ------------------------
(* Small instances of EvidenceLifecycle. *)
EXTENDS EvidenceLifecycle, TLC

Input(public, share, rights, scoped, sources) ==
  [public |-> public, shareConsent |-> share, rights |-> rights, scoped |-> scoped,
   sources |-> sources]

\* A full claim with two sources, one without scope that may not be shared, one
\* whose sharing validation refuses, and one that is not public.
MCForm == {
  Input(TRUE, TRUE, "own_summary", TRUE, <<"other", "official_decision">>),
  Input(TRUE, FALSE, "reference_only", FALSE, <<"other">>),
  Input(TRUE, TRUE, "reference_only", TRUE, <<"other">>),
  Input(FALSE, TRUE, "own_summary", TRUE, << >>) }

\* Sound although Init fills the records that are still ABSENT with one chosen
\* user and item: nothing reads the owner of such a record.
Symmetry == Permutations(User) \union Permutations(Desk) \union Permutations(Flag)
=============================================================================
