-------------------------- MODULE MCCommunityService --------------------------
(* Small instances of CommunityService.  Requests to the Worker are            *)
(* interchangeable, as are fallback runs, sessions and cases.                  *)
EXTENDS CommunityService, TLC

Symmetry == Permutations(Worker) \union Permutations(Fallback)
              \union Permutations(Session) \union Permutations(Case)
=============================================================================
