------------------------- MODULE MCCompanyResearch -------------------------
(* Small instances of CompanyResearch.  The requests are interchangeable    *)
(* where no liveness is checked.                                            *)
EXTENDS CompanyResearch, TLC

Symmetry == Permutations(Api)
=============================================================================
