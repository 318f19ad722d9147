---------------------------- MODULE CompanyPage ----------------------------
(* The page of a company: CompanyResearch says when there is a result to be  *)
(* shown, Intelligence what such a result says.                              *)
EXTENDS CompanyResearch, Intelligence

\* Whatever sources are out of order when a company is collected, its page says
\* nothing that it would not say if all of them answered: no fact, reference or
\* conflict more, no other source cited, and no better status of the dossier (with
\* which that of the intelligence agrees), although later steps judge what earlier
\* ones left open.  The list of events is short of room: an outage takes the lost
\* events out of it and lets others in that all answers would have pushed out, never
\* more than it has taken out, and no event goes whose source has answered.  And the
\* page says that something is missing: each source that was asked and failed is
\* shown as such, and no gap disappears.
OutageInventsNothing == \A c \in collected : ConclusionsSurviveOutages

\* The legal entity of a company is not a matter of luck: when a source knows more
\* than it did at an earlier collection, in whatever order it lists what it knows,
\* or the company writes the same country in another way, which changes what GLEIF
\* is asked, the company may lose its entity, but it is never bound to another one.
\* Wikidata's entity gives way only where it was a guess from the short name.  This
\* is so while the later answer is taken as a whole, whatever was cut of the earlier
\* one: the only namesake on a page that is cut need not be the only one.
NeverBoundToAnother == \A c \in collected : ConclusionsSurviveNews
=============================================================================
