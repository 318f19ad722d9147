---------------------------- MODULE Intelligence ----------------------------
(***************************************************************************)
(* What one collection makes of a company: cloudflare-backend/src/         *)
(* company-research.mjs asks the public sources, and sites-app/src/        *)
(* autonomous-intelligence.mjs, research-status.mjs and company-dossier.mjs *)
(* decide what is shown of their answers.  A collection keeps no state of  *)
(* its own, so the module has none; CompanyResearch says when it runs and  *)
(* what becomes of its result.                                             *)
(*                                                                         *)
(* A region is the sequence of the places it names.  A candidate is a      *)
(* record: `name' is compared with the company's, `valid' is what the      *)
(* check of its number (LEI, CIK) says, `id' tells it from its namesakes.  *)
(* A website stands for its domain.  What a source knows of the name is a  *)
(* listing in the order of the source, of which the code takes the         *)
(* beginning: its limits are the fields of Limit.  The limits of           *)
(* publicAutonomousIntelligence() lie above what these let through.        *)
(* The fields that are copied to the page are left out.                    *)
(***************************************************************************)
EXTENDS Naturals, Sequences, FiniteSets

CONSTANTS LaborSource,  \* the keys of LABOR_SIGNAL_POLICY, which are treated alike
          NoCountry,    \* a region from which no country can be read
          NoSite,
          Firm,         \* companies: [name, incorporated, region, site]
          World,        \* [Source -> what the source knows]
          Limit,        \* how much of an answer is taken
          Official,     \* the kinds of official rows a company may have in the store
          Item          \* contributions: [kind, public, status]

GlobalSource == {"GLEIF", "WIKIDATA"}
UsSource     == {"SEC_EDGAR", "USA_SPENDING"} \union LaborSource
Source       == GlobalSource \union UsSource

\* The country a place stands for: its code, or one of its names.
CountryNamed == [US |-> "US", usa |-> "US", CN |-> "CN", china |-> "CN"]
CountryOf(place) ==
  IF place \in DOMAIN CountryNamed THEN CountryNamed[place] ELSE NoCountry

\* Only the place a region begins with is looked at.
countryCode(region) == IF region = <<>> THEN NoCountry ELSE CountryOf(Head(region))

\* The searches of Wikidata, in their order.
Search == {"full", "short", "english"}
Turn == [full |-> 1, short |-> 2, english |-> 3]

Entries(list) == {list[i] : i \in DOMAIN list}

\* No listing has an entry twice, but those of a labor database and those of
\* Wikidata together; there `id' tells the record, or the entity.  The region of
\* a GLEIF row is the code of a country, not its name.
ASSUME SourceAssumption ==
  /\ \A firm \in Firm : DOMAIN firm = {"name", "incorporated", "region", "site"}
  /\ IsFiniteSet(LaborSource)
  /\ LaborSource \intersect {"GLEIF", "WIKIDATA", "SEC_EDGAR", "USA_SPENDING"} = {}
  /\ NoCountry \notin {"US", "CN"}
  /\ Limit \in [candidates : Nat \ {0}, hits : Nat \ {0}, recipients : Nat \ {0}, rows : Nat \ {0},
                groups : Nat \ {0}, records : Nat \ {0}, events : Nat \ {0}, timeline : Nat \ {0}]
  /\ \A world \in World :
       /\ DOMAIN world = Source /\ DOMAIN world["WIKIDATA"] = Search
       /\ \A s \in Source \ {"WIKIDATA"} : world[s] \in Seq(Entries(world[s]))
       /\ \A s \in Search : world["WIKIDATA"][s] \in Seq(Entries(world["WIKIDATA"][s]))
       /\ \A s \in {"GLEIF", "SEC_EDGAR", "USA_SPENDING"} : \A i, j \in DOMAIN world[s] :
            world[s][i] = world[s][j] => i = j
       /\ \A row \in Entries(world["GLEIF"]) :
            countryCode(row.region) # NoCountry => row.region = <<countryCode(row.region)>>
       /\ \A s, t \in Search : \A e \in Entries(world["WIKIDATA"][s]), f \in Entries(world["WIKIDATA"][t]) :
            e.id = f.id => e = f
       /\ \A s, t \in LaborSource : \A r \in Entries(world[s]), q \in Entries(world[t]) :
            r.date \in Nat /\ r.id \in Nat /\ (r.id = q.id => r = q /\ s = t)

-----------------------------------------------------------------------------
(* company-research.mjs: asking the sources *)

\* slice(0, n) of the places of a list.
Leading(n, places) == {i \in places : Cardinality({k \in places : k < i}) < n}

\* GLEIF compares countries when it is given one, and it is given one only when
\* the region is nothing but a code.
matching(firm, rows) ==
  {i \in DOMAIN rows : firm.region \in {<<"US">>, <<"CN">>} => rows[i].region = firm.region}

\* One page of the rows that match.
gleif(firm, rows) == {rows[i] : i \in Leading(Limit.candidates, matching(firm, rows))}

\* The full name, and the name without its legal form if it has one.
companySearchVariants(firm) == {"full"} \union IF firm.incorporated THEN {"short"} ELSE {}

\* A country with another language is asked in it, and in English.
wikidataLanguages(firm) == IF countryCode(firm.region) = "CN" THEN <<"zh", "en">> ELSE <<"en">>

\* The searches: each name in the first language, then the full one in English.
searches(firm) ==
  companySearchVariants(firm) \union
  IF Len(wikidataLanguages(firm)) > 1 THEN {"english"} ELSE {}

\* The hits: a search, and a place in its list.
hits(firm, lists) ==
  {h \in searches(firm) \X (1..Limit.hits) : h[2] <= Len(lists[h[1]])}

Hit(lists, h) == lists[h[1]][h[2]]

Earlier(g, h) == Turn[g[1]] < Turn[h[1]] \/ (g[1] = h[1] /\ g[2] < h[2])

\* The hits that find an entity no earlier one has found.
found(firm, lists) ==
  {h \in hits(firm, lists) :
     \A g \in hits(firm, lists) : Hit(lists, g).id = Hit(lists, h).id => ~Earlier(g, h)}

\* The entities that are found first, each remembered with the search.
wikidata(firm, lists) ==
  {LET e == Hit(lists, h)
   IN [id |-> e.id, name |-> e.name, region |-> e.region, site |-> e.site, org |-> e.org,
       short |-> h[1] = "short"] :
     h \in {x \in found(firm, lists) :
             Cardinality({g \in found(firm, lists) : Earlier(g, x)}) < Limit.candidates}}

\* The rows of a labor database become one candidate for each name: the names with
\* the most rows, and of each the first rows.  A place stands for the name that is
\* new there.
groupCandidates(rows) ==
  LET heard == {i \in DOMAIN rows : i <= Limit.rows}
      Group(i) == {j \in heard : rows[j].name = rows[i].name}
      new == {i \in heard : \A j \in Group(i) : i <= j}
      Larger(i, j) == \/ Cardinality(Group(i)) > Cardinality(Group(j))
                      \/ Cardinality(Group(i)) = Cardinality(Group(j)) /\ i < j
      kept == {i \in new : Cardinality({j \in new : Larger(j, i)}) < Limit.groups}
  IN {[name |-> rows[i].name, records |-> [j \in Leading(Limit.records, Group(i)) |-> rows[j]]] :
        i \in kept}

Candidates(firm, world, s) ==
  CASE s = "GLEIF" -> gleif(firm, world[s])
    [] s = "WIKIDATA" -> wikidata(firm, world[s])
    [] s = "SEC_EDGAR" -> {world[s][i] : i \in Leading(Limit.candidates, DOMAIN world[s])}
    [] s = "USA_SPENDING" -> {world[s][i] : i \in Leading(Limit.recipients, DOMAIN world[s])}
    [] s \in LaborSource -> groupCandidates(world[s])

\* Mutant of providerResult: a failed request is an empty answer.
providerResultEmpty(candidates, fails) ==
  [status |-> "OK", candidates |-> IF fails THEN {} ELSE candidates]

\* A request that is redirected, refused, too late or unreadable fails the
\* whole source.
providerResult(candidates, fails) ==
  IF fails THEN [status |-> "ERROR", candidates |-> {}]
           ELSE [status |-> "OK", candidates |-> candidates]

NotApplicable == [status |-> "NOT_APPLICABLE", candidates |-> {}]

\* runBoundedProviderTasks() with its limit of 1: each source has its answer,
\* whatever became of the ones before.
Results(firm, world, down) ==
  [s \in Source |->
     IF s \in GlobalSource \/ countryCode(firm.region) = "US"
     THEN providerResult(Candidates(firm, world, s), s \in down)
     ELSE NotApplicable]

-----------------------------------------------------------------------------
(* autonomous-intelligence.mjs: what follows from the answers *)

exactCandidates(result, firm) == {c \in result.candidates : c.name = firm.name}
One(set) == CHOOSE x \in set : set = {x}
IsOne(set) == \E x \in set : set = {x}

\* Mutant of Identity: the last of several namesakes is taken.
IdentityOfSome(firm, result) ==
  LET exact == exactCandidates(result, firm)
      fitting == {c \in exact : c.valid /\ countryCode(c.region) = countryCode(firm.region)}
  IN IF result.status # "ERROR" /\ countryCode(firm.region) # NoCountry /\ fitting # {}
     THEN [status |-> "AUTO_BOUND_REFERENCE", reference |-> {CHOOSE c \in fitting : \A d \in fitting : d.id <= c.id}]
     ELSE [status |-> "NO_VERIFIED_REFERENCE", reference |-> {}]

\* The legal entity of the company, from GLEIF's answer.
Identity(firm, result) ==
  LET exact == exactCandidates(result, firm)
      home  == countryCode(firm.region)
      Unbound(why) == [status |-> why, reference |-> {}]
  IN CASE result.status = "ERROR" -> Unbound("SOURCE_GAP")
       [] result.status = "OK" /\ home = NoCountry -> Unbound("COUNTRY_HINT_REQUIRED")
       [] result.status = "OK" /\ home # NoCountry /\ exact = {} -> Unbound("NO_VERIFIED_REFERENCE")
       [] result.status = "OK" /\ home # NoCountry /\ exact # {} /\ ~IsOne(exact) -> Unbound("AMBIGUOUS")
       [] result.status = "OK" /\ home # NoCountry /\ IsOne(exact) ->
            IF ~One(exact).valid THEN Unbound("SOURCE_SCHEMA_CONFLICT")
            ELSE IF countryCode(One(exact).region) # home THEN Unbound("COUNTRY_CONFLICT")
            ELSE [status |-> "AUTO_BOUND_REFERENCE", reference |-> exact]

\* The SEC's filer of that name: a fact about an entity bound in the United
\* States, otherwise a signal.
SecFacts(firm, identity, sec) ==
  LET exact == exactCandidates(sec, firm)
  IN {c \in exact :
        /\ sec.status = "OK" /\ IsOne(exact) /\ c.valid
        /\ \E r \in identity.reference : countryCode(r.region) = "US"}

Facts(firm, identity, results) ==
  {[source |-> "GLEIF", of |-> r] : r \in identity.reference} \union
  {[source |-> "SEC_EDGAR", of |-> c] : c \in SecFacts(firm, identity, results["SEC_EDGAR"])}

\* The sources whose records with the company's name are shown as signals.
Signals(firm, identity, results) ==
  {s \in UsSource :
     /\ results[s].status = "OK"
     /\ IF s \in LaborSource THEN exactCandidates(results[s], firm) # {}
                             ELSE IsOne(exactCandidates(results[s], firm))
     /\ s = "SEC_EDGAR" => SecFacts(firm, identity, results[s]) = {}}

\* eventTimeline(): the first records with the company's name are events, each once.
Events(firm, results) ==
  UNION {UNION {{[source |-> s, of |-> c.records[i]] : i \in Leading(Limit.events, DOMAIN c.records)} :
                c \in exactCandidates(results[s], firm)} :
         s \in {t \in LaborSource : results[t].status = "OK"}}

\* A later date comes first, and among equal dates the identifier decides.
Newer(d, e) ==
  \/ d.of.date > e.of.date
  \/ d.of.date = e.of.date /\ d.of.id < e.of.id

\* What is shown of the events.
Timeline(firm, results) ==
  LET events == Events(firm, results)
  IN {e \in events : Cardinality({d \in events : Newer(d, e)}) < Limit.timeline}

SameCountry(firm, c) ==
  countryCode(firm.region) # NoCountry /\ countryCode(c.region) = countryCode(firm.region)

SameSite(firm, c) == firm.site # NoSite /\ c.site = firm.site

\* Why an entity of Wikidata may be the company.
Basis(firm, c, all) ==
  CASE SameSite(firm, c) -> "OFFICIAL_WEBSITE_DOMAIN_MATCH"
    [] ~SameSite(firm, c) /\ c.name = firm.name /\ SameCountry(firm, c) ->
         "EXACT_NAME_AND_COUNTRY_MATCH"
    [] ~SameSite(firm, c) /\ c.name # firm.name /\ SameCountry(firm, c)
         /\ c.short /\ all = {c} /\ c.site # NoSite /\ c.org ->
         "UNIQUE_CORPORATE_SHORTHAND_AND_COUNTRY"
    [] OTHER -> "NONE"

Compatible(firm, result) ==
  {c \in result.candidates : result.status = "OK" /\ Basis(firm, c, result.candidates) # "NONE"}

References(firm, result) ==
  {[basis |-> Basis(firm, c, result.candidates), of |-> c] :
     c \in {x \in Compatible(firm, result) : IsOne(Compatible(firm, result))}}

\* What is left of Wikidata's answer.
ContextCandidates(firm, result) ==
  result.candidates \ {r.of : r \in References(firm, result)}

Conflicts(firm, identity, results) ==
  LET Several(s) == exactCandidates(results[s], firm) # {} /\ ~IsOne(exactCandidates(results[s], firm))
  IN {code \in {"AMBIGUOUS", "SOURCE_SCHEMA_CONFLICT", "COUNTRY_CONFLICT"} : code = identity.status}
     \union {code \in {"COUNTRY_HINT_REQUIRED"} :
               code = identity.status /\ exactCandidates(results["GLEIF"], firm) # {}}
     \union {code \in {"MULTIPLE_EXACT_SEC_MATCHES"} : Several("SEC_EDGAR")}
     \union {code \in {"MULTIPLE_WIKIDATA_CONTEXT_MATCHES"} :
               Cardinality(Compatible(firm, results["WIKIDATA"])) > 1}

Of(results, outcome) == {s \in Source : results[s].status = outcome}

Gaps(firm, identity, results) ==
  {g \in {"LEGAL_IDENTITY_UNRESOLVED"} : identity.reference = {}} \union
  {g \in {"NO_BOUND_OPEN_CONTEXT"} : References(firm, results["WIKIDATA"]) = {}} \union
  {g \in {"SOURCE_GAPS"} : Of(results, "ERROR") # {}} \union
  {g \in {"REGION_LIMITED_SOURCES"} : Of(results, "NOT_APPLICABLE") # {}} \union
  {g \in {"NO_PUBLIC_EVENT_CANDIDATES"} :
     Timeline(firm, results) = {} /\ countryCode(firm.region) = "US"}

buildAutonomousIntelligence(firm, results) ==
  LET identity   == Identity(firm, results["GLEIF"])
      facts      == Facts(firm, identity, results)
      references == References(firm, results["WIKIDATA"])
      weak       == Signals(firm, identity, results) # {} \/ Timeline(firm, results) # {}
  IN [identity |-> identity, facts |-> facts, references |-> references,
      signals |-> Signals(firm, identity, results),
      timeline |-> Timeline(firm, results),
      others |-> ContextCandidates(firm, results["WIKIDATA"]),
      conflicts |-> Conflicts(firm, identity, results),
      gaps |-> Gaps(firm, identity, results),
      dossier |-> IF identity.reference # {} THEN "REFERENCE_READY"
                  ELSE IF references # {} THEN "CONTEXT_READY"
                  ELSE IF weak THEN "SIGNALS_READY" ELSE "LIMITED_DATA",
      status |-> IF facts # {} THEN "MACHINE_INTELLIGENCE_READY"
                 ELSE IF references # {} THEN "OPEN_CONTEXT_READY"
                 ELSE IF weak THEN "SOURCE_SIGNALS_ONLY" ELSE "CANDIDATES_ONLY"]

-----------------------------------------------------------------------------
(* The record, and the page of the company *)

\* collectCompanyResearch(): the record that CompanyResearch merges.
collectCompanyResearch(firm, world, down) ==
  LET results == Results(firm, world, down)
  IN [status |-> IF Of(results, "ERROR") # {} THEN "AUTO_READY_WITH_SOURCE_GAPS" ELSE "AUTO_READY",
      results |-> results,
      intelligence |-> buildAutonomousIntelligence(firm, results)]

\* publicCompanyResearch(): the candidates of a source become their number and
\* a few previews.
publicCompanyResearch(record) ==
  [status |-> record.status,
   sources |-> [s \in Source |->
                  [status |-> record.results[s].status,
                   count |-> Cardinality(record.results[s].candidates)]],
   intelligence |-> record.intelligence]

\* A region names China wherever it names it.
isChinaCompany(firm) == \E i \in DOMAIN firm.region : CountryOf(firm.region[i]) = "CN"

\* The kinds of contributions that are shown.
groupedContributions(items) ==
  {i.kind : i \in {x \in items : x.public /\ x.status \notin {"WITHDRAWN", "REJECTED"}}}

\* The layers that are missing: `shelf' holds the kinds of official rows and of
\* contributions there are.
buildChinaInvestigation(firm, research, shelf) ==
  {g \in {"CN_LEGAL_IDENTITY_NOT_STRICTLY_BOUND"} :
     "LEGAL_ENTITY_REGISTRY" \notin shelf /\ research.intelligence.identity.reference = {}} \union
  {g \in {"CN_LISTING_DISCLOSURE_NOT_BOUND"} : "DISCLOSURE_REGISTRY" \notin shelf} \union
  {g \in {"CN_PRODUCT_RELATION_LIMITED"} : "COMPANY_REGISTERS_PRODUCT" \notin shelf} \union
  {g \in {"CN_REGULATORY_EVENT_NO_MATCH"} :
     {"ADMINISTRATIVE_PENALTY", "REGULATORY_MEASURE"} \intersect shelf = {}} \union
  {g \in {"CN_RECALL_NO_MATCH"} : "PRODUCT_RECALL" \notin shelf} \union
  {g \in {"CN_PROCUREMENT_NOT_AUTOMATED"} : "PUBLIC_PROCUREMENT_RELATION" \notin shelf} \union
  {g \in {"CN_LABOUR_PUBLIC_DATA_LIMITED"} : "labour_claim" \notin shelf}

publicCompanyDetail(firm, record, official, items) ==
  LET research == publicCompanyResearch(record)
      shelf == official \union groupedContributions(items)
  IN [research |-> research,
      shelf |-> shelf,
      chinaGaps |-> IF isChinaCompany(firm)
                    THEN buildChinaInvestigation(firm, research, shelf) ELSE {}]

-----------------------------------------------------------------------------
(* Two conclusions compared: see CompanyPage *)

Strength == [LIMITED_DATA |-> 0, SIGNALS_READY |-> 1, CONTEXT_READY |-> 2, REFERENCE_READY |-> 3]

Shown(intelligence) ==
  intelligence.signals \union {f.source : f \in intelligence.facts}

\* What is concluded without some sources, against what is concluded with all.  Of
\* the events, some make room for others: no event appears that is not among those
\* of all answers, none disappears whose source has answered, and each that appears
\* has the place of one that is lost.
ConclusionsSurviveOutages ==
  \A firm \in Firm, world \in World :
    LET Record(down) == collectCompanyResearch(firm, world, down)
        Missing(record, official, items) == publicCompanyDetail(firm, record, official, items).chinaGaps
        all == Record({})
        a   == all.intelligence
    IN \A down \in SUBSET Source :
         LET some == Record(down)
             b    == some.intelligence
             lost == {s \in down : all.results[s].status = "OK"}
         IN /\ b.facts \subseteq a.facts
            /\ b.references \subseteq a.references
            /\ b.timeline \subseteq Events(firm, all.results)
            /\ \A e \in a.timeline : some.results[e.source].status = "OK" => e \in b.timeline
            /\ Cardinality(b.timeline \ a.timeline) <= Cardinality(a.timeline \ b.timeline)
            /\ b.conflicts \subseteq a.conflicts
            /\ Shown(b) \subseteq Shown(a)
            /\ Strength[b.dossier] <= Strength[a.dossier]
            /\ b.status = "MACHINE_INTELLIGENCE_READY" <=> b.dossier = "REFERENCE_READY"
            /\ \A s \in lost : publicCompanyResearch(some).sources[s].status = "ERROR"
            /\ some.status = "AUTO_READY_WITH_SOURCE_GAPS" <=> lost # {}
            /\ lost # {} => "SOURCE_GAPS" \in b.gaps
            /\ a.gaps \subseteq b.gaps
            /\ \A official \in SUBSET Official, items \in SUBSET Item :
                 Missing(all, official, items) \subseteq Missing(some, official, items)

\* The same company, with its region written in another way.
Rewritten(f1) ==
  {f2 \in Firm : f2 = [f1 EXCEPT !.region = f2.region] /\ countryCode(f2.region) = countryCode(f1.region)}

\* A source knows more: nothing has gone from its listing, which may have another
\* order now.
Grown(source, before, after) ==
  IF source = "GLEIF" THEN Entries(before[source]) \subseteq Entries(after[source])
  ELSE \A s \in Search : Entries(before[source][s]) \subseteq Entries(after[source][s])

\* The source has more to say of the company than is taken of its answer.
IsCut(source, firm, world) ==
  IF source = "GLEIF" THEN Cardinality(matching(firm, world[source])) > Limit.candidates
  ELSE \/ Cardinality(found(firm, world[source])) > Limit.candidates
       \/ \E s \in searches(firm) : Len(world[source][s]) > Limit.hits

\* What is concluded before and after one of the sources for all countries has
\* come to know more, for two ways to write the region.  Of an answer that is cut
\* nothing is promised: the bound entity may be in the part that is cut off.
ConclusionsSurviveNews ==
  \A world \in World, source \in GlobalSource, f1 \in Firm :
    LET more == {[world EXCEPT ![source] = w[source]] : w \in World}
        Found(f, w) == collectCompanyResearch(f, w, {}).intelligence
        a == Found(f1, world)
    IN \A w \in {x \in more : Grown(source, world, x)}, f2 \in Rewritten(f1) :
         LET b == Found(f2, w)
         IN /\ ~IsCut("GLEIF", f2, w) =>
                 \A r \in a.identity.reference, q \in b.identity.reference : q = r
            /\ ~IsCut("WIKIDATA", f2, w) =>
                 \A r \in a.references, q \in b.references :
                   \/ q.of.id = r.of.id
                   \/ r.basis = "UNIQUE_CORPORATE_SHORTHAND_AND_COUNTRY"
=============================================================================
