--------------------------- MODULE MCResearchTurn ---------------------------
(* A small instance of CompanyPage: two companies that take turns, and the   *)
(* answers of the sources from which their pages are made.                   *)
EXTENDS CompanyPage, MCCompanyResearch

\* Where a firm may say it is: a bare code, a name, a place before the country,
\* nothing.
MCFirm ==
  {[name |-> "acme", incorporated |-> TRUE, region |-> r, site |-> "acme.example"] :
     r \in {<<"US">>, <<"usa">>, <<"CN">>, <<"pudong", "china">>, <<>>}} \union
  {[name |-> "acme", incorporated |-> TRUE, region |-> r, site |-> NoSite] :
     r \in {<<"US">>, <<"usa">>}} \union
  {[name |-> "acme", incorporated |-> FALSE, region |-> <<"usa">>, site |-> NoSite]}

Row(i, n, place, ok) == [id |-> i, name |-> n, region |-> <<place>>, valid |-> ok]

\* Legal entities: two namesakes in the United States, one in China, one of an
\* unknown place, one with a wrong number, and one of another name.  A page has room
\* for two.
MCGleif ==
  LET one   == Row(1, "acme", "US", TRUE)
      two   == Row(2, "acme", "US", TRUE)
      china == Row(3, "acme", "CN", TRUE)
      works == Row(6, "acme works", "US", TRUE)
  IN {<<>>, <<one>>, <<china>>, <<Row(4, "acme", "nowhere", TRUE)>>, <<Row(5, "acme", "US", FALSE)>>,
      <<works>>, <<one, two>>, <<one, china>>, <<works, one>>,
      <<works, two, one>>, <<china, works, one>>}

Entity(i, n, place, at) == [id |-> i, name |-> n, region |-> <<place>>, site |-> at, org |-> TRUE]

\* Entities that are found by several searches, and more of them than are taken.
MCWikidata ==
  LET named   == Entity("q1", "acme", "US", NoSite)
      chinese == Entity("q2", "acme", "CN", "other.example")
      sited   == Entity("q3", "acme holding", "nowhere", "acme.example")
      guess   == Entity("q4", "acme holding", "US", "other.example")
      other   == Entity("q5", "acme bridge", "US", NoSite)
      second  == Entity("q6", "acme", "US", NoSite)
      Lists(f, s, e) == [full |-> f, short |-> s, english |-> e]
  IN {Lists(<<>>, <<>>, <<>>), Lists(<<named>>, <<>>, <<>>), Lists(<<>>, <<>>, <<chinese>>),
      Lists(<<>>, <<guess>>, <<>>), Lists(<<named, sited>>, <<>>, <<>>),
      Lists(<<sited>>, <<sited, guess>>, <<>>), Lists(<<other>>, <<guess>>, <<named>>),
      Lists(<<other, second, named>>, <<>>, <<>>)}

MCSec == {<<>>, <<Row(1, "acme", "US", TRUE)>>, <<Row(1, "acme", "US", FALSE)>>,
          <<Row(1, "acme", "US", TRUE), Row(2, "acme", "US", TRUE)>>,
          <<Row(6, "acme works", "US", TRUE), Row(7, "acme mills", "US", TRUE), Row(1, "acme", "US", TRUE)>>}

Case(i, n, day) == [id |-> i, name |-> n, date |-> day]

\* Two labor databases: the older of two inspections has a place in the list of
\* events only without the other database's case.  A name with more rows pushes the
\* firm's out.
MCLabor ==
  {[OSHA_ENFORCEMENT |-> o, NLRB_CASES |-> n] :
     o \in {<<>>, <<Case(1, "acme", 3), Case(3, "acme works", 2), Case(2, "acme", 1)>>},
     n \in {<<>>, <<Case(4, "acme", 2)>>,
            <<Case(5, "acme works", 5), Case(6, "acme works", 4), Case(4, "acme", 2)>>}}

MCAnswers(g, e, f, l) ==
  [s \in Source |-> CASE s = "GLEIF" -> g
                      [] s = "WIKIDATA" -> e
                      [] s = "SEC_EDGAR" -> f
                      [] s = "USA_SPENDING" -> f
                      [] s \in LaborSource -> l[s]]

\* Either the legal entity and the context come together, or the legal entity and
\* the sources of the United States.
MCWorld ==
  {MCAnswers(g, e, f, l) :
     g \in MCGleif, e \in MCWikidata, f \in {<<Row(1, "acme", "US", TRUE)>>},
     l \in {x \in MCLabor : x["OSHA_ENFORCEMENT"] = <<>> /\ x["NLRB_CASES"] = <<>>}} \union
  {MCAnswers(g, e, f, l) :
     g \in {<<>>, <<Row(1, "acme", "US", TRUE)>>}, f \in MCSec, l \in MCLabor,
     e \in {x \in MCWikidata : Len(x.full) = 2}}

MCLimit == [candidates |-> 2, hits |-> 2, recipients |-> 2, rows |-> 3,
            groups |-> 1, records |-> 2, events |-> 2, timeline |-> 2]

MCOfficial == {"LEGAL_ENTITY_REGISTRY"}
MCItem == {[kind |-> "labour_claim", public |-> TRUE, status |-> "REJECTED"]}
=============================================================================
