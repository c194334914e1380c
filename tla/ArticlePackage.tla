--------------------------- MODULE ArticlePackage ---------------------------
(***************************************************************************)
(* What the article commands make of a Selection Snapshot: the writer input  *)
(* (articles/writer.py), the editorial document it admits, the facts, charts *)
(* and article of a package (articles/factory.py, factory_v2.py), and what   *)
(* the Dividend guide must say (cap_packs/dividend_events/publication.py).   *)
(*                                                                         *)
(* Every file is kept as the record of what it was made from, with a field   *)
(* `hand` that says whether someone has edited it since; its bytes are equal *)
(* to those of a fresh build exactly when the records are.                   *)
(***************************************************************************)
EXTENDS SelectionSnapshots

CONSTANTS ProfileOf,     \* the content of each publication profile
          SamplePath,    \* the path whose Dividend sample is its CN market cell
          US, CN,        \* the markets the advice of the Dividend guide is about
          AlphaVantage, TwelveData, EODHD, Massive  \* the paths it names itself

Argmin(f) == {x \in DOMAIN f : \A y \in DOMAIN f : f[x] <= f[y]}
Argmax(f) == {x \in DOMAIN f : \A y \in DOMAIN f : f[x] >= f[y]}

-----------------------------------------------------------------------------
(* The writer input and the editorial document. *)

WriterInput(snapshot, profile) ==
    [snapshot |-> snapshot, profile |-> profile, hand |-> "no"]

(* The profile's evidence releases are those the snapshot pins. *)
WriterReleasesMatch(snapshot, profile) ==
    ProfileOf[profile].releases = {snapshot.cap, snapshot.market}

MarketsIn(snapshot, p, state) ==
    LET coverage == Row(snapshot, p).coverage
    IN  {k \in Markets : coverage[k].state = state}

VerifiedMarkets(snapshot, p) == MarketsIn(snapshot, p, "verified")

Measured(snapshot) == {p \in RowPaths(snapshot) : Row(snapshot, p).metrics.state = "measured"}

Priced(snapshot) == {p \in RowPaths(snapshot) : Row(snapshot, p).price # {}}

PriceIn(snapshot, p) == CHOOSE x \in Row(snapshot, p).price : TRUE

RejectedControls(snapshot) ==
    {p \in RowPaths(snapshot) : Row(snapshot, p).invalid.passed > 0}

DecisionTypes == {"broadest_market_coverage", "verified_market", "lowest_latency",
                  "lowest_list_price", "explicit_invalid_input"}

(* The shortlist a decision scenario must have; {} when it has no measured    *)
(* facts, which is refused.                                                   *)
ExpectedPaths(snapshot, scenario) ==
    CASE scenario.type = "broadest_market_coverage" ->
            Argmax([p \in RowPaths(snapshot) |-> Cardinality(VerifiedMarkets(snapshot, p))])
      [] scenario.type = "verified_market" ->
            {p \in RowPaths(snapshot) : scenario.market \in VerifiedMarkets(snapshot, p)}
      [] scenario.type = "lowest_latency" ->
            Argmin([p \in Measured(snapshot) |-> Latency[p]])
      [] scenario.type = "lowest_list_price" ->
            Argmin([p \in Priced(snapshot) |-> PriceIn(snapshot, p)])
      [] scenario.type = "explicit_invalid_input" ->
            Argmax([p \in RejectedControls(snapshot) |-> Row(snapshot, p).invalid.passed])

(* The digest of the prose is approved in the profile; the shortlist is not  *)
(* part of that digest and must follow from the facts.                       *)
EditorialAdmitted(editorial, writer) ==
    /\ editorial.copy = ProfileOf[writer.profile].approved
    /\ editorial.type \in DecisionTypes
    /\ editorial.chosen # {}
    /\ editorial.chosen = ExpectedPaths(writer.snapshot, editorial)
    /\ editorial.analyses = RowPaths(writer.snapshot)

-----------------------------------------------------------------------------
(* The article package. *)

(* Every row has its approved links, one path has a runtime to chart.        *)
Publishable(snapshot, profile) ==
    /\ RowPaths(snapshot) \subseteq ProfileOf[profile].links
    /\ Measured(snapshot) \cap Priced(snapshot) # {}

ArticleFacts(snapshot, profile) ==
    [snapshot |-> snapshot, profile |-> profile, hand |-> "no"]

Charts(snapshot, profile, renderer) ==
    [snapshot |-> snapshot, profile |-> profile, renderer |-> renderer, hand |-> "no"]

Article(facts, editorial, writer, renderer) ==
    [facts |-> facts, editorial |-> editorial, writer |-> writer,
     renderer |-> renderer, hand |-> "no"]

Manifest(inputs, charts, renderer) ==
    [inputs |-> inputs, charts |-> charts, renderer |-> renderer, hand |-> "no"]

(* The sum of the counts n[p]. *)
Total(n) == Cardinality(UNION {{p} \X (1 .. n[p]) : p \in DOMAIN n})

(* What a reader of the guide is told, from the facts of the article.        *)
LiveCalls(snapshot) ==
    Total([p \in RowPaths(snapshot) |-> Row(snapshot, p).runs.terminal])
        + Total([p \in RowPaths(snapshot) |-> Row(snapshot, p).marketRuns])

ArticleStatements(article) ==
    LET snapshot == article.facts.snapshot
    IN  [live      |-> LiveCalls(snapshot),
         verified  |-> [p \in RowPaths(snapshot) |-> VerifiedMarkets(snapshot, p)],
         shortlist |-> article.editorial.chosen]

-----------------------------------------------------------------------------
(* The Dividend guide, written by hand and checked against derived facts.    *)

(* The public terminals a path's sample rests on, of the package's releases. *)
SampleRelease(package, p) == ReleaseOf[IF p = SamplePath THEN package.market ELSE package.cap]

SampleCells(package, p) ==
    LET r == SampleRelease(package, p)
    IN  {c \in ApplicableCells(r, p) \cap r.evidence :
            IF p = SamplePath THEN c[2] = CN ELSE c[2] # Control}

Required(package, p) ==
    LET cells == SampleCells(package, p)
        n == Count(SampleRelease(package, p), cells, Completed)
    IN  [kind   |-> CASE p = SamplePath -> "market_sample"
                      [] p # SamplePath /\ n = 0 -> "missing"
                      [] OTHER -> "fraction",
         passed |-> n,
         total  |-> Cardinality(cells)]

(* What all the answers of a sample, or some of them, returned beyond the    *)
(* required fields.                                                          *)
Returned(package, p) ==
    LET found == {SampleRelease(package, p).facts[c] : c \in SampleCells(package, p)}
    IN  [identity |-> \A f \in found : f.identity = "matched",
         currency |-> UNION {f.currency : f \in found},
         dates    |-> CASE \A f \in found : f.dates = "full" -> "full"
                        [] (\E f \in found : f.dates # "full")
                               /\ Required(package, p).passed = 0 -> "none"
                        [] OTHER -> "only_ex"]

(* A sample passes in the overview unless its required fields are missing.   *)
Overview(required) ==
    [verdict |-> IF required.kind = "missing" THEN "failed" ELSE "passed",
     rounds |-> IF required.kind = "market_sample" THEN 2 ELSE required.passed]

DividendPathFacts(snapshot, package, p) ==
    LET row == Row(snapshot, p)
    IN  [required |-> Required(package, p),
         returned |-> Returned(package, p),
         invalid  |-> row.invalid,
         verified |-> MarketsIn(snapshot, p, "verified"),
         negative |-> MarketsIn(snapshot, p, "provider_negative"),
         refs     |-> row.runs.refs \cup UNION {row.coverage[k].refs : k \in Markets}]

ReleaseFacts(id) ==
    LET r == ReleaseOf[id]
    IN  [release    |-> id,
         planned    |-> Cardinality(DOMAIN r.cells),
         applicable |-> Cardinality({c \in DOMAIN r.cells : r.cells[c] # "na"}),
         records    |-> Cardinality(r.evidence)]

DividendFacts(snapshot, package) ==
    [paths    |-> [p \in RowPaths(snapshot) |-> DividendPathFacts(snapshot, package, p)],
     baseline |-> ReleaseFacts(package.cap),
     market   |-> ReleaseFacts(package.market),
     live     |-> ReleaseFacts(package.cap).records + ReleaseFacts(package.market).records,
     hand     |-> "no"]

(* The facts need a terminal and no second currency for every sample, and    *)
(* one runtime sample size.  (Observation and pricing dates are left out.)   *)
DividendFactsExist(snapshot, package) ==
    /\ \A p \in RowPaths(snapshot) : /\ SampleCells(package, p) # {}
                                    /\ Cardinality(Returned(package, p).currency) <= 1
    /\ Cardinality({Cardinality(Row(snapshot, p).metrics.samples) :
                        p \in Measured(snapshot)}) = 1

\* Mutant of BasicUS: the sample need not have passed.
AnyBasicUS(paths) == {p \in DOMAIN paths \cap QVerisPaths : US \in paths[p].verified}

BasicUS(paths) ==
    {p \in DOMAIN paths \cap QVerisPaths :
        US \in paths[p].verified /\ paths[p].required.kind # "missing"}

(* The groups of paths that the advice names, by the code's names; the first  *)
(* five are the recommendations of the facts.                                *)
Groups(paths) ==
    LET us == {p \in DOMAIN paths : US \in paths[p].verified}
        cn == {p \in DOMAIN paths : CN \in paths[p].verified}
        missing == {p \in DOMAIN paths : paths[p].required.kind = "missing"}
        currency == {p \in DOMAIN paths : paths[p].returned.currency # {}}
        full == {p \in DOMAIN paths : paths[p].returned.dates = "full"}
        only_ex == {p \in DOMAIN paths : paths[p].returned.dates = "only_ex"}
    IN  [basic_us               |-> BasicUS(paths),
         full_event_dates_us    |-> us \cap full,
         explicit_currency_us   |-> us \cap currency,
         cn_identity_verified   |-> {p \in cn : paths[p].returned.identity},
         cn_native_incomplete   |-> {p \in missing \ QVerisPaths : CN \in paths[p].negative},
         native_incomplete      |-> missing,
         full_dates_no_currency |-> (us \cap full) \ currency,
         full_dates_currency    |-> us \cap full \cap currency,
         only_ex_currency       |-> us \cap only_ex \cap currency,
         only_ex_no_currency    |-> (us \cap only_ex) \ currency]

(* The quick recommendation: the names it starts with and the claim that one  *)
(* path passed `all` its applicable markets are fixed words.                 *)
Counted == {AlphaVantage, TwelveData, EODHD}

QuickRecommendation(snapshot) ==
    [start  |-> {AlphaVantage, TwelveData, EODHD, Massive},
     passed |-> [p \in Counted |-> Cardinality(MarketsIn(snapshot, p, "verified"))],
     all    |-> AlphaVantage,
     unsupported |-> Cardinality(MarketsIn(snapshot, AlphaVantage, "not_applicable"))]

(* What the tables, claims, advice, rankings and links must say.  Everything *)
(* else in the guide is prose that nobody checks.                            *)
DividendStatements(snapshot, facts) ==
    [overview |-> [p \in DOMAIN facts.paths |-> Overview(facts.paths[p].required)],
     agent    |-> [p \in DOMAIN facts.paths |->
                      <<facts.paths[p].required, facts.paths[p].returned,
                        facts.paths[p].invalid.passed, facts.paths[p].invalid.total>>],
     verified |-> [p \in DOMAIN facts.paths |-> facts.paths[p].verified],
     negative |-> [p \in DOMAIN facts.paths |-> facts.paths[p].negative],
     unsupported |-> [p \in DOMAIN facts.paths |-> MarketsIn(snapshot, p, "not_applicable")],
     pricing  |-> [p \in DOMAIN facts.paths |-> Row(snapshot, p).pricing],
     runtime  |-> [p \in Measured(snapshot) |-> <<Latency[p], PriceIn(snapshot, p)>>],
     releases |-> <<facts.baseline, facts.market>>,
     live     |-> facts.live,
     advice   |-> Groups(facts.paths),
     quick    |-> QuickRecommendation(snapshot),
     fastest  |-> Argmin([p \in Measured(snapshot) |-> Latency[p]]),
     cheapest |-> Argmin([p \in Measured(snapshot) |-> PriceIn(snapshot, p)]),
     hand     |-> "no"]

DividendGuide(snapshot, facts) ==
    [said |-> DividendStatements(snapshot, facts), prose |-> "written"]

(* The check has no words for a group without a path: _english_list indexes   *)
(* an empty list, and the service refuses the guide.  It looks up the rows    *)
(* that the quick recommendation counts.                                     *)
AdviceHasWords(facts) ==
    /\ \A group \in DOMAIN Groups(facts.paths) : Groups(facts.paths)[group] # {}
    /\ Counted \subseteq DOMAIN facts.paths
=============================================================================
