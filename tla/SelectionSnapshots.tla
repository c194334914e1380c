------------------------- MODULE SelectionSnapshots -------------------------
(***************************************************************************)
(* The Selection Snapshot (profiles/selection.py, models/selection.py): the *)
(* rows that say, of every Access Path, what two pinned releases, the       *)
(* provider registry and a list of Inspect prices establish.  The rows are  *)
(* functions of what the builder read, so a snapshot is kept as the record   *)
(* of its reads ("built from"), and its bytes differ exactly when the reads  *)
(* do.                                                                       *)
(*                                                                         *)
(* A release is a record: `cells` gives every cell <<path, case, round>> its *)
(* outcome, `evidence` is the set of cells with a public record, `suite` is  *)
(* the suite it was run under, `facts` what the public record of a cell says *)
(* of a dividend.  The cases of the market release are the markets and a     *)
(* control.                                                                  *)
(***************************************************************************)
EXTENDS Naturals, FiniteSets

CONSTANTS Paths,         \* the Access Paths of the cohort
          QVerisPaths,   \* those reached through the QVeris connector
          Markets,       \* the representative markets
          Latency,       \* Latency[p]: what every timed call of p takes
          ReleaseOf,     \* the content of each release id
          RegistryOf,    \* RegistryOf[v][p]: pricing facts that apply to p
          Supplement,    \* the paths an official pricing supplement covers
          PricesOf,      \* the content of each Inspect price list
          InputOf        \* the content of each selection input

ASSUME PathsOK == QVerisPaths \subseteq Paths /\ Latency \in [Paths -> Nat]

ASSUME ReleasesOK ==
    \A id \in DOMAIN ReleaseOf : /\ IsFiniteSet(DOMAIN ReleaseOf[id].cells)
                                 /\ \A c \in DOMAIN ReleaseOf[id].cells : c[1] \in Paths

Control == "control"

Completed == {"completed", "untimed"}
Negative  == {"negative", "rejected"}

(* What one cell ended with: "untimed" is a completion with no latency,     *)
(* "rejected" a provider_negative attributed to provider validation, "na" a  *)
(* cell that was not applicable.                                             *)
Outcomes == Completed \cup Negative \cup {"blocked", "na"}

CellsOf(r, p) == {c \in DOMAIN r.cells : c[1] = p}

ApplicableCells(r, p) == {c \in CellsOf(r, p) : r.cells[c] # "na"}

Count(r, cells, outcomes) == Cardinality({c \in cells : r.cells[c] \in outcomes})

Identities(r) == {p \in Paths : ApplicableCells(r, p) # {}}

(* Every applicable direct cell has its one public record, and no other cell *)
(* has one.                                                                  *)
ProjectionHolds(r) == r.evidence = {c \in DOMAIN r.cells : r.cells[c] # "na"}

(* The suite compiled now is the one the release ran under, or the input     *)
(* names it as the historical equivalent.                                    *)
SuiteContractHolds(suite, r, input) ==
    suite = r.suite \/ input.historical = <<r.suite, suite>>

-----------------------------------------------------------------------------
(* The parts of a row. *)

RunObservations(r, cells) ==
    [terminal |-> Count(r, cells, Outcomes \ {"na"}),
     planned  |-> Cardinality(cells),
     refs     |-> cells \cap r.evidence]

RunObservationsValid(o) ==
    /\ o.refs # {} /\ o.planned > 0
    /\ o.terminal <= o.planned
    /\ Cardinality(o.refs) = o.terminal

Observation(passed, cells, r) ==
    [passed |-> passed, total |-> Cardinality(cells), refs |-> cells \cap r.evidence]

ObservationValid(o) == o.refs # {} /\ o.passed <= o.total

CaseCells(r, p, case) == {c \in ApplicableCells(r, p) : c[2] = case}

(* A control passes when it completes or is rejected by the provider. *)
Passed(r, cells, case) ==
    Count(r, cells, IF case = Control THEN Completed \cup {"rejected"} ELSE Completed)

CaseObservations(r, p) ==
    [case \in {c[2] : c \in ApplicableCells(r, p)} |->
        Observation(Passed(r, CaseCells(r, p, case), case), CaseCells(r, p, case), r)]

InvalidInputHandling(r, p) ==
    Observation(Passed(r, CaseCells(r, p, Control), Control), CaseCells(r, p, Control), r)

TimedCells(r, p, input) ==
    {c \in ApplicableCells(r, p) \cap r.evidence :
        /\ ~ (input.positiveOnly = "yes" /\ c[2] = Control)
        /\ r.cells[c] \in {"completed"} \cup Negative}

CostCells(r, p, input) ==
    {c \in ApplicableCells(r, p) \cap r.evidence :
        input.costs = "yes" /\ c[2] # Control /\ r.cells[c] \in Completed}

GatewayMetrics(r, p, input) ==
    IF p \notin QVerisPaths
    THEN [state |-> "not_applicable", samples |-> {}, costs |-> {}]
    ELSE [state |-> IF TimedCells(r, p, input) # {} THEN "measured"
                                                    ELSE "evidence_insufficient",
          samples |-> TimedCells(r, p, input),
          costs   |-> CostCells(r, p, input)]

(* A snapshot that measured nothing may not carry costs. *)
GatewayMetricsValid(m) ==
    m.state # "measured" => m.samples = {} /\ m.costs = {}

MarketCells(r, p, market) == {c \in CellsOf(r, p) : c[2] = market}

MarketState(r, cells) ==
    LET outcomes == {r.cells[c] : c \in cells}
    IN  CASE outcomes = {"na"} -> "not_applicable"
          [] outcomes # {} /\ outcomes \subseteq Completed -> "verified"
          [] outcomes # {} /\ outcomes \subseteq Negative -> "provider_negative"
          [] OTHER -> "evidence_insufficient"

MarketResult(r, p, market) ==
    LET cells == MarketCells(r, p, market)
    IN  [state  |-> MarketState(r, cells),
         passed |-> Count(r, cells, Completed),
         total  |-> Cardinality(cells),
         refs   |-> cells \cap r.evidence]

(* Applicability may not differ between the rounds of a market. *)
MarketAgrees(r, p, market) ==
    LET outcomes == {r.cells[c] : c \in MarketCells(r, p, market)}
    IN  "na" \in outcomes => outcomes = {"na"}

MarketResultValid(m) ==
    IF m.state = "not_applicable"
    THEN m.passed = 0 /\ m.refs = {}
    ELSE /\ m.total >= 1 /\ Cardinality(m.refs) = m.total
         /\ m.state = "verified" => m.passed = m.total
         /\ m.state = "provider_negative" => m.passed = 0

MarketCoverage(r, p) == [market \in Markets |-> MarketResult(r, p, market)]

(* Official pricing: exactly one registry fact applies, or none does and a   *)
(* supplement may fill in.                                                   *)
OfficialPricing(registry, p) ==
    CASE p \in Supplement -> "supplemented"
      [] RegistryOf[registry][p] = 1 -> "declared"
      [] OTHER -> "evidence_insufficient"

-----------------------------------------------------------------------------
(* The builder's refusals, in the order of the code; `b` is what it read.    *)

(* The suite contract and the projection, of one release.                    *)
ReleaseUsable(release, suite, input) ==
    /\ SuiteContractHolds(suite, ReleaseOf[release], InputOf[input])
    /\ ProjectionHolds(ReleaseOf[release])

(* Inspect prices: made from these bindings, on the edition's date, one per  *)
(* QVeris identity of the release.                                           *)
PricesUsable(prices, bindings, release) ==
    /\ PricesOf[prices].bindings = bindings
    /\ DOMAIN PricesOf[prices].amount = Identities(ReleaseOf[release]) \cap QVerisPaths

PricingUsable(registry, release) ==
    /\ Supplement \subseteq Identities(ReleaseOf[release])
    /\ \A p \in Supplement : RegistryOf[registry][p] = 0
    /\ \A p \in Identities(ReleaseOf[release]) : RegistryOf[registry][p] <= 1

(* The validators of models/selection.py on the row of p. *)
RowValid(b, p) ==
    LET r == ReleaseOf[b.cap]
        m == ReleaseOf[b.market]
        input == InputOf[b.input]
    IN  /\ RunObservationsValid(RunObservations(r, ApplicableCells(r, p)))
        /\ GatewayMetricsValid(GatewayMetrics(r, p, input))
        /\ ObservationValid(InvalidInputHandling(r, p))
        /\ input.cases = "yes" =>
              \A case \in DOMAIN CaseObservations(r, p) :
                  ObservationValid(CaseObservations(r, p)[case])
        /\ \A market \in Markets :
              MarketAgrees(m, p, market) /\ MarketResultValid(MarketResult(m, p, market))
        /\ input.marketRuns = "yes" => RunObservationsValid(RunObservations(m, CellsOf(m, p)))

RowsValid(b) ==
    /\ {c[1] : c \in DOMAIN ReleaseOf[b.market].cells} = Identities(ReleaseOf[b.cap])
    /\ \A p \in Identities(ReleaseOf[b.cap]) : RowValid(b, p)

RowPaths(snapshot) == Identities(ReleaseOf[snapshot.cap])

(* The row of p in a snapshot, as its readers see it. *)
Row(snapshot, p) ==
    LET r == ReleaseOf[snapshot.cap]
        m == ReleaseOf[snapshot.market]
        input == InputOf[snapshot.input]
    IN  [runs     |-> RunObservations(r, ApplicableCells(r, p)),
         metrics  |-> GatewayMetrics(r, p, input),
         price    |-> IF p \in QVerisPaths THEN {PricesOf[snapshot.prices].amount[p]} ELSE {},
         pricing  |-> OfficialPricing(snapshot.registry, p),
         invalid  |-> InvalidInputHandling(r, p),
         cases    |-> IF input.cases = "yes" THEN CaseObservations(r, p) ELSE <<>>,
         coverage |-> MarketCoverage(m, p),
         marketRuns |-> IF input.marketRuns = "yes"
                        THEN RunObservations(m, CellsOf(m, p)).terminal
                        ELSE Cardinality(UNION {MarketResult(m, p, k).refs : k \in Markets})]
=============================================================================
