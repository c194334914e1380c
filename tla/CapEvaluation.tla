----------------------------- MODULE CapEvaluation -----------------------------
(***************************************************************************)
(* What a CAP makes of a provider's answer.  Every CAP judges twice: its   *)
(* adapter turns the answer into a state and public facts when the cell    *)
(* runs, and its validator derives the state again from the public facts   *)
(* alone when a release is assembled (releases/public_terminal.py:180).    *)
(* A payload is what the gateway relays:                                   *)
(*   status    the provider's status code,                                 *)
(*   rejects   "yes" when an error field names the request invalid,        *)
(*   rows      the rows it can read, symbol the symbol beside them.        *)
(* Dates are numbers; a symbol is a code on an exchange.                   *)
(***************************************************************************)
EXTENDS Integers, Sequences

CONSTANT Absent     \* a field that is not there, None

NoFacts    == [kind |-> "none"]
Rejection  == [kind |-> "rejection"]
Failure(a) == [kind |-> "failure", attribution |-> a]

Outcome(state, facts, unmet, attribution) ==
    [state |-> state, facts |-> facts, unmet |-> unmet, attribution |-> attribution]

\* ValidatedTerminalOutcome: an outcome without the facts it is derived from.
Judged(state, unmet, attribution) ==
    [state |-> state, unmet |-> unmet, attribution |-> attribution]
Judgement(o) == Judged(o.state, o.unmet, o.attribution)

InWindow(case, d)  == d # Absent /\ case.first <= d /\ d <= case.last
FirstOf(a, b)      == IF a # Absent THEN a ELSE b

-----------------------------------------------------------------------------
(***************************************************************************)
(* Shared by government bonds and corporate actions                        *)
(***************************************************************************)
EntitlementCodes == {401, 402, 403}
RejectionCodes   == {200, 204, 400, 404, 422, 4042}

TransportAttribution(status) ==
    IF status \in EntitlementCodes THEN "auth_or_entitlement"
    ELSE IF status = 429 THEN "rate_limited"
    ELSE IF status >= 500 THEN "provider_runtime_error"
    ELSE "empty_or_partial_data"

ExplicitRejection(p) == p.status \in RejectionCodes /\ p.rejects = "yes"

InfraResult(case, attribution) ==
    Outcome("infra_blocked", Failure(attribution), case.conditions, attribution)

NothingUsable(case) ==
    Outcome("provider_negative", NoFacts, case.conditions, "empty_or_partial_data")

ControlResult(p) ==
    IF ExplicitRejection(p)
    THEN Outcome("completed", Rejection, {}, "provider_validation_error")
    ELSE Outcome("provider_negative", NoFacts, {"validation_error"}, "empty_or_partial_data")

IdentityResult(facts) ==
    IF facts.verified = "yes" THEN Outcome("completed", facts, {}, "none")
    ELSE Outcome("provider_negative", facts, {"identity_verified"}, "empty_or_partial_data")

\* The first half of both adapters: an answer that does not reach the rows.
BlockedInTransit(p) == p.status \in EntitlementCodes \cup {429} \/ p.status >= 500

EvaluateDocument(case, p, extracted, facts) ==
    IF BlockedInTransit(p) THEN InfraResult(case, TransportAttribution(p.status))
    ELSE IF case.negative = "yes" THEN ControlResult(p)
    ELSE IF p.status # 200 THEN InfraResult(case, "empty_or_partial_data")
    ELSE IF extracted = Absent THEN NothingUsable(case)
    ELSE IdentityResult(facts)

\* The attributions a terminal may publish as an execution failure.
PublishableFailures ==
    {"auth_or_entitlement", "empty_or_partial_data", "provider_runtime_error", "rate_limited"}

IsPublishedFailure(facts) ==
    facts.kind = "failure" /\ facts.attribution \in PublishableFailures

ControlJudgement(facts) ==
    IF facts = Rejection THEN Judged("completed", {}, "provider_validation_error")
    ELSE Judged("provider_negative", {"validation_error"}, "empty_or_partial_data")

-----------------------------------------------------------------------------
(***************************************************************************)
(* Government bonds.  identity: [vendor, aliases].                         *)
(***************************************************************************)
BondRows(case, p) ==
    {i \in 1..Len(p.rows) : InWindow(case, p.rows[i].date) /\ p.rows[i].value # Absent}

\* The row with the latest date; Python's max keeps the first of equals.
ExtractLatest(case, p) ==
    LET valid == BondRows(case, p)
        best(i) == \A j \in valid : \/ p.rows[j].date < p.rows[i].date
                                    \/ p.rows[j].date = p.rows[i].date /\ i <= j
    IN  IF valid = {} THEN Absent ELSE p.rows[CHOOSE i \in valid : best(i)]

BondIdentity(returned, identity) ==
    IF returned = Absent THEN [verified |-> "yes", basis |-> "request_bound"]
    ELSE [verified |-> IF returned \in {identity.vendor} \cup identity.aliases
                       THEN "yes" ELSE "no",
          basis |-> "response_field"]

BondFacts(row, identity) ==
    LET id == BondIdentity(row.symbol, identity)
    IN  [kind |-> "bond", symbol |-> FirstOf(row.symbol, identity.vendor),
         date |-> row.date, close |-> row.value,
         verified |-> id.verified, basis |-> id.basis]

EvaluateBond(case, identity, p) ==
    LET row == ExtractLatest(case, p)
    IN  EvaluateDocument(case, p, row,
            IF row = Absent THEN NoFacts ELSE BondFacts(row, identity))

\* Mutant of ValidateBond: request-bound facts are compared like returned ones.
ValidateBondLoose(case, identity, facts) ==
    IF IsPublishedFailure(facts)
    THEN Judged("infra_blocked", case.conditions, facts.attribution)
    ELSE IF case.negative = "yes" THEN ControlJudgement(facts)
    ELSE IF facts.kind = "bond" /\ facts.close # Absent /\ InWindow(case, facts.date)
            /\ facts.verified = BondIdentity(facts.symbol, identity).verified
            /\ facts.basis = BondIdentity(facts.symbol, identity).basis
    THEN Judgement(IdentityResult(facts))
    ELSE Judgement(NothingUsable(case))

ValidateBond(case, identity, facts) ==
    LET expected == IF facts.basis = "request_bound"
                    THEN [verified |-> IF facts.symbol = identity.vendor THEN "yes" ELSE "no",
                          basis |-> "request_bound"]
                    ELSE BondIdentity(facts.symbol, identity)
        observed == facts.kind = "bond" /\ facts.close # Absent /\ InWindow(case, facts.date)
    IN  IF IsPublishedFailure(facts)
        THEN Judged("infra_blocked", case.conditions, facts.attribution)
        ELSE IF case.negative = "yes" THEN ControlJudgement(facts)
        ELSE IF observed /\ facts.verified = "yes" /\ expected.verified = "yes"
                /\ facts.basis = expected.basis
        THEN Judged("completed", {}, "none")
        ELSE IF observed /\ facts.verified = "no" /\ facts.basis = expected.basis
        THEN Judged("provider_negative", {"identity_verified"}, "empty_or_partial_data")
        ELSE Judged("provider_negative", case.conditions, "empty_or_partial_data")

-----------------------------------------------------------------------------
(***************************************************************************)
(* Corporate actions.  identity: [canonical, vendor]; a symbol is a        *)
(* [code, exchange], Absent the exchange of a bare code.                   *)
(***************************************************************************)
\* The first row, in the provider's order, whose date lies in the window.
ExtractEvent(case, p) ==
    LET fits == {i \in 1..Len(p.rows) : InWindow(case, p.rows[i].date)}
        i    == CHOOSE k \in fits : \A j \in fits : k <= j
    IN  IF fits = {} THEN Absent
        ELSE [p.rows[i] EXCEPT !.symbol = FirstOf(p.rows[i].symbol, p.symbol)]

\* Mutant of ActionIdentity: the exchange of the returned symbol is not looked at.
ActionIdentityByCode(returned, identity) ==
    IF returned = Absent THEN [verified |-> "yes", basis |-> "request_bound"]
    ELSE [verified |-> IF returned.code \in {identity.canonical.code, identity.vendor.code}
                       THEN "yes" ELSE "no", basis |-> "response_field"]

ActionIdentity(returned, identity) ==
    IF returned = Absent THEN [verified |-> "yes", basis |-> "request_bound"]
    ELSE IF returned \in {identity.canonical, identity.vendor}
    THEN [verified |-> "yes", basis |-> "response_field"]
    ELSE IF /\ returned.exchange = Absent
            /\ returned.code \in {identity.canonical.code, identity.vendor.code}
    THEN [verified |-> "yes", basis |-> "request_bound"]
    ELSE [verified |-> "no", basis |-> "response_field"]

ActionFacts(row, identity) ==
    LET id == ActionIdentity(row.symbol, identity)
    IN  [kind |-> "action", symbol |-> identity.canonical, returned |-> row.symbol,
         date |-> row.date, verified |-> id.verified, basis |-> id.basis]

EvaluateAction(case, identity, p) ==
    LET row == ExtractEvent(case, p)
    IN  EvaluateDocument(case, p, row,
            IF row = Absent THEN NoFacts ELSE ActionFacts(row, identity))

\* The validator knows one way to fail a positive case: all four conditions.
ActionConditions == {"symbol", "identity_verified", "action_type", "date"}

ValidateAction(case, identity, facts) ==
    IF IsPublishedFailure(facts)
    THEN Judged("infra_blocked", case.conditions, facts.attribution)
    ELSE IF case.negative = "yes" THEN ControlJudgement(facts)
    ELSE LET expected == ActionIdentity(facts.returned, identity)
         IN  IF /\ facts.kind = "action" /\ facts.symbol = case.symbol
                /\ InWindow(case, facts.date)
                /\ facts.verified = "yes" /\ expected.verified = "yes"
                /\ identity.canonical = case.symbol /\ facts.basis = expected.basis
             THEN Judged("completed", {}, "none")
             ELSE Judged("provider_negative", ActionConditions, "empty_or_partial_data")

-----------------------------------------------------------------------------
(***************************************************************************)
(* Dividend events.  A payload also says in which shape it came: "rows",   *)
(* "malformed" (the extractor raises) or "refused", the provider's own     *)
(* form of a rejection.  case.required is what the schema requires.        *)
(***************************************************************************)
Refused(p)   == p.shape = "refused"      \* an error document, a status, an empty envelope
Malformed(p) == p.shape = "malformed"    \* no rows where the provider puts them

DividendIdentity(symbol, returned, identity) ==
    LET matches == \/ returned = Absent
                   \/ returned.code \in {identity.vendor.code, identity.canonical.code}
    IN  [symbol |-> IF matches THEN identity.canonical ELSE returned,
         returned |-> returned,
         verified |-> IF matches THEN "yes" ELSE "no",
         basis |-> IF returned = Absent THEN "request_bound" ELSE "response_field"]

\* A row without a date stays in the window.
DividendRows(case, p) ==
    {i \in 1..Len(p.rows) : p.rows[i].date = Absent \/ InWindow(case, p.rows[i].date)}

LatestDividend(case, p) ==
    LET when(i) == IF p.rows[i].date = Absent THEN 0 ELSE p.rows[i].date
        rows    == DividendRows(case, p)
    IN  p.rows[CHOOSE i \in rows : \A j \in rows :
                  when(j) < when(i) \/ (when(j) = when(i) /\ i <= j)]

DividendFacts(case, identity, row, symbol) ==
    LET id == DividendIdentity(case.symbol, symbol, identity)
    IN  [kind |-> "dividend", symbol |-> id.symbol, returned |-> id.returned,
         verified |-> id.verified, basis |-> id.basis,
         date |-> row.date, amount |-> row.value]

NoDividend == [date |-> Absent, value |-> Absent, symbol |-> Absent]

\* extract_dividend_event: facts, or which of its two errors it raises.
ExtractDividend(case, identity, p) ==
    IF Refused(p)
    THEN IF case.negative = "yes" THEN Rejection
         ELSE DividendFacts(case, identity, NoDividend, Absent)
    ELSE IF Malformed(p) THEN [kind |-> "raises"]
    ELSE IF case.negative = "yes"
    THEN IF p.rows = <<>> THEN Rejection ELSE [kind |-> "control_failed"]
    ELSE IF DividendRows(case, p) = {} THEN DividendFacts(case, identity, NoDividend, Absent)
    ELSE LET row == LatestDividend(case, p)
         IN  DividendFacts(case, identity, row, FirstOf(row.symbol, p.symbol))

\* evaluate_outcome over the observation: the conditions no fact answers.
Unmet(case, facts) ==
    {c \in case.conditions :
        CASE c = "effective_date" -> facts.date = Absent
          [] c = "amount"         -> facts.amount = Absent
          [] OTHER                -> FALSE}

DividendJudgement(unmet) ==
    IF unmet = {} THEN Judged("completed", {}, "none")
    ELSE Judged("provider_negative", unmet, "empty_or_partial_data")

WithFacts(j, facts) == Outcome(j.state, facts, j.unmet, j.attribution)

\* evaluate_dividend_document; state "raises" when there is no outcome.
EvaluateDividend(case, identity, p) ==
    LET facts == ExtractDividend(case, identity, p)
    IN  CASE facts.kind = "control_failed" ->
                Outcome("provider_negative", NoFacts, {"validation_error"},
                        "provider_validation_error")
          [] facts.kind = "raises" -> Outcome("raises", NoFacts, {}, "none")
          [] facts.kind = "rejection" -> WithFacts(DividendJudgement({}), facts)
          [] facts.kind = "dividend" ->
                WithFacts(DividendJudgement(Unmet(case, facts) \cup
                    IF facts.verified = "yes" THEN {} ELSE {"identity_verified"}), facts)

\* Mutant of ValidateDividend: the exchange of the returned symbol is compared, too.
ValidateDividendExact(case, identity, facts) ==
    IF facts.kind \notin (IF case.negative = "yes" THEN {"rejection"} ELSE {"dividend"})
    THEN Judged("raises", {}, "none")
    ELSE IF case.negative = "yes" THEN DividendJudgement({})
    ELSE LET valid == /\ facts.symbol = case.symbol /\ identity.canonical = case.symbol
                      /\ \/ facts.basis = "request_bound" /\ facts.returned = Absent
                         \/ /\ facts.basis = "response_field"
                            /\ facts.returned \in {identity.vendor, identity.canonical}
         IN  DividendJudgement(Unmet(case, facts) \cup
                 IF valid THEN {} ELSE {"identity_verified"})

\* validate_public_dividend_outcome; the schema of a control requires its error.
ValidateDividend(case, identity, facts) ==
    IF facts.kind \notin (IF case.negative = "yes" THEN {"rejection"} ELSE {"dividend"})
    THEN Judged("raises", {}, "none")
    ELSE IF case.negative = "yes" THEN DividendJudgement({})
    ELSE LET valid == /\ facts.symbol = case.symbol /\ identity.canonical = case.symbol
                      /\ \/ facts.basis = "request_bound" /\ facts.returned = Absent
                         \/ /\ facts.basis = "response_field" /\ facts.returned # Absent
                            /\ facts.returned.code \in {identity.vendor.code,
                                                        identity.canonical.code}
         IN  DividendJudgement(Unmet(case, facts) \cup
                 IF valid THEN {} ELSE {"identity_verified"})

=============================================================================
