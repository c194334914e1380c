----------------------------- MODULE MCLiveRelease -----------------------------
(***************************************************************************)
(* The live workflows that end in a release: those over the gateway        *)
(* ("gateway", bonds and corporate actions) and the market run of dividend *)
(* events ("market").  They share the CAP's two judgements and nothing     *)
(* else, so a behaviour is of one of them.                                 *)
(* A matrix of one positive case and its control; dates 2 and 3 lie in the *)
(* window.  The answers are those that the adapters tell apart.            *)
(***************************************************************************)
EXTENDS ReleaseAssembly, DividendRelease, TLC

CONSTANTS Workflows, Pos, Neg, B1, B2, T1, T2, P1, P2

BuilderSymmetry == Permutations(Builders)

\* The first, the digest's target and the last of the release's eight files.
McReleaseFiles == <<"run-plan", "release", "github-artifacts">>

AAPL      == [code |-> "aapl", exchange |-> "us"]
VendorSym == [code |-> "aapl", exchange |-> "nasdaq"]
BareSym   == [code |-> "aapl", exchange |-> Absent]
OtherSym  == [code |-> "aapl", exchange |-> "neo"]

McCaseOf(c, cell) ==
    [negative |-> IF cell = Neg THEN "yes" ELSE "no", symbol |-> AAPL, aliases |-> {AAPL}, first |-> 2, last |-> 3,
     conditions |-> IF cell = Neg THEN {"validation_error"}
                    ELSE IF c = "bond" THEN {"symbol", "date", "close", "identity_verified"}
                    ELSE {"symbol", "identity_verified", "action_type", "date"}]

Identity == [vendor |-> VendorSym, canonical |-> AAPL, aliases |-> {AAPL}]

\* The second registry binds the positive cell to other parameters.
McRegistries ==
    [r \in 1..2 |-> [c \in {Pos, Neg} |->
        [tool |-> IF c = Pos THEN T1 ELSE T2,
         parameters |-> IF r = 2 /\ c = Pos THEN P2 ELSE P1, subject |-> VendorSym,
         identity |-> Identity]]]

McCommits == {[suite |-> 1, registry |-> 1], [suite |-> 2, registry |-> 2]}

McSearches ==
    {[http |-> 200, id |-> "s", tools |-> {T2}], [http |-> 429, id |-> Absent, tools |-> {}]}

SymRow(d, v, s) == [date |-> d, value |-> v, symbol |-> s]
Relays(status, rejects, rows, symbol) ==
    [http |-> 200, json |-> "object", refuses |-> "no",
     result |-> [status |-> status, rejects |-> rejects, rows |-> rows, symbol |-> symbol]]
Fails(http, json, refuses) ==
    [http |-> http, json |-> json, refuses |-> refuses, result |-> NoResult]

McAnswers(c, cell) ==
    IF cell = Neg
    THEN {Relays(404, "yes", <<>>, Absent), Relays(4042, "yes", <<>>, Absent),
          Relays(200, "no", <<SymRow(2, 1, AAPL)>>, Absent), Fails(422, "object", "yes")}
    ELSE {Relays(200, "no", <<SymRow(2, 1, AAPL), SymRow(3, 1, Absent)>>,
                 IF c = "bond" THEN OtherSym ELSE Absent),
          Relays(200, "no", <<SymRow(4, 1, AAPL), SymRow(3, IF c = "bond" THEN Absent ELSE 1,
                                                      OtherSym)>>, BareSym),
          [Relays(200, "no", <<SymRow(2, 1, VendorSym)>>, Absent) EXCEPT !.http = 502],
          Fails(200, "other", "no")}

-----------------------------------------------------------------------------
McMarketFiles == <<"run-plan", "release">>

McMarketCase(c) ==
    [negative |-> IF c = Neg THEN "yes" ELSE "no", symbol |-> AAPL, first |-> 2, last |-> 3,
     conditions |-> IF c = Neg THEN {"validation_error"}
                    ELSE {"symbol", "identity_verified", "effective_date", "amount"}]

\* The second revision knows the vendor's symbol by another code, and asks for
\* something else than it says.
McMarketIdentity(r, c) ==
    LET vendor == IF r = 2 THEN [code |-> "apple", exchange |-> Absent] ELSE VendorSym
    IN  [canonical |-> AAPL, vendor |-> vendor, asked |-> IF r = 2 THEN OtherSym ELSE vendor]

Says(shape, rows, symbol) == [shape |-> shape, rows |-> rows, symbol |-> symbol]

McMarketAnswers(c) ==
    IF c = Neg THEN {Says("refused", <<>>, Absent), Says("rows", <<SymRow(2, 1, Absent)>>, Absent)}
    ELSE {Says("malformed", <<>>, Absent),
          Says("rows", <<SymRow(2, 1, Absent), SymRow(Absent, 1, Absent)>>, BareSym),
          Says("rows", <<SymRow(4, 1, Absent), SymRow(3, 1, [code |-> "sap", exchange |-> "de"])>>,
               AAPL)}

\* The terminal of one answer is given the outcome of another.
McRetouched(t) ==
    LET outcome(p) == EvaluateDividend(McMarketCase(t.cell),
                                       McMarketIdentity(t.revision, t.cell), p)
    IN  {[t EXCEPT !.outcome = outcome(p)] :
            p \in {q \in McMarketAnswers(t.cell) : outcome(q).state # "raises"}} \ {t}

VARIABLE workflow

\* Of a workflow that does not run, one state is enough.
MCInit ==
    /\ workflow \in Workflows /\ Init /\ MarketInit
    /\ workflow = "gateway" => revision = 1
    /\ workflow = "market" => cap = CHOOSE c \in Caps : TRUE
MCNext ==
    \/ workflow = "gateway" /\ Next /\ UNCHANGED <<workflow, marketVars>>
    \/ workflow = "market" /\ MarketNext /\ UNCHANGED <<workflow, vars>>
MCSpec == MCInit /\ [][MCNext]_<<workflow, vars, marketVars>>

=============================================================================
