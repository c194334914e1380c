---------------------------- MODULE DividendRelease ----------------------------
(***************************************************************************)
(* The market release of dividend events.  A live workflow tests each cell *)
(* twice at most (tests/e2e/test_live_dividend_events.py) and uploads its  *)
(* public terminal; a maintainer copies the terminals into                 *)
(* evidence/<id>/.  scripts/export_dividend_market_github_artifacts.py     *)
(* holds them against the artifacts of a run and writes                    *)
(* github-artifacts.json;                                                  *)
(* scripts/build_dividend_market_release.py makes a release of the         *)
(* terminals and that file, over whatever stands in releases/<id>/.  No    *)
(* raw answer leaves the machine of a job.                                 *)
(* A digest is what it is the digest of.                                   *)
(***************************************************************************)
EXTENDS CapEvaluation, FiniteSets

CONSTANTS
    MarketCells,           \* the applicable cells of the market suite
    MarketCase(_),         \* the frozen case of a cell
    MarketIdentity(_, _),  \* [canonical, vendor, asked]: what a revision binds a cell to
    MarketAnswers(_),      \* what the tool of a cell may answer
    MarketRevisions,       \* revisions of suite and bindings
    Retouched(_),          \* what an editor may make of a terminal
    MarketFiles,           \* the files the builder writes, in order
    NoDocument,            \* a file that is not there
    Partial,               \* one that has been truncated and not yet filled
    MaxMarketRuns,         \* bound: workflow runs
    MaxTroubles            \* bound: lost calls, edits, scripts that die

\* What a run makes of an answer to a cell.
MarketTerminal(id, r, c, p) ==
    [cell |-> c, run |-> id, revision |-> r, raw |-> p,
     outcome |-> EvaluateDividend(MarketCase(c), MarketIdentity(r, c), p)]

ASSUME MarketOK ==
    /\ MaxMarketRuns \in Nat \ {0} /\ MaxTroubles \in Nat
    /\ MarketCells # {} /\ Len(MarketFiles) > 0 /\ NoDocument # Partial

\* A case that is no control asks for a dated amount; rows are dated by numbers.
ASSUME MarketAnswersOK == \A c \in MarketCells :
    /\ \/ MarketCase(c).negative = "yes"
       \/ /\ MarketCase(c).negative = "no"
          /\ {"effective_date", "amount"} \subseteq MarketCase(c).conditions
    /\ MarketCase(c).last \in Nat
    /\ \A p \in MarketAnswers(c) :
          /\ Len(p.rows) \in Nat
          /\ \A i \in 1..Len(p.rows) : p.rows[i].date \in Nat \cup {Absent}
          /\ \A id \in 1..MaxMarketRuns, r \in MarketRevisions :
                MarketTerminal(id, r, c, p) # NoDocument

VARIABLES
    runs,          \* GitHub's runs: [revision, tries, kept]
    public,        \* evidence/<id>/: cell -> terminal
    attestation,   \* github-artifacts.json
    bundle,        \* releases/<id>/: file -> the build it is of
    script,        \* the script that runs
    revision,      \* what is checked out
    troubles

marketVars == <<runs, public, attestation, bundle, script, revision, troubles>>

Trouble == troubles < MaxTroubles /\ troubles' = troubles + 1
Calm    == UNCHANGED troubles

NoScript == [pc |-> "none"]

MarketInit ==
    /\ runs = <<>>
    /\ public = [c \in MarketCells |-> NoDocument]
    /\ attestation = NoDocument
    /\ bundle = [f \in {MarketFiles[i] : i \in 1..Len(MarketFiles)} |-> NoDocument]
    /\ script = NoScript
    /\ revision \in MarketRevisions
    /\ troubles = 0

-----------------------------------------------------------------------------
(***************************************************************************)
(* The workflow                                                            *)
(***************************************************************************)
Completed(id) == \A c \in MarketCells : runs[id].tries[c] = 0
Succeeded(id) == DOMAIN runs[id].kept = MarketCells

\* A run begins when the one before has completed.
MarketRun ==
    /\ Len(runs) < MaxMarketRuns
    /\ Len(runs) > 0 => Completed(Len(runs))
    /\ \E r \in MarketRevisions :
          runs' = Append(runs, [revision |-> r, tries |-> [c \in MarketCells |-> 2],
                                kept |-> [c \in {} |-> NoDocument]])
    /\ UNCHANGED <<public, attestation, bundle, script, revision, troubles>>

\* The failed jobs of a run are run again.
MarketRerun ==
    /\ Len(runs) > 0 /\ Completed(Len(runs)) /\ ~Succeeded(Len(runs))
    /\ LET id == Len(runs)
       IN  runs' = [runs EXCEPT ![id].tries =
                       [c \in MarketCells |-> IF c \in DOMAIN runs[id].kept THEN 0 ELSE 2]]
    /\ UNCHANGED <<public, attestation, bundle, script, revision, troubles>>

\* pytest || pytest: a test without an answer, or with one that does not extract,
\* raises and is tried once more; the terminal of a test that passed is uploaded.
\* Jobs share nothing and are taken one after the other, in any order.
MarketTest(c) ==
    /\ Len(runs) > 0
    /\ LET id == Len(runs)
           raised == [runs EXCEPT ![id].tries[c] = @ - 1]
       IN  /\ runs[id].tries[c] > 0
           /\ \A d \in MarketCells \ {c} : runs[id].tries[d] # 1
           /\ \/ Trouble /\ runs' = raised
              \/ \E p \in MarketAnswers(c) : LET t == MarketTerminal(id, runs[id].revision, c, p) IN
                    /\ Calm
                    /\ IF t.outcome.state = "raises" THEN runs' = raised
                       ELSE runs' = [runs EXCEPT
                              ![id].tries[c] = 0,
                              ![id].kept = [d \in DOMAIN @ \cup {c} |->
                                               IF d = c THEN t ELSE @[d]]]
    /\ UNCHANGED <<public, attestation, bundle, script, revision>>

-----------------------------------------------------------------------------
(***************************************************************************)
(* The maintainer's checkout                                               *)
(***************************************************************************)
\* The terminal of a run is put into the evidence directory.
CopyTerminal(c) ==
    /\ script = NoScript
    /\ \E id \in 1..Len(runs) :
          /\ c \in DOMAIN runs[id].kept
          /\ public[c] # runs[id].kept[c]
          /\ public' = [public EXCEPT ![c] = runs[id].kept[c]]
    /\ UNCHANGED <<runs, attestation, bundle, script, revision, troubles>>

\* Somebody edits a terminal, or checks another revision out.
EditMarket ==
    /\ Trouble
    /\ \/ /\ \E c \in MarketCells :
               /\ public[c] # NoDocument
               /\ \E t \in Retouched(public[c]) \cup {NoDocument} :
                     public' = [public EXCEPT ![c] = t]
          /\ UNCHANGED revision
       \/ revision' \in MarketRevisions \ {revision} /\ UNCHANGED public
    /\ UNCHANGED <<runs, attestation, bundle, script>>

-----------------------------------------------------------------------------
(***************************************************************************)
(* The two scripts                                                         *)
(***************************************************************************)
Go(changes) == script' = changes
Ends        == script' = NoScript

Local == {c \in MarketCells : public[c] # NoDocument}

\* gh api: the run must have completed with success.
ExportMarketRun ==
    /\ script = NoScript /\ Calm
    /\ \E id \in 1..Len(runs) :
          /\ Completed(id) /\ Succeeded(id)
          /\ Go([pc |-> "compare", run |-> id, left |-> Local, same |-> {}])
    /\ UNCHANGED <<runs, public, attestation, bundle, revision>>

\* _export: a local terminal is the one in the artifact of its name.
CompareTerminal ==
    /\ script.pc = "compare" /\ script.left # {} /\ Calm
    /\ \E c \in script.left :
          IF public[c] = runs[script.run].kept[c]
          THEN Go([script EXCEPT !.left = @ \ {c}, !.same = @ \cup {c}])
          ELSE Ends
    /\ UNCHANGED <<runs, public, attestation, bundle, revision>>

\* Every artifact of the run has been met; write_text truncates, then writes.
Attest ==
    /\ script.pc = "compare" /\ script.left = {} /\ Calm
    /\ IF script.same # MarketCells THEN Ends /\ UNCHANGED attestation
       ELSE IF attestation # Partial
       THEN attestation' = Partial /\ UNCHANGED script
       ELSE /\ attestation' = [run |-> script.run, terminals |-> runs[script.run].kept]
            /\ Ends
    /\ UNCHANGED <<runs, public, bundle, revision>>

\* validate_dividend_request_identities; a control names no market.
RequestsBound(r) ==
    \A c \in MarketCells : MarketCase(c).negative = "no" =>
        LET identity == MarketIdentity(r, c)
        IN  /\ identity.canonical = MarketCase(c).symbol
            /\ identity.asked = identity.vendor

BuildFails == script' = [script EXCEPT !.pc = "failed"]

\* The suite is compiled and the bindings are loaded and validated.
CompileMarket ==
    /\ script = NoScript /\ Calm
    /\ Go([pc |-> IF RequestsBound(revision) THEN "compiled" ELSE "failed",
           compiled |-> revision, attested |-> NoDocument, registry |-> revision,
           terminals |-> public])
    /\ UNCHANGED <<runs, public, attestation, bundle, revision>>

\* The attestation is read and holds the digests of the evidence files.
ReadAttestation ==
    /\ script.pc = "compiled" /\ Calm
    /\ IF attestation \notin {NoDocument, Partial} /\ attestation.terminals = public
       THEN Go([script EXCEPT !.pc = "attested", !.attested = attestation])
       ELSE BuildFails
    /\ UNCHANGED <<runs, public, attestation, bundle, revision>>

\* The bindings are read again for their digest, and the terminals are parsed.
ParseTerminals ==
    /\ script.pc = "attested" /\ Calm
    /\ Go([script EXCEPT !.pc = "parsed", !.registry = revision, !.terminals = public])
    /\ UNCHANGED <<runs, public, attestation, bundle, revision>>

\* What the assembly compares of each parsed terminal, the bytes of its file at
\* this later moment among it.
TerminalAgrees(t, c) ==
    /\ t # NoDocument
    /\ t.revision = script.registry /\ t.revision = script.compiled
    /\ Judgement(t.outcome) = ValidateDividend(MarketCase(c),
                                 MarketIdentity(script.compiled, c), t.outcome.facts)
    /\ t.run = script.attested.run
    /\ t.raw = script.attested.terminals[c].raw
    /\ script.attested.terminals[c] = public[c]

\* Mutant of AssembleMarket: the bytes of the files are not compared once more.
AssembleUnhashed ==
    /\ script.pc = "parsed" /\ Calm
    /\ IF \A c \in MarketCells : LET t == script.terminals[c] IN
            /\ t # NoDocument
            /\ t.revision = script.registry /\ t.revision = script.compiled
            /\ Judgement(t.outcome) = ValidateDividend(MarketCase(c),
                                 MarketIdentity(script.compiled, c), t.outcome.facts)
            /\ t.run = script.attested.run
            /\ t.raw = script.attested.terminals[c].raw
       THEN Go([pc |-> "writing", next |-> 1, run |-> script.attested.run,
                revision |-> script.compiled, terminals |-> script.terminals])
       ELSE BuildFails
    /\ UNCHANGED <<runs, public, attestation, bundle, revision>>

AssembleMarket ==
    /\ script.pc = "parsed" /\ Calm
    /\ IF \A c \in MarketCells : TerminalAgrees(script.terminals[c], c)
       THEN Go([pc |-> "writing", next |-> 1, run |-> script.attested.run,
                revision |-> script.compiled, terminals |-> script.terminals])
       ELSE BuildFails
    /\ UNCHANGED <<runs, public, attestation, bundle, revision>>

\* write: the directory may exist, and so may the files.
WriteMarket ==
    /\ script.pc = "writing" /\ Calm
    /\ LET f == MarketFiles[script.next]
       IN  IF bundle[f] # Partial
           THEN bundle' = [bundle EXCEPT ![f] = Partial] /\ UNCHANGED script
           ELSE /\ bundle' = [bundle EXCEPT ![f] =
                      [run |-> script.run, revision |-> script.revision,
                       terminals |-> script.terminals]]
                /\ IF script.next = Len(MarketFiles) THEN Ends
                   ELSE Go([script EXCEPT !.next = @ + 1])
    /\ UNCHANGED <<runs, public, attestation, revision>>

\* A failed script is looked at; any script may die.
ScriptStops ==
    /\ script # NoScript /\ Ends
    /\ IF script.pc = "failed" THEN Calm ELSE Trouble
    /\ UNCHANGED <<runs, public, attestation, bundle, revision>>

MarketNext ==
    \/ MarketRun \/ MarketRerun
    \/ \E c \in MarketCells : MarketTest(c) \/ CopyTerminal(c)
    \/ EditMarket
    \/ ExportMarketRun \/ CompareTerminal \/ Attest
    \/ CompileMarket \/ ReadAttestation \/ ParseTerminals \/ AssembleMarket
    \/ WriteMarket \/ ScriptStops

MarketSpec == MarketInit /\ [][MarketNext]_marketVars

-----------------------------------------------------------------------------
(***************************************************************************)
(* Properties                                                              *)
(***************************************************************************)
AnsweredIn(case, identity, p) ==
    IF case.negative = "yes" THEN p.shape = "refused" \/ p.rows = <<>>
    ELSE \E i \in 1..Len(p.rows) :
            LET symbol == FirstOf(p.rows[i].symbol, p.symbol)
            IN  /\ InWindow(case, p.rows[i].date) /\ p.rows[i].value # Absent
                /\ \/ symbol = Absent
                   \/ symbol.code \in {identity.vendor.code, identity.canonical.code}

\* Every file of the release is made of terminals that one successful run
\* uploaded for exactly the suite it is compiled from, and a completed one has a dated
\* amount of the instrument behind it, or an answer that rejects the control.  The evidence
\* files are read four times between export and release, and nothing keeps anybody
\* from editing one of them, or the suite, in between: one edit is noticed, at whatever
\* moment it comes.  Two need not be: a terminal edited before it is parsed and restored
\* before its bytes are compared again goes into the release.
\* (export_dividend_market_github_artifacts.py, build_dividend_market_release.py)
DividendReleaseIsOfOneRun ==
    troubles <= 1 =>
    \A f \in DOMAIN bundle : bundle[f] \notin {NoDocument, Partial} =>
        LET b == bundle[f]
        IN  /\ Succeeded(b.run) /\ runs[b.run].revision = b.revision
            /\ b.terminals = runs[b.run].kept
            /\ \A c \in MarketCells : b.terminals[c].outcome.state = "completed" =>
                  AnsweredIn(MarketCase(c), MarketIdentity(b.revision, c), b.terminals[c].raw)

\* A successful run, exported and built from the revision it ran on without any
\* trouble, becomes a release: the adapter and the validator, written apart, agree on
\* every answer.  Except for one: a control that the provider answers with rows has
\* no facts the validator accepts (cap_packs/dividend_events/direct.py:33-152).
GoodDividendRunsAreReleasable ==
    /\ script.pc = "failed" /\ troubles = 0
    /\ attestation \notin {NoDocument, Partial}
    /\ runs[attestation.run].revision = script.compiled
    /\ \A c \in MarketCells : public[c] = attestation.terminals[c]
    => \/ ~RequestsBound(script.compiled)
       \/ \E c \in MarketCells :
             /\ MarketCase(c).negative = "yes"
             /\ public[c].outcome.state = "provider_negative"
=============================================================================
