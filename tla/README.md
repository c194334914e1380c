# TLA+ verification of qveris-capability-benchmarks

The program freezes a benchmark suite into a run plan, executes each cell of
the plan (case x access path x mode x round) against a provider, keeps evidence
of what it observed, publishes releases that others can replay, and builds
guides from the releases that others can reproduce. This
directory holds TLA+ models of it, TLC configurations that check them on small
instances, and TLAPS proofs about them. Paths below are relative to
`src/qveris_bench/` unless they start with `scripts/`, `docs/` or `tests/`.

Run, in this directory:

    tlc -workers 2 -config orchestrator_safety.cfg MCRunOrchestrator
    tlapm RunOrchestratorProofs.tla

`PROJECT.json` lists every run with its module and configuration, the source
lines each definition models, the hazards, the mutants (a plausible bug for each
property, which the property must catch), the findings and the theorems.


## 1. Inventory

| Component | State it keeps | Operations | Talks to | What is hard | Modelled in |
|---|---|---|---|---|---|
| Run orchestration (`execution/{orchestrator,state,resume,retry,events}.py`) | state file (one JSON document, rewritten by rename), event log (one JSON line per event), the `states` dictionary | recover, claim, execute with retries, settle, handle errors and cancellation | executors, files | crash between two steps, failed writes, restarts | `RunOrchestrator` |
| Harbor catalog export (`scripts/export_harbor_catalog.py`) | `harbor_catalog/` and `harbor_catalog/snapshots/<digest>/`, three files each | fetch or normalize, write the top level, claim a digest, write the snapshot | Harbor (HTTP), files | the service changes between requests, six writes in place, death in between | `HarborExport` |
| Harbor validation (`catalog/harbor_snapshot.py`, `releases/replay.py:145-161`) | none | read contracts, meta, catalog; compare a CAP's pin | the same files, written meanwhile | reads of several moments | `HarborValidation` |
| Provider registry (`providers/`) | one `provider.yaml` each | list, qualify, cohort check | compiler, executors | read-modify-write in place without a lock | `ProviderRegistry` |
| Suite compiler and run matrix (`suites/`, `execution/{direct,qveris}_binding.py`) | the frozen suite, the run plan | compile, fingerprint, expand into cells, validate bindings | provider registry, Harbor pins, authors | up to ten files read one by one while they are revised; precedence of applicability rules | `SuiteCompilation` |
| QVeris executor and evidence store (`execution/{qveris,http}.py`, `evidence/`) | raw and public artifacts named by digest | search, describe, execute, persist | gateway, live jobs | an answer lost after the call, torn files, a job that is cancelled | `GatewayJob` |
| Outcomes and CAP adapters (`outcomes/`, `cap_packs/*/{direct,extractors}.py`) | none | judge an answer; judge it again from its public facts | jobs, builders | two judges written apart | `CapEvaluation` |
| Release build (`releases/{builder,public_terminal,github_exports}.py`, `scripts/build_*_release.py`, `scripts/export_dividend_market_github_artifacts.py`) | `evidence/<id>/`, one file per applicable cell, and `releases/<id>/`, eight files | collect a run's artifacts, compare, assemble, write | GitHub runs, gate, registry | artifacts of several attempts and runs; two builders of one id; files written one by one | `ReleaseAssembly` and `DividendRelease` (what they make of a run), `ReleaseBundle` (what is on disk) |
| Release gate (`releases/gate.py`, `models/metric.py`) | none | set checks of cells, evidence, facts and metrics; rank check | builder, replay, verify | three tie methods, incomplete cohorts, duplicates | `ReleaseGate`, `RankingCohort` |
| Replay and verify (`releases/{canonical,replay,verify}.py`) | none | rebuild and compare, verify a digest | gate, Harbor files | files read one by one while they change; several callers of one gate with different arguments | `ReleaseBundle` |
| Selection snapshots (`profiles/`, `models/selection.py`) | a snapshot file | join two releases, the registry, prices | replay, compiler | joins over partial data; which cells count | `SelectionSnapshots` |
| Article factory (`articles/`) | writer input, facts, charts, article, manifest | prepare, admit edited copy, build, reproduce | snapshot, authors | files re-read after they were used; a chain of commands of which one may be forgotten | `ArticlePackage`, `Publication` |
| Publication reproduction (`publications/`, `cap_packs/*/publication.py`) | temporary directory | replay releases, digest package, run the adapter offline, compare | replay, adapters, authors | files read again after they were checked | `Publication` |
| Agent trial (`agents/`) | clock, token count | ask the model, check the one call, run the tool | model client, canonical tool | one timeout shared by two awaits, and a tool nobody awaits | `AgentTrial` |
| Agent-trial probes (`agent_trial/`, `scripts/agent_*_probe.py`) | a JSONL file each, shared by fixtures | grade a call or a recovery, append the grades | model client | order of the checks decides the failure mode; all answers gathered before one is written | `AgentScoring`, `ProbeBatch` |
| Direct probe and article skeleton (`scripts/cap_direct_test_probe.py`, `scripts/render_guide_article.py`) | raw evidence files, a shared JSONL file | a thread per supplier; aggregate the newest batch | providers, authors | exceptions that leave a thread, processes killed while appending | `ProbeBatch` |
| Question bank (`question_bank/`) | YAML records | cross-reference checks | CAP packs, Harbor | - | not modelled |
| Charts, fixtures, crypto runner, the remaining commands | output files | render; start the others | - | wording, layout, external formats | not modelled |

How they interact. Authors and operators edit the registry and the CAP documents;
the compiler reads them and freezes a plan. A live workflow runs one job per cell,
each of which asks the gateway, lets its CAP adapter judge the answer, and uploads
files. A builder downloads them, re-judges them, passes the gate and writes a bundle;
replay and verify read it back. A selection snapshot joins two bundles with the
registry and prices; writer input, edited copy, facts, charts and article follow
command by command; the publication service replays and rebuilds it all offline.
Beside this stand the orchestrator, which runs a plan locally through an executor,
the trial and probe programs on an engineer's machine, and the Harbor exporter whose
digests everything pins.

What makes each component correct:

* *Orchestration*: a cell is claimed on disk before its executor runs; outcomes on
  disk are the executor's and final; after any crash a restart finds exactly the
  interrupted cells; with finitely many faults everything settles.
* *Export and validation*: a digest that was reported stays complete and unchanged;
  what a validator accepts is backed by the snapshot its pin names.
* *Registry and compiler*: a reported decision is not lost by others; a frozen cohort is whole;
  one fingerprint means one plan; the agent only gets the protocol's tool; validated
  bindings serve every plan of that fingerprint.
* *Live jobs and release build*: a terminal that says completed has an answer behind it; a
  release is made of the run it names, by one builder; honest runs can be released.
* *Release gate*: an accepted rank is the right one, a right one is not refused;
  no cell without evidence and no evidence without a cell.
* *Replay, verify*: what was built replays and verifies; under the published digest
  what replays is that build, never a mixture; a release id is written once.
* *Publication*: what the reproduction compares of a package it vouches for is one complete
  build of the checkout and says what the releases say; an honest build is not refused. Of the
  Dividend guide only tables, claims, advice and links are compared.
* *Agent trial and probes*: at most one tool call, within budget and time; figures are of one run
  and have their raw answers.


## 2. The modules

    CellLifecycle         states and transitions of a cell (operators)
      RunOrchestrator     one process after another on the run files
        MCRunOrchestrator     small instances
        RunOrchestratorProofs proofs
      CellLedger          what the state file promises; RunOrchestrator implements it
    HarborExport          the exporter, its files, Harbor, the operator
      HarborValidation    the exporter beside a validator or a release replay
        HarborProofs          proofs of both
    ProviderRegistry      operators who qualify access paths in shared files
      SuiteCompilation    programs that compile while files are revised
        MCSuiteCompilation    small instance
        SuiteCompilationProofs proofs
    CapEvaluation         the two judgements of an answer (operators)
      GatewayJob          the jobs of a live workflow run and what they upload
        ReleaseAssembly   builders that make a release of the artifacts
      DividendRelease     the market run of dividend events and its two scripts
          MCLiveRelease       small instance: one of the three workflows
          LiveReleaseProofs   proofs about all three
    RankingCohort         the rank check of the release gate
      MCRankingCohort     small instances
      RankingCohortProofs proofs
    ReleaseGate           the gate's comparisons of cells and evidence (operators)
      ReleaseBundle       builders, the files of a bundle, replay and verify
        MCReleaseBundle       small instance
        ReleaseBundleProofs   proofs
    SelectionSnapshots    rows of a snapshot (operators)
      ArticlePackage      writer input, facts, article, Dividend guide (operators)
        Publication       authors, commands and the reproduction service
          MCPublication       small instances
          PublicationProofs   proofs
    AgentTrial            one trial against a clock
    AgentScoring          how a call and a recovery are graded (operators)
      ProbeBatch          probe processes and the files they share
        MCLocalProbes         a trial, or two probes
        LocalProbeProofs      proofs about both

`ReleaseAssembly` and `ReleaseBundle` look at a builder from two sides: the first has the
artifacts of the run in detail and three of the eight files of a bundle, the second takes a
measured run for granted and has every file, edits, replay and verification.

### Run orchestration

| Model | Code |
|---|---|
| `disk`, `tmp`, `stage` | `RunStateStore`: the file, its `.tmp` sibling, whether the next step writes text or renames (`resume.py:13-21`) |
| `logged`, `logFile` | `EventLog`: last event per cell; whether the whole file still parses, which every append checks first (`events.py:17`) |
| `mem`, `stale`, `cursor`, `plan`, `pc` | `states`, `stale_keys`, the loop over `plan.cells`, the statement reached in `run` |
| `tries` | attempts left to `retry_with_budget` |
| `observed` | history: the last answer `transition` accepted |
| `Start` | construct and `run()`: read the store, refuse another plan's file (`resume.py:27`) |
| `RecoverCell`, `AllRecovered`, `RecoverWritten` | the stale RUNNING cells become INFRA_BLOCKED, one event each, then one write (`orchestrator.py:41-45`) |
| `Skip`, `Claim`, `ClaimWritten`, `Request` | resume test, RUNNING, write, request event (46-58) |
| `Answer`, `InvalidAnswer`, `Retry`, `ExecutionRaises` | the executor's answer, `transition`, an exception within and beyond the budget |
| `Complete`, `SettleWritten` | completion event (inside the try block), write (62-74) |
| `Block`, `BlockedWritten`, `ErrorLogged` | the `except Exception` path (65-69) |
| `Interrupt`, `InterruptWritten` | the `except BaseException` path (70-73) |
| `RecoverRaises`, `RequestRaises`, `CompleteRaises`, `ErrorRaises`, `WriteRaises` | an OSError or a log that does not parse, at each place |
| `Crash` | the process is killed, also between text and rename |

A cell is its position in the plan and a plan is its fingerprint. Executors are
external: any state with or without a digest, any exception. An event is its type and state:
the log's sequence numbers, timestamps and redaction are left out. A rename is
atomic and durable; loss of a rename in a machine crash is not modelled.

`CellLedger` is the abstract specification: one owner plan, one entry per cell,
each entry moving along the state machine, blocked entries reopened, terminal
ones never touched. `ImplementsLedger` maps `owner` to `disk.plan` and `ledger` to
`disk.states`.

### Harbor

| Model | Code |
|---|---|
| `harbor` | the service's present catalog and contracts; `HarborChanges` may replace them between two requests |
| `top`, `snapshots` | `harbor_catalog/` and its `snapshots/`; a file is missing, partial or a document |
| `Export`, `FetchContract`, `FetchFails`, `BeginWrite`, `ExportIncomplete` | `export_catalog` with the errors it collects |
| `Normalize` | `normalize_catalog`: records read from the directory itself |
| `WriteTop`, `ClaimDigest`, `DigestKnown`, `DigestRefused`, `WriteSnapshot` | `_write_catalog`, `_write_immutable_snapshot`, `_write_snapshot`; each file is truncated and then filled |
| `Succeed`, `Stop`, `Abort` | report a digest; end with an error; OSError or death at any point |
| `Edit` | somebody edits a top-level file |
| `Begin`, `ReadContracts`, `ReadMeta`, `ReadCatalog`, `Accept`, `Reject` | `validate_harbor_source`: four reads of three files, contracts.json twice, each at its own moment |
| `Source`, `SnapshotIsFile` | `_snapshot_contracts_path`: the snapshot if it is a file, else the top level |
| `published` | history: digest to the catalog it was reported with |

A document is its content and the digest of a document is the document: SHA-256 is
taken to have no collisions. meta.json is the contracts it was computed from.
There is one exporter at a time: it is run by hand, or weekly in a checkout of its
own (`.github/workflows/harbor-catalog-export.yml`). Malformed JSON other than a file
caught half-written is left out.

### Registry and suites

| Model | Code |
|---|---|
| `registry` | every `providers/<name>/provider.yaml`; between truncation and write it is the empty document `Torn` |
| `opc`, `draft`, `Start`, `Load`, `Refuse`, `Truncate`, `Fill`, `Report` | `qualify_provider_file`: the file is loaded twice, changed in memory, written in place, loaded once more |
| `Die`, `EditFile`, `Revise` | a killed command, an editor, a commit of other documents |
| `purpose`, `got`, `Begin`, `Read`, `Fail`, `TruncateOutput`, `Finish` | `suite freeze`, `suite plan`, the validation of Direct bindings and of a QVeris binding: one document or provider file per step, each with its checks (`Passes`), then what needs them all (`Accepts`) |
| `Snapshot`, `Reason`, `Plan` | `_snapshot`, `_applicability_reason`, `expand_run_plan` |
| `standing`, `overlapped` | history: whose reported decision stands; who shared a file with another writer |

A provider file is its provider and its paths with the facts a suite reads; other
fields are left out, so a fingerprint is the snapshot it digests. Compiles write
nothing others read, so one process runs them one after the other.

### Live jobs and release assembly

| Model | Code |
|---|---|
| `run`, `todo`, `Launch`, `StartJob` | a dispatched workflow run, its matrix, a re-run of the failed jobs, a later run |
| `job`, `Search`, `Describe`, `Execute`, `PersistEnvelope`, `Judge`, `Upload`, `Cancel` | `tests/e2e/test_live_*.py` with `execution/qveris.py`: each call may be lost, answered with an error or with anything of `Answers`; a cancelled job still uploads, perhaps a torn file |
| `artifacts`, `Entries`, `Intact` | what GitHub keeps; `verified_archive` and the digest in a file's name |
| `ExportRun`, `ExportArtifacts`, `Collect`, `Digest`, `Assemble` | `gh api` exports and `build_release_from_artifacts`: comparison with run, matrix, bindings and private execution, re-evaluation; the registry is read three times |
| `WriteEvidence`, `WriteRelease`, `BuilderDies` | the writes, of the eight files the first, the digest's target and the last |
| `EvaluateBond`, `ValidateBond`, `EvaluateAction`, `ValidateAction`, `EvaluateDividend`, ... | adapters and public validators of three CAPs |
| `executed` | history: every execute call the gateway answered |

Jobs run on machines of their own and share nothing, so they are taken one after the
other in any order. A payload is the status, whether an error field names the request
invalid, and the rows found; where in a provider's JSON they are found is left out.
The workflow of a run is that of bonds or of corporate actions.

`DividendRelease` is the third workflow, which keeps no private artifacts and has scripts of
its own:

| Model | Code |
|---|---|
| `runs`, `MarketRun`, `MarketTest`, `MarketRerun` | `live-dividend-market-coverage-e2e.yml`: each test is tried twice, what passed uploads its terminal |
| `public`, `CopyTerminal`, `EditMarket` | the evidence directory of the checkout, put there by hand; an editor, `git checkout` |
| `ExportMarketRun`, `CompareTerminal`, `Attest` | `export_dividend_market_github_artifacts.py`: a successful run, each local terminal against its artifact, `github-artifacts.json` written in place |
| `CompileMarket`, `ReadAttestation`, `ParseTerminals`, `AssembleMarket`, `WriteMarket` | `build_dividend_market_release.py`: suite and bindings, attestation and a first look at the evidence files, a second one that parses them, a third one that hashes them, and the writes, over whatever is there |

The script compares the evidence files with the attestation when it starts and again when it
assembles, but parses them in between: an edit that is undone in time gets past both
comparisons. Two edits can do that. One edit is noticed whenever it comes, and this is what
`DividendReleaseIsOfOneRun` says: its guard `troubles <= 1` counts edits, failed tests and re-runs.

### Publication

| Model | Code |
|---|---|
| `tree` | the checkout: sources, two releases, the generated files; a file is what it was made from and whether it was edited by hand |
| `task`, `read`, `temp` | the running command, what it has read so far, the temporary directory of a reproduction |
| `Author`, `Begin`, `WriteEditorial`, `PublishGuide`, `SkipCommand` | the commands in the order of the guide, by an author who may forget one |
| `SnapshotInput` ... `BuiltSnapshot` | `build_selection_snapshot`, a step per read; `Row` and its parts are what it joins |
| `WriterInputStart`, `WriterReleases`, `ArticleLoad`, `WriteFacts`, `WriteCharts`, `WriteArticle`, `CurrentInputs`, `WriteManifest`, `Redraw`, `Reword`, `Remanifest` | `build_writer_input`, both renderers of `build_article_package` |
| `CompareGuide`, `RecordedInputs`, `ChartsMatch`, `ManifestMatches`, `ArtifactsMatch` | the article adapters' reproduction |
| `DividendRefs` ... `DividendArticle` | the Dividend adapter, which checks a guide written by hand: its tables, claims, advice, rankings and links (`said`), never the rest of its text (`prose`) |
| `Groups`, `BasicUS`, `QuickRecommendation`, `AdviceHasWords` | the ten lists of paths `_validate_selection_advice` joins, the fixed sentence of the quick recommendation, and `_english_list`, which raises on an empty list |
| `ServiceStart`, `ServiceReleases`, `ServiceDigest`, `ServiceAdapter`, `ServiceReport` | `reproduce_publication_package` |
| `EditSource`, `EditRelease`, `EditDerived`, `Kill` | editors, `git checkout`, a killed command |
| `history` | what has happened to the package, e.g. "disturbed": edited while a reproduction ran |

A release is the outcome and the public record of each cell. Article and charts are
the statements they make of the snapshot; charts also have the platform that encoded them. The
Dividend guide is a record of two fields: `said`, everything `publication.py:454-752`, 887-1074 and
1077-1167 compare, and `prose`, everything else. An edit of `said` is refused, one of `prose` is vouched
for. A release also has, for each cell, what the Dividend adapter reads of its answer: whether the
identity was matched, the currency, and which dates there are (`facts`). `Paths` that measure equal
latencies are listed together, where the code takes the first row.

### Trial and probes

`AgentTrial` is `AgentTrial.run` against a clock: `Tick` passes time in a wait, `ModelAnswers`
returns any answer of the Responses API, `CheckAnswer` checks it in the code's order,
`Deliver` is the invoker the repository's tests give it (frozen parameters, then the
provider), `ToolReturns` looks at the clock once more.

`ProbeBatch` has a probe process per `run`. `Gather` is one that calls everybody before it
writes: `DirectTurn` for the threads of the direct probe, of which an exception that
`run_supplier` does not catch loses everything (`CallEscapes`, `Lost`), `ModelTurn` for the
agent probes. Then `KeepRaw` writes one raw answer per step and `WriteLine` appends one line per
step; `Die` may leave half a line. `Figures` is what `render_guide_article.py` would count at any
moment. One process makes its calls at a time: calls of different processes share nothing;
the writes interleave freely.

### Rank check

`RankingCohort` follows `_validate_ranking_cohort` from the score dictionary it is
handed (`ReadScore`, one entry of the dictionary comprehension per step) over the
early error exits (`Check`) to the pass over the sorted scores (`RankNext`, one
iteration per step) and the final comparison (`Conclude`). A provider and access
path are one member; the identifiers all rankings must share are one
field `metric`; the cohort digest is the set it digests. Scores are integers; the
code's floats are finite (`allow_inf_nan=False`) and only compared.
`ReferenceRank` defines rank without sorting: one plus the number of better
members, or of better values in the dense method.

### Release bundle

| Model | Code |
|---|---|
| `runs`, `Measure` | what a GitHub workflow run measured, and with which revision of the suite (external) |
| `dir` | every file of `evidence/<id>/` and `releases/<id>/`: missing, partial or a document |
| `claimed`, `Start`, `Claim` | the test that neither directory exists, before the artifacts are read, and the `mkdir` that fails if it does by then (`build_corporate_actions_v2_release.py:72-75`, 261) |
| `job`, `Assembles`, `Input`, `Manifest`, ... | `assemble_public_terminal_release`: what is made of a run, in memory |
| `Truncate`, `Fill`, `Die` | one file after the other: evidence, the seven files of `write`, the attestation; death or an OSError at any point |
| `published` | the release whose digest a builder printed |
| `Rebuild` | `release build` over the input files of a bundle |
| `Edit` | somebody edits cells or evidence, deletes a file, or takes it from another build of the same id |
| `StartReplay`, `ReadFile` | `replay_release_dir`: the five required files, then, if there is a manifest, what it names, each at its own moment and checked at the place the code checks it |
| `ReplayAccepts`, `Verifies` | the whole of replay's conditions; `verify_release` |
| `GateAccepts` | `validate_release_inputs`, without metrics |

A digest is the document it digests. JSON arrays of cells and bundles are sets, because
the release is built from them sorted; two equal entries are one. A terminal document is its
run and cell. The comparison of a run's archives, private documents and metrics with the
terminals refuses runs that the model never starts with. `build_govt_bond_yield_release.py` is a
builder of the same shape; `build_dividend_market_release.py`, which writes over an existing
directory, is in `DividendRelease`.

The gate looks at the attribution and the state of each cell but requires evidence of
applicable cells only, and it does not compare `outcome_ids` with the states: a cell that
does not apply may be edited to completed, and the outcome ids of an edited bundle may be
out of date, and the bundle rebuilt and replayed. Only the published digest tells such a
bundle from the original, which is what docs/release-replay.md says of coordinated edits.


## 3. The runs

| Run | Instance | Shows |
|---|---|---|
| `orchestrator_safety` | two plans of three cells, one of them not applicable in the first plan; 2 retries; every answer an executor can give; at most 2 faults out of crash, cancellation, failed write, failed append, partial log line. 1.0 M states | type invariant, `ClaimedBeforeExecution`, `RunningIsInFlight`, `OutcomesAreObserved`, `PassedCellsAreSettled`, `ImplementsLedger` |
| `orchestrator_liveness` | one such plan, 2 faults, no partial log lines | `RunsEnd`, `EveryCellSettles` |
| `harbor_export` | 2 capabilities x 2 versions x 2 catalog texts, 1 change, 1 fault. 1.2 M states | `PublishedIsComplete`, `TopMatchesSnapshot`, `SnapshotFilesAreWriteOnce` |
| `harbor_validation` | 1 capability x 2 versions, 1 change, 1 fault, a reader with any pins. 1.6 M states | `AcceptedIsBacked`, `PublishedPinsReplay` |
| `suite_freeze` | 2 provider files, 3 access paths, 2 operators on one file, 9 revisions, 2 compiles, 1 edit, commit or death. 0.3 M states | `SuiteTypeOK`, `DecisionsStand`, `CohortIsWhole`, `FingerprintIdentifiesPlan`, `AgentCellsUseTheCanonicalTool`, `ValidatedBindingsResolve` |
| `live_release` | a positive case and its control, 2 CAPs, 2 commits, 8 answers, 2 builders, 1 incident of each side; or a market run of dividend events: 2 revisions, 5 answers, 2 runs, 1 incident. 0.7 M states | `AssemblyTypeOK`, `ReleaseBindsItsRun`, `CompletedMeansAnswered`, `ReleaseIsWhole`, `GoodRunsAreReleasable`, `DividendReleaseIsOfOneRun`, `GoodDividendRunsAreReleasable` |
| `rejected_control` | the corporate-actions workflow without incidents | **violated**: finding 1 |
| `ranking_cohort` | 3 members, 3 values, every list of 3 rankings under each tie method and direction, incomplete and contradictory cohorts of 2. 2.2 M states | `AcceptedIsRight`, `RejectedIsWrong` |
| `release_bundle` | 3 cells, 2 of them applicable; 2 suite revisions, 2 runs, one of the two possible results unreleasable; 2 builders; 2 edits, 1 death. 0.6 M states | `BundleTypeOK`, `ReplayedIsBacked`, `TrustedIsThePublished`, `PublishedReplays`, `ReleasesAreImmutable` |
| `publication` | articles on 3 paths, the Dividend guide on 6, 2 markets; every pair of outcomes of two rounds, and of a control, of one path in one of two releases, for every decision type and the Dividend guide; or one release with an incident on every pair of platforms; or a published guide reproduced with up to two. 0.24 M states | `PublicationTypeOK`, `VerifiedPackageIsFresh`, `GuideStatesReleasedEvidence`, `UndisturbedBuildReproduces` |
| `sample_passed` | the same instance | **violated**: finding 2 |
| `local_probes` | a trial with 5 proposals, a timeout of 2 ticks; or 2 probe processes over 4 fixtures that share providers and files, 1 of them killed. 0.6 M states | `TraceFollowsTheProtocol`, `FiguresAreOfOneRun`, `RawBacksTheRecords` |

Why the bounds suffice. *Orchestration*: three cells give a cell before, at and
after the cursor, with one the suite rules out among them; two plans are enough for
a foreign state file; two faults reach every fault during the handling of another one, and
2 retries the first, the middle and the last attempt. *Harbor*: two capabilities
are what it takes for Harbor to drop one while the other is fetched; one change and
one fault in every order; exports follow each other without bound. The reader run
needs the contents to differ, not several capabilities: two capabilities beside
a reader pass ten million states. *Suites*: two operators of one file are what an overlap takes, two
compiles what a comparison of fingerprints takes; each revision changes something the plan depends on,
some of them against another document. *Live release*: a re-run, a second run, a lost call, a cancelled job
and an edited checkout are one incident each; `MaxIncidents` bounds jobs and edits apart.
The answers are one for each branch of the adapters, and a builder that fails leaves the other
one to race. *Bundles*: two builders and two runs are what a race for a release id takes; two edits
make an edit and the rebuild that covers it up, or a mixture with two foreign files; two
applicable cells let one lose its evidence while the other keeps it. Builders, runs and suites
are symmetric: no formula tells them apart. *Ranks*: three members with three values give all
patterns of ties (none, at the front, at the end, all), and three ranks all gaps.
Longer lists are covered by the proof for the accepting direction. *Publication*: outcomes vary in
one path, the others give something to compare with; two incidents make an edit and
a forgotten command, or an edit during the reproduction and its undoing. Nothing asks which of
two rounds came first, so a pair of outcomes stands for both orders. Six paths are what it takes to fill the ten groups
of the Dividend advice; varying one of them empties a group (that guide is then refused) or, where another path is
in the same group (`BroadMarket`), moves it out of the recommendation. Both happen in the run. *Probes*: two processes and what an
earlier batch left make three batches in one file; one death gives the half-written line.

### Fairness

`orchestrator_liveness` uses `FairSpec`: weak fairness of the program's next statement
(`Progress`, a single running interpreter whose executors have timeouts), weak
fairness of `Start` (whoever runs the benchmark starts `resume` again after it
stopped), and strong fairness of `Settles(c)`: a cell that is executed again and again gets a terminal answer some day. That
last one is an assumption about providers, not about the code. The other programs run once and
end, whatever happens; nothing waits for anything, so safety is what there is to say of them.

Deadlock is checked except where every process is started a bounded number of times and ends
(`ranking_cohort`, `suite_freeze`, `live_release`, `publication`, `local_probes`).


## 4. The findings

1. `rejected_control`: the corporate-actions adapter accepts the provider status 4042 as an
   explicit rejection (`cap_packs/corporate_actions/direct.py:188`), but asks
   for a status of 500 or more first (58-61), so a control that a provider rejects with
   it is published as blocked infrastructure.
   `tests/cap_packs/test_corporate_actions_direct.py:44` says that an explicit
   rejection completes the control.
2. `sample_passed`: the Dividend adapter demands the words "Sample passed" of every path with one completed round
   (`cap_packs/dividend_events/publication.py:1183`), while the guide it checks explains them as "every
   frozen round completed" (`docs/guides/best-dividend-apis.md:36`).

### Divergences seen while modelling

These have no run of their own; the properties named leave them out on purpose.

* The completion event is emitted inside the try block whose handler saves
  INFRA_BLOCKED (`orchestrator.py:59-67`): when the append fails, an accepted
  provider_negative becomes infra_blocked on disk and is executed again, although
  `docs/architecture/platform.md:225` says that it cannot be retried into an infrastructure
  failure. `OutcomesAreObserved` allows this direction.
* `docs/architecture/platform.md:217` says that a running cell is "protected by a valid
  lease". There is none: two processes on one state file execute the same cell.
* Every append parses the whole log first, so after one partial line each later start
  with a stale cell raises at the "recovered" event, before the recovery is saved
  (`orchestrator_liveness` with `FaultKinds = {"torn"}` shows it). These need an event log, which the tests pass and the command line does
  not.
* An exporter that dies while it fills `snapshots/<digest>` leaves a directory that makes
  every later export of the unchanged catalog fail (`export_harbor_catalog.py:149-155`).
* Of two scores of one member in a release the last one in the list replaces the first
  (`gate.py:192`), and ranks are verified against that one only.
* `releases/verify.py:23` calls the gate without a metric registry: a release built with
  `release build --metric-registry` (`cli.py:595`) cannot be verified.
* A corporate action whose identity does not match is published by the job, but the
  validator refuses it (`direct.py:102-107` against 300-311), so that run is never releasable; a
  dividend control that fails has no facts and is unreleasable too. A bond job survives an answer that is no JSON, and the
  builder refuses it. `GoodRunsAreReleasable` is about bonds and excepts that answer.
* `execute_discovered_tool` raises again when a call had no answer at all (`qveris.py:213`): such a
  cell has no terminal, where the CAP plans speak of infra-blocked.
* `_gateway_metrics` can have costs without latencies, and a path without control cells no
  agent-interface row; both end in a validation error and not in a row.
* The manifest hashes of a snapshot are taken again after the files were listed
  (`selection.py:206`, 280); `live_calls` understates without `include_market_run_observations`
  (`factory.py:632`); the article command writes the second renderer's package only, so that the
  package of an adapter of the first cannot be rebuilt with it. `UndisturbedBuildReproduces` excepts it.
* The quick recommendation of the Dividend guide is one fixed sentence
  (`cap_packs/dividend_events/publication.py:1041-1049`). The adapter demands that it start with four
  providers by name, whoever passed, and that it say "Alpha Vantage passed all {n} markets that QVeris marked
  applicable" also when Alpha Vantage has a market that is provider_negative or lacks evidence: it then insists on a claim
  that its own market table contradicts. Its two counts are those of the releases, and that is all
  `QuickCountsAreReleased` claims of it. The advice has more fixed words of that kind ("both representative
  CN rounds", "Native MCP" after every path without required fields, "in all three baseline rounds", 643-726).
* `_english_list` has no words for an empty list: `values[-1]` raises (1204), and the service turns the
  IndexError into a refusal (`publications/service.py:139`). When a release leaves one of the ten groups of the advice
  without a path, e.g. because its only member failed in US, no guide is accepted, however honest.
  `UndisturbedBuildReproduces` excepts it (`AdviceHasWords`).
* The Dividend adapter never compares the guide as a whole: it looks for table cells, sentences, numbers,
  digests and links. Prose edited by hand elsewhere in it is vouched for. The guide claims no more:
  "checks the material facts and links in this article" (`docs/guides/best-dividend-apis.md:175`).
* The service takes the package digest after it replayed the releases, and the adapter reads the files after that
  (`publications/service.py:92`): an edit in between can be reported under a digest that is not the one of the files
  that were checked. Every property of *Publication* is about reproductions nobody disturbed (`Vouched`).
* Two operators who qualify paths of one file at the same time lose a decision (`providers/repository.py:182`);
  `DecisionsStand` is about operators nobody overlapped.
* A package of the second renderer that leaves its chart mode at the default
  `canonical_linux_bytes` (`models/publication.py:24`) is reported as verified and not as verified
  semantically (`publications/service.py:147-150`), although that renderer compares pixels on every
  platform. The repository's `README.md:42` says that the report tells whether the canonical
  chart bytes were reproduced.
* The exempt path of the Dividend guide, which has no cell in the China market, counts as one whose required
  fields passed with its "0/n" (`cap_packs/dividend_events/publication.py:372`).
* `scripts/render_guide_article.py:237` promises the newest probe batch of each provider; `_latest_batch` takes
  the newest of the whole file, so fixtures that share a file replace each other's figures.
* In `cap_direct_test_probe.py` a URLError, KeyError or JSON error leaves its thread and
  loses the results of all suppliers; in the agent probes any failure other than an
  HTTPError loses all earlier answers.
* `agents/base.py:149` knows the types string, number and boolean: a parameter declared
  integer or array is refused with every value, though `agent_trial/param_fill.py:126` accepts it.
  `AgentProtocol.maximum_calls` is read nowhere.


## 5. The proofs

All theorems hold for every value of the constants that satisfies the named
assumptions of the modules (`ConstantsOK`, `ExportOK`, `InputsOK`, `AttributionsOK`, `BundleOK`, `DocumentsOK`, `RegistryOK`, `ContentsOK`,
`VersionsOK`, `GatewayOK`, `AnswersOK`, `ReleaseFilesOK`, `MarketOK`, `MarketAnswersOK`, `PathsOK`, `ReleasesOK`,
`IncidentsOK`, `ScenariosOK`, `TrialAssumption`, `ProbeAssumption`, `ProposalsAreFunctions`), which TLC
evaluates in the runs.

**Orchestration** (`RunOrchestratorProofs`). `TypeCorrect`, `WriteAheadClaim`,
`NoAbandonedRunning`, `OutcomesAreGenuine`, `NothingLeftBehind` prove the five invariants of the
safety run, `LedgerImplemented` the refinement and `TerminalOutcomesStay` that no
step changes a terminal outcome on disk. None of the invariants is inductive alone: the
state file and the dictionary differ while a write is pending. `IInv` says by how much at
each point of the program: `Ahead` is the set of cells whose dictionary entry may be
ahead of the file (the stale cells during recovery, the current cell from claim to
write, none otherwise), `MemoryInv` that all other entries agree, `RecoveryInv` and
`CellInv` what the entries ahead are, `ProcessInv` that a pending rename will install
exactly the dictionary. `LedgerStep` needs only that: a rename is the sole
step that changes the file, and what it installs differs from it by one legal transition.

**Harbor** (`HarborProofs`). `ReportedDigestsStay`, `SuccessIsOneExport` and
`SnapshotsAreImmutable` follow from `ExportInv`: which files of the directory being
written are there already (`WrittenSoFar`), which are not (`UnwrittenYet`), and that the
directory is under no reported digest. Beside a reader every step is one of the exporter or
leaves the exporter's variables alone (`ValidationIsAnExport`), so all this still holds. `AcceptanceIsBacked` and
`ReportedDigestsReplay` add two facts (`ValidationInv`): a complete contracts.json under
`snapshots/` is the one its directory is named after and never disappears (`NamedByDigest`), and
what a reader has read so far passed the checks made up to that point (`Reading`, `Replaying`).

**Ranks** (`RankingCohortProofs`). `GateAcceptsRightRanks`: for any number of
members, an accepted cohort is complete and each rank equals `ReferenceRank`. The
invariant says what the loop has at each place of the sorted list: `dense` counts the
values so far and every rank given so far is right (for the ordinal method, if there
are no ties: such a cohort is refused at the end). The lemmas carry the argument:
completeness makes members and places correspond one to one (`MembersDiffer`,
`PlacesAreMembers`); where a new value begins, the better members are those before it
(`BetterIsBefore`); so counting them is counting places (`MembersCount`) or values
(`ValuesCount`), and members with the same value have the same rank (`RankOfSameValue`).
`GateKeepsNoRightRankOut` is the other half: a complete cohort whose ranks are all right (and, under the ordinal
method, whose values all differ) is never refused. It needs the converse at each place: if every rank
equals `ReferenceRank`, the comparison the loop makes there succeeds.

**Release bundle** (`ReleaseBundleProofs`). `Immutability` rests on `WriteInv`: before the
evidence directory exists nothing is written and nobody writes (`Untouched`); one builder
at most writes (`OneWriter`); the files from its position on are missing, the one it fills empty
(`Ahead`). The last needs that no file comes twice in the order of writing
(`WrittenOnce`), hence the assumption that evidence files and bundle files are different
files. `ReplayIsBacked` follows from the conditions replay checks on what it
has read (`AcceptsBacked`), whatever the directory held in the meantime: unique keys on both
sides and equal key sets make the bundles and the applicable cells correspond one to one.
`DigestIdentifies`: the published bytes are the release of a run whose measurement no longer
changes (`Published`), and those bytes determine the input, which pins plan, manifest and
attestation, and the manifest the rest (`AcceptsOneBuild`). That needs the digests to be
free of collisions, and `Immutability` for the digest to stay the one that was printed.
`UneditedReleasesReplay` needs more of a builder at work: as long as nobody has edited anything, each file before its
position is the document its run makes there (`Alone`), so once a digest has been printed the directory is one
whole release of one run, and a replay that reads it at any moment accepts it.


**Registry and suites** (`SuiteCompilationProofs`). `ReportedDecisionsStand`: for any number of
operators, files and edits. `RegistryInv` says why nobody may overlap: two operators at work
on one file have both been seen to overlap (`OverlapsAreSeen`), so nobody's decision begins to
stand while somebody else holds a draft of the file; a draft therefore carries every decision that
stands, but for the one it replaces (`DraftsCarryOver`), and what has been written is still there
unless the writer was overlapped (`WrittenIsThere`). The theorem assumes that a document which
loads has a place for the qualification of each of its paths (`ContentsOK`).
`FingerprintsIdentifyPlans` needs no invariant: the lemmas show that a plan is a
function of what the snapshot holds (`SnapshotHolds`, `SameReason`, `SamePlan`).
The other three theorems are about what a program concludes from documents it read one by one while they were
revised. `SuiteInv` says that a program has read a prefix of its reading order (`ReadInOrder`), that every
check made on the way holds of what it has in memory (`Sound`), and that a finished result passed all of
them (`ResultsAreAccepted`); `CohortsAreWhole`, `AgentToolIsCanonical` and `BindingsResolve` follow from that alone.
`CohortsAreWhole` assumes that no commit names a provider that the checkout has not
(`KeepsProviders`): one that does would rightly change who is in the cohort. The first of the three counts: as many
files are read as there are providers and no two are of one, so each provider has its file.

**Live releases** (`LiveReleaseProofs`). Four inductive invariants, each built on the ones before it:

* `WholeInv`, for `ReleasesAreWhole`: a builder that writes owns the release directory (`OneMaker`),
  what is in it is what that builder holds in memory (`MadeByIt`), in the order of writing (`InOrder`).
* `TypeInv`, for `TypeCorrect`; `KeptInv` adds what a job has been told at each point (`JobOK`) and that every
  intact artifact is the work of a job that came that far (`ArtifactsOK`): hence
  `CompletedCellsWereAnswered`, by cases over the branches of the two adapters. The bond adapter looks for an identifier
  in the row only (`cap_packs/govt_bond_yield/direct.py:67-73`), and so does the property.
* `BuiltInv`, for `ReleasesBindTheirRun`: what a builder has exported, collected and assembled is made of
  artifacts GitHub keeps, each compared with the run it names.
* `LastInv`, for `GoodRunsCanBeReleased`: while nobody has caused an incident there is one run of one attempt,
  every cell of which has passed, and a builder that fails has lost the race for the directory. It goes through what `Collect` compares,
  one comparison after another, and shows that the job's own judgement satisfies each.

**Dividend events** (the same module). `MarketInv` says that a run that is over never changes, that an attestation
was made of a run it names, and where an edit can still be unnoticed: either the files are those of the
attestation or the one trouble has been spent. `DividendReleasesBindTheirRun` and
`GoodDividendRunsCanBeReleased` follow.

**Publication** (`PublicationProofs`). `TypeCorrect`, `VerifiedPackagesAreFresh`,
`GuidesStateReleasedEvidence` and `UndisturbedBuildsReproduce`, for any checkout, releases, edits and number of incidents. A reproduction writes into its temporary
directory only, so the tree stays as it was when it began unless somebody disturbs it; each
step therefore establishes one fact about this tree that no later step undoes (`Facts`, one conjunct for each
step). When the service reports, together they say that what the adapter compares is what one complete build makes
of the sources (`VerifiedPackagesAreFresh`): every file of an article package; of a Dividend package the snapshot, the
facts, the charts and the statements of the guide, but not its other prose. For the third theorem, a snapshot whose rows were accepted
determines what the article says of each path (`Said`) and names only paths of the releases; and the number of live
calls, which the code adds up path by path, is the number of cells with a record: a bijection takes each
counted pair to its cell (`TotalOfParts`). Of the Dividend guide the theorem claims the market table, the basic US
recommendation, the live calls and the counts of the quick recommendation (`StatesMeanEveryRound`: a market is verified when every
round completed, not applicable when none was run). It does not claim the fixed words that the adapter demands
whatever the releases say; some releases make them false (section 4).

The fourth theorem is the converse, about the author's commands: what the reproduction demands they have provided.
`CleanInv` says of a checkout in which nothing went wrong (`Clean`) that every finished command
has left what it should (`Progress`), that the running one has read and written so far what one complete build
would (`Doing`), and that no reproduction has been refused. It speaks of the sources only, and no step of a
command changes what follows from them (`SourcesDecide`): writing the pins of a Dividend package changes its package
file, but the facts of the guide depend on the releases it names and on nothing else there (`FactsOfReleases`). For
each check of the reproduction the lemma of its step shows that a complete build
passes it (`Complete`); a check that fails in a command of the author is an incident of its own. The theorem assumes that a checkout is
taken up before its first command or with everything built (`ScenariosOK`), and excludes what the
code does refuse: pins or digests that disagree with the files, one release named twice
(`publications/service.py:85-87`), packages of the first renderer, Dividend charts drawn on another platform, and Dividend facts that leave a group of
the advice empty (`AdviceHasWords`, `cap_packs/dividend_events/publication.py:1204`).

**Trial** (`LocalProbeProofs`). `TrialsFollowTheProtocol`, for any schema, frozen values, budget and
timeout. `TrialInv` adds to the property what is known before the trial ends: an answer that is being
invoked has been admitted, and one that has reached the provider agrees with the frozen values.

**Probes** (the same module). `FiguresComeFromOneRun` and `RawAnswersBackRecords`, for any fixtures, answers, number
of processes and deaths. `ProbeInv` says that a stamp is given to one process only (`RunsOK`); that each line of a file is one of the
former batch, half a line, or a result of a process that has its stamp (`FilesOK`); and that in a file without half lines a process
has as many lines of each provider, and as many that passed, as it has written (`CountsOK`). It counts because two probes of one provider
and case write lines that nothing tells apart. A half line breaks the file for every reader, so the lines it swallows need not be
counted. The newest batch of a readable file is then the former one or that of one process. `RawOK`
says the same of the raw answers: the name a process has given a file is on disk, no two answers of one process have the same name (the
script stops at the second), and what a file holds is an answer of a process that keeps them. The theorems assume that the lines
of the former batch have one stamp, older than that of every process (`ProbeAssumption`).

**Only model-checked**: liveness under fairness (`RunsEnd`, `EveryCellSettles`), which this prover
does not handle. The two properties of the runs that expect a violation are false of the code and stay with TLC.
Every other invariant and safety property of the passing runs is stated by a theorem.


## 6. The plan

Done: orchestration, Harbor, ranks, bundles; then registry and compiler, live jobs and the two ways
from a run to a release, selection snapshots, the article factory and its reproduction, trial and
probes.

Code that could still be modelled: the metric registry of the gate and the release with metrics that
`release verify` cannot verify; the MCP transports and REST calls of Direct executors; the first
corporate-actions builder; the local runner of crypto_spot_quote; the cross references of the
question bank. None of them shares state with more than one writer.


## 7. What is not modelled

* Text, JSON and Markdown layout, redaction patterns, URLs, credentials; digests as bit strings
  (a digest is what it is the digest of, so it has no collisions).
* fsync and crashes of the machine: a rename or a finished write stays.
* Two Harbor exporters at once, two maintainers in one checkout of the publication chain.
* Duplicate run keys: the matrix cannot make them, cases and paths of a suite being different.
* The layouts of the providers' answers: what an extractor finds is modelled, not where.
  `agent_trial/response_interpretation.py` judges the wording of an answer and is left out.
* The drawing of charts: what a chart states and what it was drawn from is modelled.
* The question bank, the fixture scripts, diff and the JSON schemas, which check single documents.
* The command line beyond the commands the modules name; it parses arguments and prints.
