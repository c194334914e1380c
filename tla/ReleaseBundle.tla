--------------------------- MODULE ReleaseBundle ---------------------------
(***************************************************************************)
(* A release bundle, from the GitHub run that measured its cells to the    *)
(* replay that checks it:                                                  *)
(*   - scripts/build_corporate_actions_v2_release.py collects the terminal *)
(*     documents of a run, assembles the release from them                 *)
(*     (releases/public_terminal.py) and writes evidence/<id>/ and         *)
(*     releases/<id>/ one file after the other, in place;                  *)
(*   - `release build` (cli.py) builds release.json again from the input   *)
(*     files that stand beside it;                                         *)
(*   - `release replay` (releases/replay.py) reads the bundle file by file *)
(*     and `release verify` (releases/verify.py) reads release.json only.  *)
(*                                                                         *)
(* Several builders may collect different runs under one release id, each  *)
(* may die or get an OSError at any point, the benchmark suite may be      *)
(* revised between a run and its collection, and a bundle that has been    *)
(* written may be edited, or merged with another build of the same id,     *)
(* while somebody replays it.  The checkout does not change while a run is *)
(* assembled in memory.  SHA-256 has no collisions: the digest of a        *)
(* document is the document.                                               *)
(***************************************************************************)
EXTENDS ReleaseGate, Naturals, Sequences

CONSTANTS
    Suites,         \* revisions of the suite, each with its fingerprint
    Cells,          \* cell identities: case, provider, access path, mode, round
    Applicable,     \* the cells the suite finds applicable
    EvidenceOrder,  \* their evidence files, in the order they are written
    Runs,           \* GitHub workflow runs
    Results,        \* what a run may report: applicable cell -> outcome
    Edited,         \* the outcomes somebody may write into cells.json
    Builders,       \* processes that build the release
    None,           \* no run, no document, no digest
    Missing,        \* the content of a file that does not exist
    Partial,        \* the content of a file that is being written
    MaxEdits,       \* bound: edits of a written bundle
    MaxFaults       \* bound: write errors and kills

Outcomes == [state : States, attribution : Attributions, safe : {"yes", "no"}]

ASSUME BundleOK ==
    /\ Applicable \subseteq Cells
    /\ Applicable \cap {"plan", "cells", "evidence", "input", "release", "manifest",
                         "bindings", "attestation"} = {}
    /\ Missing # Partial
    /\ EvidenceOrder \in Seq(Applicable)
    /\ \A c \in Applicable : \E i \in 1..Len(EvidenceOrder) : EvidenceOrder[i] = c
    /\ \A i, j \in 1..Len(EvidenceOrder) :
          EvidenceOrder[i] = EvidenceOrder[j] => i = j
    /\ Results \subseteq [Applicable -> Outcomes]
    /\ Edited \subseteq Outcomes
    /\ MaxEdits \in Nat /\ MaxFaults \in Nat

\* The files of releases/<id>/ in the order the builder writes them;
\* github-artifacts.json comes last.
FileOrder == <<"plan", "cells", "evidence", "input", "release", "manifest",
               "bindings", "attestation">>
Files     == {FileOrder[i] : i \in 1..8}
Required  == {"plan", "cells", "evidence", "input", "release"}

\* An evidence file evidence/<id>/<evidence id>.json is named by its cell.
Items      == Files \cup Applicable
WriteOrder == EvidenceOrder \o FileOrder
ReadOrder  == <<"input", "plan", "cells", "evidence", "release", "manifest",
                "attestation", "bindings">> \o EvidenceOrder
Last       == Len(WriteOrder)

VARIABLES
    runs,       \* what each run measured, None before it has run
    claimed,    \* "yes" once the directory evidence/<id> exists
    dir,        \* the content of every file of the bundle
    pc,         \* where each builder stands: "idle", "claim", "truncate", "fill"
    at,         \* the index in WriteOrder of the file it writes
    job,        \* the run whose release it has assembled, None without one
    published,  \* the bytes whose digest the builder that ended has printed
    replay,     \* "idle", "reading", "accepted" or "rejected"
    seen,       \* what the replay has read of each file, None before it has
    trusted,    \* the published digest the replay is given, None without one
    edits, faults

builders == <<pc, at, job>>
reader   == <<replay, seen, trusted>>
vars     == <<runs, claimed, dir, pc, at, job, published, replay, seen,
              trusted, edits, faults>>

-----------------------------------------------------------------------------
(***************************************************************************)
(* The documents of a release that was assembled from a run.  The suite    *)
(* that was compiled is the run's own: see Assembles.                      *)
(***************************************************************************)
\* canonical_run_key holds the fingerprint of the suite and the cell's identity.
Key(s, c) == <<s, c>>

PlannedCell(s, c) ==
    [cell |-> c, key |-> Key(s, c),
     applicable |-> IF c \in Applicable THEN "yes" ELSE "no",
     state |-> IF c \in Applicable THEN "planned" ELSE "not_applicable",
     attribution |-> Unattributed]

Plan(s) == [fingerprint |-> s, cells |-> {PlannedCell(s, c) : c \in Cells}]

\* What a run has measured: the suite of its checkout and the outcome of every
\* applicable cell.
Measured == [run : Runs, suite : Suites, result : Results]

\* The terminal document a run publishes for a cell; a run publishes one.  The
\* builder compares it with the run's archives and with the private raw document
\* first, and refuses the run when they differ.
TerminalOf(m, c) == <<m.run, c>>

ReleasedCell(m, c) ==
    IF c \notin Applicable THEN PlannedCell(m.suite, c)
    ELSE [PlannedCell(m.suite, c) EXCEPT
             !.state = m.result[c].state,
             !.attribution = m.result[c].attribution]

BundleOf(m, c) ==
    [id |-> c, key |-> Key(m.suite, c), fingerprint |-> m.suite,
     digest |-> TerminalOf(m, c), safe |-> m.result[c].safe]

CellsOf(m)    == {ReleasedCell(m, c) : c \in Cells}
EvidenceOf(m) == {BundleOf(m, c) : c \in Applicable}

\* github-artifacts.json lists the run's terminal documents.
Attestation(m) == {TerminalOf(m, c) : c \in Applicable}

Manifest(m) ==
    [attestation |-> Attestation(m), bindings |-> m.suite,
     entries |-> {[id |-> c, key |-> Key(m.suite, c),
                   digest |-> TerminalOf(m, c)] : c \in Applicable}]

\* BenchmarkRelease: it pins the run plan, the manifest and the attestation.
Input(m) ==
    [fingerprint |-> m.suite, plan |-> Plan(m.suite),
     manifest |-> Manifest(m), attestation |-> Attestation(m), ids |-> Applicable,
     outcomes |-> {<<c, m.result[c].state>> : c \in Applicable}]

Release(m) == ReleaseBytes(Input(m), CellsOf(m), EvidenceOf(m))

\* What the builder writes into each file.
Document(m, f) ==
    CASE f = "plan"        -> Plan(m.suite)
      [] f = "cells"       -> CellsOf(m)
      [] f = "evidence"    -> EvidenceOf(m)
      [] f = "input"       -> Input(m)
      [] f = "release"     -> Release(m)
      [] f = "manifest"    -> Manifest(m)
      [] f = "bindings"    -> m.suite
      [] f = "attestation" -> Attestation(m)
      [] OTHER             -> TerminalOf(m, f)

\* A document that has been written is told from one that is not there, that is
\* half written or that has not been read.
ASSUME DocumentsOK ==
    \A m \in Measured : \A f \in Items :
        Document(m, f) \notin {Missing, Partial, None}

\* The gate accepts what the run reports.
Releasable(r) ==
    /\ runs[r] # None
    /\ LET m == runs[r] IN
       GateAccepts(Input(m), CellsOf(m), EvidenceOf(m), "required")

\* assemble_public_terminal_release: the run was made with the suite s that is
\* compiled now (every terminal's run key, fingerprint and binding registry are
\* compared with it), and the gate accepts it.
Assembles(r, s) == Releasable(r) /\ runs[r].suite = s

-----------------------------------------------------------------------------
(***************************************************************************)
(* Replay and verify                                                       *)
(***************************************************************************)
\* _validate_cell_topology: the released cells are the planned ones.
SameTopology(planned, cells) ==
    /\ KeysUnique(planned) /\ KeysUnique(cells)
    /\ KeysOf(planned) = KeysOf(cells)
    /\ \A p \in planned, c \in cells :
          p.key = c.key => p.cell = c.cell /\ p.applicable = c.applicable

\* _validate_run_keys
PlanIsCanonical(plan) ==
    \A p \in plan.cells :
        /\ p.state = IF p.applicable = "yes" THEN "planned" ELSE "not_applicable"
        /\ p.key = Key(plan.fingerprint, p.cell)

\* What replay compares before it looks at the public evidence.
PlanAgrees(v) ==
    /\ \A f \in Required : v[f] # Partial
    /\ v["plan"] = v["input"].plan
    /\ v["plan"].fingerprint = v["input"].fingerprint
    /\ SameTopology(v["plan"].cells, v["cells"])
    /\ PlanIsCanonical(v["plan"])

ManifestAgrees(v) == v["manifest"] # Partial /\ v["manifest"] = v["input"].manifest

\* _validate_github_attestation
AttestationAgrees(v) ==
    /\ v["attestation"] = v["manifest"].attestation
    /\ v["attestation"] = v["input"].attestation

\* _validate_binding_registry
BindingsAgree(v) == v["bindings"] = v["manifest"].bindings

\* Mutant of ArtifactAgrees: the evidence file must be there, whatever it holds.
ArtifactExists(v, c) == v[c] \notin {Missing, Partial}

\* The evidence file an entry names has the digest the entry gives.
ArtifactAgrees(v, c) ==
    \A e \in v["manifest"].entries : e.id = c => v[c] = e.digest

EntriesAgree(v) ==
    v["manifest"].entries =
        {[id |-> e.id, key |-> e.key, digest |-> e.digest] : e \in v["evidence"]}

\* _validate_public_evidence_manifest: a manifest that does not exist is passed
\* over, with the attestation, the bindings and the evidence files it names.
PublicEvidenceAgrees(v) ==
    v["manifest"] # Missing =>
        /\ ManifestAgrees(v) /\ AttestationAgrees(v) /\ BindingsAgree(v)
        /\ \A e \in v["manifest"].entries : ArtifactAgrees(v, e.id)
        /\ EntriesAgree(v)

\* replay_release_dir on the contents v, with the expected digest of `expected`.
ReplayAccepts(v, expected) ==
    /\ \A f \in Required : v[f] # Missing
    /\ PlanAgrees(v)
    /\ PublicEvidenceAgrees(v)
    /\ GateAccepts(v["input"], v["cells"], v["evidence"], "required")
    /\ v["release"] = ReleaseBytes(v["input"], v["cells"], v["evidence"])
    /\ expected # None => v["release"] = expected

\* The check that follows the reading of file f.
Passes(v, f) ==
    CASE f \in Required \ {"release"} -> v[f] # Missing
      [] f = "release"     -> v[f] # Missing /\ PlanAgrees(v)
      [] f = "manifest"    -> v[f] # Missing => ManifestAgrees(v)
      [] f = "attestation" -> AttestationAgrees(v)
      [] f = "bindings"    -> BindingsAgree(v)
      [] OTHER             -> ArtifactAgrees(v, f)

\* verify_release, on the content of release.json.
Verifies(bytes, expected) ==
    /\ bytes \notin {Missing, Partial}
    /\ GateAccepts(bytes.input, bytes.cells, bytes.evidence, "ignored")
    /\ bytes = expected

-----------------------------------------------------------------------------
(***************************************************************************)
(* The environment                                                         *)
(***************************************************************************)
Init ==
    /\ runs = [r \in Runs |-> None]
    /\ claimed = "no"
    /\ dir = [f \in Items |-> Missing]
    /\ pc = [b \in Builders |-> "idle"]
    /\ at = [b \in Builders |-> 1]
    /\ job = [b \in Builders |-> None]
    /\ published = None
    /\ replay = "idle"
    /\ seen = [f \in Items |-> None]
    /\ trusted = None
    /\ edits = 0 /\ faults = 0

\* A workflow run measures every applicable cell of the suite of its checkout.
Measure(r) ==
    /\ runs[r] = None
    /\ \E s \in Suites, result \in Results :
          runs' = [runs EXCEPT ![r] = [run |-> r, suite |-> s, result |-> result]]
    /\ UNCHANGED <<claimed, dir, builders, published, reader, edits, faults>>

NobodyWrites == \A b \in Builders : pc[b] \in {"idle", "claim"}

EditedCells(c, o) ==
    {IF x.cell # c THEN x
     ELSE [x EXCEPT !.state = o.state, !.attribution = o.attribution] :
        x \in dir["cells"]}

\* Somebody changes one file of a bundle that is on disk: takes it from another
\* build of the same release id, deletes it, or edits its cells or its evidence.
Edit ==
    /\ edits < MaxEdits
    /\ claimed = "yes" /\ NobodyWrites
    /\ edits' = edits + 1
    /\ \/ \E f \in Items, r \in {x \in Runs : Releasable(x)} :
             dir' = [dir EXCEPT ![f] = Document(runs[r], f)]
       \/ \E f \in Items : dir' = [dir EXCEPT ![f] = Missing]
       \/ /\ dir["cells"] \notin {Missing, Partial}
          /\ \E c \in Applicable, o \in Edited :
                dir' = [dir EXCEPT !["cells"] = EditedCells(c, o)]
       \/ /\ dir["evidence"] \notin {Missing, Partial}
          /\ \E e \in dir["evidence"] :
                dir' = [dir EXCEPT !["evidence"] = @ \ {e}]
    /\ UNCHANGED <<runs, claimed, builders, published, reader, faults>>

\* `release build` on the files of the bundle, which writes its release.json;
\* it looks at nothing but its three inputs.
Rebuild ==
    /\ edits < MaxEdits
    /\ claimed = "yes" /\ NobodyWrites
    /\ \A f \in {"input", "cells", "evidence"} : dir[f] \notin {Missing, Partial}
    /\ GateAccepts(dir["input"], dir["cells"], dir["evidence"], "required")
    /\ edits' = edits + 1
    /\ dir' = [dir EXCEPT !["release"] =
                  ReleaseBytes(dir["input"], dir["cells"], dir["evidence"])]
    /\ UNCHANGED <<runs, claimed, builders, published, reader, faults>>

-----------------------------------------------------------------------------
(***************************************************************************)
(* The builder                                                             *)
(***************************************************************************)
\* build_release_from_artifacts: refuses a release id whose directories exist,
\* collects the run and assembles its release in memory, s being the revision of
\* the suite in the checkout.
Start(b, r, s) ==
    /\ pc[b] = "idle"
    /\ claimed = "no"
    /\ Assembles(r, s)
    /\ pc' = [pc EXCEPT ![b] = "claim"]
    /\ job' = [job EXCEPT ![b] = r]
    /\ UNCHANGED <<runs, claimed, dir, at, published, reader, edits, faults>>

Quit(b) ==
    /\ pc' = [pc EXCEPT ![b] = "idle"]
    /\ at' = [at EXCEPT ![b] = 1]
    /\ job' = [job EXCEPT ![b] = None]

\* Mutant of Claim: the directory may exist already (mkdir with exist_ok).
ClaimShared(b) ==
    /\ pc[b] = "claim"
    /\ claimed' = "yes"
    /\ pc' = [pc EXCEPT ![b] = "truncate"]
    /\ UNCHANGED <<runs, dir, at, job, published, reader, edits, faults>>

\* evidence_dir.mkdir(parents=True): the one who makes the directory goes on, the
\* others end with FileExistsError.
Claim(b) ==
    /\ pc[b] = "claim"
    /\ claimed' = "yes"
    /\ \/ /\ claimed = "no"
          /\ pc' = [pc EXCEPT ![b] = "truncate"]
          /\ UNCHANGED <<at, job>>
       \/ /\ claimed = "yes"
          /\ Quit(b)
    /\ UNCHANGED <<runs, dir, published, reader, edits, faults>>

\* write_bytes opens, that is empties, the file first.
Truncate(b) ==
    /\ pc[b] = "truncate"
    /\ dir' = [dir EXCEPT ![WriteOrder[at[b]]] = Partial]
    /\ pc' = [pc EXCEPT ![b] = "fill"]
    /\ UNCHANGED <<runs, claimed, at, job, published, reader, edits, faults>>

\* Mutant of Fill: github-artifacts.json, the last file, is not written.
FillUnattested(b) ==
    /\ pc[b] = "fill"
    /\ dir' = [dir EXCEPT ![WriteOrder[at[b]]] =
                  Document(runs[job[b]], WriteOrder[at[b]])]
    /\ IF at[b] < Last - 1
       THEN /\ pc' = [pc EXCEPT ![b] = "truncate"]
            /\ at' = [at EXCEPT ![b] = @ + 1]
            /\ UNCHANGED <<job, published>>
       ELSE /\ published' = Release(runs[job[b]])
            /\ Quit(b)
    /\ UNCHANGED <<runs, claimed, reader, edits, faults>>

\* Mutant of Fill: off by one at the last file.
FillBeyond(b) ==
    /\ pc[b] = "fill"
    /\ dir' = [dir EXCEPT ![WriteOrder[at[b]]] =
                  Document(runs[job[b]], WriteOrder[at[b]])]
    /\ IF at[b] <= Last
       THEN /\ pc' = [pc EXCEPT ![b] = "truncate"]
            /\ at' = [at EXCEPT ![b] = @ + 1]
            /\ UNCHANGED <<job, published>>
       ELSE /\ published' = Release(runs[job[b]])
            /\ Quit(b)
    /\ UNCHANGED <<runs, claimed, reader, edits, faults>>

\* The file is complete; after the last one the digest is printed.
Fill(b) ==
    /\ pc[b] = "fill"
    /\ dir' = [dir EXCEPT ![WriteOrder[at[b]]] =
                  Document(runs[job[b]], WriteOrder[at[b]])]
    /\ IF at[b] < Last
       THEN /\ pc' = [pc EXCEPT ![b] = "truncate"]
            /\ at' = [at EXCEPT ![b] = @ + 1]
            /\ UNCHANGED <<job, published>>
       ELSE /\ published' = Release(runs[job[b]])
            /\ Quit(b)
    /\ UNCHANGED <<runs, claimed, reader, edits, faults>>

\* The builder is killed, or a write fails: the files stay as they are.
Die(b) ==
    /\ pc[b] # "idle"
    /\ faults < MaxFaults
    /\ faults' = faults + 1
    /\ Quit(b)
    /\ UNCHANGED <<runs, claimed, dir, published, reader, edits>>

-----------------------------------------------------------------------------
(***************************************************************************)
(* The reader                                                              *)
(***************************************************************************)
NothingSeen == [f \in Items |-> None]

\* `release replay`, with or without the published digest as --expected-digest.
StartReplay ==
    /\ replay # "reading"
    /\ replay' = "reading"
    /\ seen' = NothingSeen
    /\ trusted' \in {None, published}
    /\ UNCHANGED <<runs, claimed, dir, builders, published, edits, faults>>

Unread == {i \in 1..Last : seen[ReadOrder[i]] = None}

Reject ==
    /\ replay' = "rejected"
    /\ seen' = NothingSeen
    /\ trusted' = None

\* The file f, the next one, is read and checked; after the last one, or when
\* there is no manifest, the gate and the comparison of the bytes conclude.
ReadFile(f) ==
    LET now == [seen EXCEPT ![f] = dir[f]] IN
    IF ~Passes(now, f) THEN Reject
    ELSE IF f # ReadOrder[Last] /\ now["manifest"] # Missing
    THEN seen' = now /\ UNCHANGED <<replay, trusted>>
    ELSE IF ReplayAccepts(now, trusted)
    THEN replay' = "accepted" /\ seen' = now /\ UNCHANGED trusted
    ELSE Reject

Read ==
    /\ replay = "reading"
    /\ \E i \in Unread :
          /\ \A j \in Unread : i <= j
          /\ ReadFile(ReadOrder[i])
    /\ UNCHANGED <<runs, claimed, dir, builders, published, edits, faults>>

Next ==
    \/ \E r \in Runs : Measure(r)
    \/ Edit
    \/ Rebuild
    \/ \E b \in Builders, r \in Runs, s \in Suites : Start(b, r, s)
    \/ \E b \in Builders :
          Claim(b) \/ Truncate(b) \/ Fill(b) \/ Die(b)
    \/ StartReplay
    \/ Read

Spec == Init /\ [][Next]_vars

-----------------------------------------------------------------------------
(***************************************************************************)
(* Properties                                                              *)
(***************************************************************************)
\* The variables have their types; the contents of files are typed by the
\* properties that compare them with what a builder writes.
BundleTypeOK ==
    /\ runs \in [Runs -> Measured \cup {None}]
    /\ claimed \in {"no", "yes"}
    /\ DOMAIN dir = Items
    /\ pc \in [Builders -> {"idle", "claim", "truncate", "fill"}]
    /\ at \in [Builders -> 1..Last]
    /\ job \in [Builders -> Runs \cup {None}]
    /\ replay \in {"idle", "reading", "accepted", "rejected"}
    /\ DOMAIN seen = Items
    /\ edits \in 0..MaxEdits /\ faults \in 0..MaxFaults

\* What replay accepts is backed by evidence (gate.py 34-72 and replay.py 208-249,
\* taken together): every cell the frozen plan finds applicable has ended, with an
\* attribution that fits where it did not complete, and has one publishable evidence bundle
\* of its own; there is no other evidence; and where the bundle lists its public
\* evidence, the files it names are the documents the evidence was made from.
ReplayedIsBacked ==
    replay = "accepted" =>
        /\ \A p \in seen["plan"].cells :
              /\ Cardinality({c \in seen["cells"] : c.cell = p.cell}) = 1
              /\ Cardinality({e \in seen["evidence"] : e.key = p.key}) =
                    IF p.applicable = "yes" THEN 1 ELSE 0
        /\ \A c \in seen["cells"] :
              /\ c.state \notin {"planned", "running"}
              /\ c.state = "provider_negative" => c.attribution \in ProviderSide
              /\ c.state = "infra_blocked" => c.attribution # Unattributed
        /\ \A e \in seen["evidence"] :
              /\ e.safe = "yes"
              /\ \E p \in seen["plan"].cells : p.key = e.key
              /\ seen["manifest"] # Missing => seen[e.id] = e.digest

\* The run whose release was published.
PublishedRun == CHOOSE r \in Runs : runs[r] # None /\ Release(runs[r]) = published

\* What replay accepts under the published digest (docs/release-replay.md: "The
\* expected digest authenticates the published bundle identity") is that release,
\* file by file, whatever was edited, merged or being written while it was read:
\* the five replay files, and the rest too when the manifest is there.
TrustedIsThePublished ==
    replay = "accepted" /\ trusted # None =>
        \A f \in Items :
            f \in Required \/ seen["manifest"] # Missing =>
                seen[f] = Document(runs[PublishedRun], f)

\* A release that was written to the end and left alone replays and verifies under
\* the digest its builder printed, although another builder ran or died beside it.
PublishedReplays ==
    published # None /\ edits = 0 =>
        ReplayAccepts(dir, published) /\ Verifies(dir["release"], published)

\* "releases are immutable" (build_corporate_actions_v2_release.py:75): no builder
\* ever touches a file another one has written or begun, nor prints a second
\* digest for the same release id.
ReleasesAreImmutable ==
    [][/\ edits' = edits =>
             \A f \in Items : dir[f] \notin {Missing, Partial} => dir'[f] = dir[f]
       /\ published # None => published' = published]_vars
=============================================================================
