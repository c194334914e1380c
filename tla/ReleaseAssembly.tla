---------------------------- MODULE ReleaseAssembly ----------------------------
(***************************************************************************)
(* From the artifacts of a live run to a release.  A maintainer exports    *)
(* the run and its artifacts, which may be those of another run, and       *)
(* starts scripts/build_govt_bond_yield_release.py or                      *)
(* build_corporate_actions_v2_release.py, which verify every cell and end  *)
(* in assemble_public_terminal_release (releases/public_terminal.py).      *)
(* Several builders may be at work on one release id, the checkout may be  *)
(* edited meanwhile, and a builder may die between any two writes.         *)
(***************************************************************************)
EXTENDS GatewayJob

CONSTANTS
    Builders,      \* programs that build the release
    ReleaseFiles,  \* its files in the order in which they are written
    NoFile

ASSUME ReleaseFilesOK ==
    /\ Len(ReleaseFiles) \in Nat \ {0}
    /\ ReleaseFiles[Len(ReleaseFiles)] = "github-artifacts"
    /\ \A i, j \in 1..Len(ReleaseFiles) : ReleaseFiles[i] = ReleaseFiles[j] => i = j
    /\ {NoFile, Torn} \cap Builders = {}

VARIABLES
    checkout,    \* what the maintainer's checkout holds: [suite, registry]
    edits,
    builder,     \* builder -> its state
    evidence,    \* cell -> who wrote the terminal published for it, NoFile
    release      \* release file -> who wrote it, NoFile

assemblyVars == <<checkout, edits, builder, evidence, release>>
vars         == <<gatewayVars, incidents, assemblyVars>>

At(b, pc) == builder[b].pc = pc
To(b, pc, changes) == builder' = [builder EXCEPT ![b] = [changes EXCEPT !.pc = pc]]
Refuse(b) == To(b, "refused", builder[b])

\* gh api runs/<id>: what GitHub says of the latest run now.  A run that has not
\* completed would be refused for that alone.
ExportRun(b) ==
    /\ At(b, "ready") /\ run.id > 0 /\ job = NoJob /\ todo = {}
    /\ IF \E other \in Builders : ~At(other, "ready") THEN Incident ELSE Usual
    /\ To(b, "exported", [builder[b] EXCEPT
            !.run = [id |-> run.id, event |-> run.event, commit |-> run.commit,
                     attempt |-> run.attempt, success |-> IF run.passed = Cells THEN "yes" ELSE "no"]])
    /\ UNCHANGED <<gatewayVars, checkout, edits, evidence, release>>

\* gh api runs/<id>/artifacts and the archives, of the run or of another one.
ExportArtifacts(b) ==
    /\ At(b, "exported") /\ Usual
    /\ \E id \in 1..run.id :
          To(b, "start", [builder[b] EXCEPT !.rows = {a \in artifacts : a.run = id}])
    /\ UNCHANGED <<gatewayVars, checkout, edits, evidence, release>>

Names == {"public", "private"} \X Cells
Entries(rows, kind, c) == (CHOOSE r \in rows : r.name = <<kind, c>>).entries

\* The export lists every artifact of the matrix, each once.
RowsMatch(rows) ==
    /\ {r.name : r \in rows} = Names
    /\ Cardinality(rows) = Cardinality(Names)

\* The run completed with success; a pull request needs the merge commit that
\* the maintainer exports too, or forgets.
Trusted(r, merge) ==
    /\ r.success = "yes"
    /\ r.event = "pull_request" => cap = "bond" /\ merge = "binds"

Intact(f) == f.content = f.digest

\* Mutant of FromRun: a terminal's own run is not compared with the exported one.
FromRunAny(t, r) == t.commit = r.commit

\* The provenance of a terminal is the exported run.
FromRun(t, r) == t.run = r.id /\ t.commit = r.commit

\* private_execution_document: the envelope the terminal names, for the call
\* the binding describes, and the response the envelope names.
PrivateExecution(rows, c, t, b) ==
    LET entries == Entries(rows, "private", c)
    IN  /\ \A f \in entries : Intact(f)
        /\ File("envelope", t.raw) \in entries
        /\ t.raw.call.tool = b.tool /\ t.raw.call.parameters = b.parameters
        /\ File("execute", t.raw.response) \in entries
        /\ t.raw.response.json = "object"

\* The CAP judges the raw answer once more and must come to the same terminal.
Reevaluates(c, t, b) ==
    /\ cap = "action" /\ t.raw.response.http < 400 => t.raw.response.result # NoResult
    /\ t.outcome = Evaluate(cap, CaseOf(cap, c), b.identity, PayloadOf(t.raw.response))

\* What a builder checks of one cell's artifacts, with the registry it has loaded.
Verified(rows, r, registry, c) ==
    LET found == Entries(rows, "public", c)
        file  == CHOOSE f \in found : TRUE
        b     == Registries[registry][c]
    IN  /\ Cardinality(found) = 1 /\ Intact(file)
        /\ file.content.cell = c /\ FromRun(file.content, r)
        /\ PrivateExecution(rows, c, file.content, b)
        /\ Reevaluates(c, file.content, b)

\* Begin: the exports are read, the id must be new, the suite is compiled, the
\* registry loaded and every cell verified.  Nothing has been written yet.
Collect(b) ==
    /\ At(b, "start") /\ Usual
    /\ \E merge \in {"none", "binds"} :
          LET st    == builder[b]
              ok    == /\ Trusted(st.run, merge)
                       /\ \A other \in Builders : builder[other].made = "no"
                       /\ RowsMatch(st.rows)
                       /\ \A c \in Cells :
                             /\ IdentityBound(cap, CaseOf(cap, c),
                                              Registries[checkout.registry][c])
                             /\ Verified(st.rows, st.run, checkout.registry, c)
          IN  IF ~ok THEN Refuse(b)
              ELSE To(b, "digest", [st EXCEPT
                     !.suite = checkout.suite,
                     !.terminals = [c \in Cells |->
                         (CHOOSE f \in Entries(st.rows, "public", c) : TRUE).content]])
    /\ UNCHANGED <<gatewayVars, checkout, edits, evidence, release>>

\* direct_binding_registry_digest reads the registry a second time.
Digest(b) ==
    /\ At(b, "digest") /\ Usual
    /\ To(b, "assemble", [builder[b] EXCEPT !.registry = checkout.registry])
    /\ UNCHANGED <<gatewayVars, checkout, edits, evidence, release>>

Validate(c, identity, facts) ==
    IF cap = "bond" THEN ValidateBond(CaseOf(cap, c), identity, facts)
    ELSE ValidateAction(CaseOf(cap, c), identity, facts)

\* assemble_public_terminal_release on the terminals a builder holds.
Assembles(st) ==
    \A c \in Cells :
        LET t == st.terminals[c]
        IN  /\ t.commit.registry = st.registry
            /\ t.commit.suite = st.suite
            /\ FromRun(t, st.run)
            /\ Judgement(t.outcome)
                 = Validate(c, Registries[st.registry][c].identity, t.outcome.facts)

\* Mutant of Assemble: the evidence directory may exist already.
AssembleInPlace(b) ==
    /\ At(b, "assemble") /\ Usual
    /\ LET st == [builder[b] EXCEPT !.bytes = checkout.registry]
       IN  IF ~Assembles(st) THEN Refuse(b)
           ELSE To(b, "write", [st EXCEPT !.made = "yes", !.left = Cells])
    /\ UNCHANGED <<gatewayVars, checkout, edits, evidence, release>>

\* The registry's bytes are read, the release is assembled in memory, and the
\* evidence directory is made: mkdir fails when it exists.
Assemble(b) ==
    /\ At(b, "assemble") /\ Usual
    /\ LET st    == [builder[b] EXCEPT !.bytes = checkout.registry]
           taken == \E other \in Builders : builder[other].made = "yes"
       IN  IF ~Assembles(st) \/ taken THEN Refuse(b)
           ELSE To(b, "write", [st EXCEPT !.made = "yes", !.left = Cells])
    /\ UNCHANGED <<gatewayVars, checkout, edits, evidence, release>>

\* One published terminal after the other.
WriteEvidence(b) ==
    /\ At(b, "write") /\ Usual
    /\ \E c \in builder[b].left :
          /\ evidence' = [evidence EXCEPT ![c] = b]
          /\ builder' = [builder EXCEPT ![b].left = @ \ {c}]
    /\ UNCHANGED <<gatewayVars, checkout, edits, release>>

\* release_artifacts.write, file by file, then github-artifacts.json.
WriteRelease(b) ==
    /\ At(b, "write") /\ Usual /\ builder[b].left = {}
    /\ LET n == builder[b].next
       IN  /\ release' = [release EXCEPT ![ReleaseFiles[n]] = b]
           /\ To(b, IF n = Len(ReleaseFiles) THEN "done" ELSE "write",
                 [builder[b] EXCEPT !.next = n + 1])
    /\ UNCHANGED <<gatewayVars, checkout, edits, evidence>>

\* The builder dies; the file it was writing may be there and empty.
BuilderDies(b) ==
    /\ builder[b].pc \in {"start", "digest", "assemble", "write"}
    /\ To(b, "dead", builder[b]) /\ Incident
    /\ \/ UNCHANGED <<evidence, release>>
       \/ /\ At(b, "write")
          /\ \E c \in builder[b].left : evidence' = [evidence EXCEPT ![c] = Torn]
          /\ UNCHANGED release
       \/ /\ At(b, "write") /\ builder[b].left = {}
          /\ release' = [release EXCEPT ![ReleaseFiles[builder[b].next]] = Torn]
          /\ UNCHANGED evidence
    /\ UNCHANGED <<gatewayVars, checkout, edits>>

\* A commit is checked out, or the documents are edited.
EditCheckout ==
    /\ Incident
    /\ edits' = edits + 1
    /\ checkout' \in Commits \ {checkout}
    /\ UNCHANGED <<gatewayVars, builder, evidence, release>>

Init ==
    /\ GatewayInit
    /\ checkout = run.commit /\ edits = 0     \* one commit; a run may be of any
    /\ builder = [b \in Builders |->
         [pc |-> "ready", run |-> Absent, rows |-> {}, suite |-> Absent, registry |-> Absent,
          bytes |-> Absent, terminals |-> Absent, made |-> "no", left |-> {}, next |-> 1]]
    /\ evidence = [c \in Cells |-> NoFile]
    /\ release = [f \in {ReleaseFiles[i] : i \in 1..Len(ReleaseFiles)} |-> NoFile]

BuildStep(b) ==
    \/ ExportRun(b) \/ ExportArtifacts(b) \/ Collect(b) \/ Digest(b)
    \/ Assemble(b) \/ WriteEvidence(b) \/ WriteRelease(b) \/ BuilderDies(b)

Next ==
    \/ GatewayNext /\ UNCHANGED assemblyVars
    \/ \E b \in Builders : BuildStep(b)
    \/ EditCheckout

Spec == Init /\ [][Next]_vars

-----------------------------------------------------------------------------
(***************************************************************************)
(* Properties                                                              *)
(***************************************************************************)
Writers == Builders \cup {NoFile, Torn}

\* Type invariant.  A job ends before the next one begins, so an attempt that
\* has passed every cell has none left to start.
AssemblyTypeOK ==
    /\ cap \in Caps /\ incidents \in 0..MaxIncidents /\ edits \in 0..MaxIncidents
    /\ run.id \in 0..MaxIncidents + 1 /\ run.attempt \in 0..MaxIncidents + 1
    /\ run.passed \subseteq Cells /\ todo \subseteq Cells \ run.passed
    /\ job # NoJob => job.cell \notin todo \cup run.passed
    /\ checkout \in Commits
    /\ evidence \in [Cells -> Writers] /\ \A f \in DOMAIN release : release[f] \in Writers
    /\ \A b \in Builders : builder[b].next \in 1..Len(ReleaseFiles) + 1

\* Every cell of a finished release is an execution of the run the release names:
\* the gateway answered, in that run, the call that the published registry binds
\* to the cell, and the published outcome is the CAP's of that very answer, under
\* the suite the release was compiled from.
\* build_release_from_artifacts and assemble_public_terminal_release.
ReleaseBindsItsRun ==
    \A b \in Builders : At(b, "done") =>
        \A c \in Cells :
            LET t     == builder[b].terminals[c]
                bound == Registries[builder[b].registry][c]
            IN  /\ t.commit.suite = builder[b].suite
                /\ \E e \in executed :
                      /\ e.run = builder[b].run.id /\ e.cell = c
                      /\ e.call.tool = bound.tool /\ e.call.parameters = bound.parameters
                      /\ t.raw.call = e.call /\ t.raw.response = e.doc
                      /\ t.outcome = Evaluate(cap, CaseOf(cap, c), bound.identity,
                                              PayloadOf(e.doc))

\* The bond adapter looks for an identifier in the row, not beside it.
AnsweredBy(rows, case, identity, top) ==
    \E i \in 1..Len(rows) :
        LET symbol == IF cap = "bond" THEN rows[i].symbol ELSE FirstOf(rows[i].symbol, top)
        IN  /\ InWindow(case, rows[i].date)
            /\ \/ symbol = Absent
               \/ cap = "bond" /\ symbol \in {identity.vendor} \cup identity.aliases
               \/ cap = "action" /\ symbol.code = identity.canonical.code
                                 /\ symbol.exchange \in {Absent, identity.canonical.exchange,
                                                         identity.vendor.exchange}

\* A terminal that says completed has behind it an answer that the gateway and the
\* provider gave without an error, with a row in the case's window that names the
\* instrument asked for or none; a completed control has an answer that rejects it.
CompletedMeansAnswered ==
    \A a \in artifacts : \A f \in a.entries :
        f.of = "terminal" /\ Intact(f) /\ f.content.outcome.state = "completed" =>
            LET t    == f.content
                case == CaseOf(cap, t.cell)
                doc  == t.raw.response
                id   == Registries[t.commit.registry][t.cell].identity
            IN  IF case.negative = "yes"
                THEN IF doc.http >= 400 THEN doc.refuses = "yes" ELSE doc.result.rejects = "yes"
                ELSE /\ doc.http < 400 /\ doc.result.status = 200
                     /\ AnsweredBy(doc.result.rows, case, id, doc.result.symbol)

Written == {evidence[c] : c \in Cells} \cup {release[f] : f \in DOMAIN release}

\* What stands under a release id is the work of one builder alone, all of it when
\* that builder has finished; a builder that refused has left nothing, and a
\* github-artifacts.json, which is written last, vouches for every other file.
ReleaseIsWhole ==
    /\ Cardinality(Written \cap Builders) <= 1
    /\ \A b \in Builders :
          /\ At(b, "done") => Written = {b}
          /\ At(b, "refused") => b \notin Written
    /\ release["github-artifacts"] \in Builders => Written = {release["github-artifacts"]}

\* A bond run that succeeded at once can be released from the commit it ran on: the
\* validator accepts whatever the adapter can have published, and a builder with the
\* run's own artifacts refuses only an answer that was not a JSON object.
GoodRunsAreReleasable ==
    \A b \in Builders :
        LET st == builder[b]
        IN  /\ cap = "bond" /\ At(b, "refused")
            /\ st.run.success = "yes" /\ st.run.attempt = 1
            /\ st.run.event = "workflow_dispatch"
            /\ st.rows # {} /\ \A r \in st.rows : r.run = st.run.id
            /\ edits = 0 /\ checkout = st.run.commit
            /\ \A other \in Builders : builder[other].made = "no"
            => \E c \in Cells : \E f \in Entries(st.rows, "private", c) :
                   f.of = "execute" /\ f.content.json # "object"

\* tests/cap_packs/test_corporate_actions_direct.py: an explicit rejection of the
\* invalid symbol completes the control, 4042 among its statuses.
ExplicitRejectionCompletesControl ==
    \A a \in artifacts : \A f \in a.entries :
        /\ f.of = "terminal" /\ Intact(f)
        /\ CaseOf(cap, f.content.cell).negative = "yes"
        /\ f.content.raw.http < 400
        /\ ExplicitRejection(f.content.raw.response.result)
        => f.content.outcome.state = "completed"

=============================================================================
