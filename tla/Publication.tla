----------------------------- MODULE Publication -----------------------------
(***************************************************************************)
(* The files of one published guide, the commands that write them, and the   *)
(* offline reproduction that vouches for them (cli.py, profiles/selection.py,*)
(* articles/, publications/service.py and the publication adapters).         *)
(*                                                                         *)
(* Every command reads the files of the checkout one after another and       *)
(* writes its outputs in place, one after another.  While it runs someone    *)
(* may edit a file, and it may be killed between two writes.  An edit by     *)
(* hand of a generated file is the one hardest to notice: it changes bytes   *)
(* that only a comparison of the whole file looks at.                        *)
(***************************************************************************)
EXTENDS ArticlePackage, Sequences

CONSTANTS Scenarios,     \* the checkouts to start from
          EditsOf(_, _), \* what an edit may make of a source file of a tree
          MaxIncidents   \* bound: edits, kills and skipped commands

ASSUME IncidentsOK == MaxIncidents \in Nat

VARIABLES tree,      \* the files of the checkout; a generated one is {} or {v}
          host,      \* where it is built, where it is checked, what it decides
          temp,      \* the temporary directory of a reproduction
          task,      \* the running command, its next step, where to return
          read,      \* what the running command has read so far
          incidents, \* how many have happened
          history,   \* what has happened to the package
          report     \* the report of the reproduction, {} before it

vars == <<tree, host, temp, task, read, incidents, history, report>>

Sources == {"suite", "registry", "prices", "bindings", "input", "profile",
            "package", "adapter"}
Derived == {"snapshot", "writer", "editorial", "facts", "charts", "article",
            "manifest", "guide"}

Only(s) == CHOOSE x \in s : TRUE

AtMostOne(s) == \A x, y \in s : x = y

(* A checkout has every file, a generated one may be absent, and of some      *)
(* releases.                                                                 *)
TreeOK(t) ==
    /\ Sources \cup Derived \cup {"releases"} \subseteq DOMAIN t
    /\ \A f \in Derived : AtMostOne(t[f])
    /\ DOMAIN t.releases \subseteq DOMAIN ReleaseOf

PackageFields == {"adapter", "cap", "market", "code", "mode", "pins"}

LastStage == 6   \* the commands of the longest build

(* Names with values, some of them new. *)
With(new, old) ==
    [f \in DOMAIN new \cup DOMAIN old |-> IF f \in DOMAIN new THEN new[f] ELSE old[f]]

(* The Dividend adapter checks a guide written by hand; the article adapters *)
(* rebuild one, Corporate Actions with the first renderer of articles/.      *)
Dividend == tree.package.adapter = "dividend"
Renderer == IF tree.package.adapter = "v1" THEN 1 ELSE 2

-----------------------------------------------------------------------------
(* What one complete build makes of the sources of a checkout t.             *)

FreshSnapshot(t) ==
    [cap |-> InputOf[t.input].cap, market |-> InputOf[t.input].market,
     registry |-> t.registry, prices |-> t.prices, input |-> t.input,
     hashes |-> [input |-> t.input, suite |-> t.suite, registry |-> t.registry,
                 prices |-> t.prices, bindings |-> t.bindings],
     hand |-> "no"]

(* Its builder accepts them. *)
UsableSources(t) ==
    /\ \A id \in {InputOf[t.input].cap, InputOf[t.input].market} :
          ReleaseUsable(id, t.suite, t.input)
    /\ PricesUsable(t.prices, t.bindings, InputOf[t.input].cap)
    /\ PricingUsable(t.registry, InputOf[t.input].cap)
    /\ RowsValid(FreshSnapshot(t))

Drawn(content, platform) == [content |-> content, encoding |-> platform]

Inputs(snapshot, profile, writer, editorial, facts) ==
    [snapshot |-> snapshot, profile |-> profile, writer |-> writer,
     editorial |-> editorial, facts |-> facts]

FreshArticle(t, editorial, renderer) ==
    Article(ArticleFacts(FreshSnapshot(t), t.profile), editorial,
            WriterInput(FreshSnapshot(t), t.profile), renderer)

FreshInputs(t, editorial) ==
    Inputs(FreshSnapshot(t), t.profile, WriterInput(FreshSnapshot(t), t.profile),
           editorial, ArticleFacts(FreshSnapshot(t), t.profile))

-----------------------------------------------------------------------------
(* Steps. *)

At(pc) == task.pc = pc

Reproducing == task.cmd = "reproduce"

Goto(pc) == task' = [task EXCEPT !.pc = pc]

Idle(stage) == [cmd |-> "idle", pc |-> "-", ret |-> "-", stage |-> stage]

\* Mutant of End: the temporary directory is left behind.
TemporaryLeft == task' = Idle(task.stage + 1) /\ read' = <<>> /\ UNCHANGED temp

End == task' = Idle(task.stage + 1) /\ read' = <<>> /\ temp' = <<>>

Calm == UNCHANGED <<host, incidents, history, report>>

(* A refused command ends; its author then asks for the reproduction.        *)
Refuse ==
    /\ End
    /\ history' = history \cup {IF Reproducing THEN "rejected" ELSE "refused"}
    /\ UNCHANGED <<tree, host, incidents, report>>

Check(ok, next) ==
    IF ok THEN Goto(next) /\ UNCHANGED <<tree, temp, read>> /\ Calm ELSE Refuse

(* `values` is what a successful step has read or computed. *)
Load(ok, values, next) ==
    IF ok THEN /\ read' = With(values, read)
               /\ Goto(next) /\ UNCHANGED <<tree, temp>> /\ Calm
          ELSE Refuse

(* A build writes into the checkout, a reproduction into a temporary place.  *)
Write(f, v) ==
    IF Reproducing THEN temp' = With([g \in {f} |-> v], temp) /\ UNCHANGED tree
                   ELSE tree' = [tree EXCEPT ![f] = {v}] /\ UNCHANGED temp

Out(f) == IF Reproducing THEN temp[f] ELSE Only(tree[f])

Produce(f, v, next) == Write(f, v) /\ Goto(next) /\ UNCHANGED read /\ Calm

(* The last write of a command. *)
Publish(f, v) == tree' = [tree EXCEPT ![f] = {v}] /\ End /\ Calm

Platform == IF Reproducing THEN host.checker ELSE host.maker

(* Replaying a release needs its files as published; it does not see an      *)
(* extra one.                                                                *)
Replays(id) == id \in DOMAIN tree.releases /\ tree.releases[id] \in {"exact", "extra"}

-----------------------------------------------------------------------------
(* build_selection_snapshot. *)

SnapshotInput ==
    /\ At("input")
    /\ Load(ReleaseUsable(InputOf[tree.input].cap, tree.suite, tree.input),
            [input |-> tree.input], "replay")

SnapshotReplay ==
    /\ At("replay")
    /\ Load(Replays(InputOf[read.input].cap), [registry |-> tree.registry], "market")

SnapshotMarket ==
    /\ At("market")
    /\ Load(/\ Replays(InputOf[read.input].market)
            /\ ReleaseUsable(InputOf[read.input].market, tree.suite, read.input),
            [priceHash |-> tree.prices], "rows")

(* The prices are read again, the rows made, and the other inputs hashed     *)
(* last.                                                                     *)
BuiltSnapshot ==
    [cap |-> InputOf[read.input].cap, market |-> InputOf[read.input].market,
     registry |-> read.registry, prices |-> tree.prices, input |-> read.input,
     hashes |-> [input |-> tree.input, suite |-> tree.suite, registry |-> tree.registry,
                 prices |-> read.priceHash, bindings |-> tree.bindings],
     hand |-> "no"]

SnapshotRows ==
    /\ At("rows")
    /\ Load(/\ PricesUsable(tree.prices, tree.bindings, InputOf[read.input].cap)
            /\ PricingUsable(read.registry, InputOf[read.input].cap)
            /\ RowsValid(BuiltSnapshot),
            [built |-> BuiltSnapshot], "built")

(* The command writes the snapshot; an article adapter checks that it is of  *)
(* the package's releases, then that the committed one has the same bytes.   *)
SnapshotDone ==
    /\ At("built")
    /\ IF Reproducing
       THEN Check(/\ <<read.built.cap, read.built.market>>
                         = <<read.package.cap, read.package.market>>
                  /\ tree.snapshot = {read.built},
                  IF Dividend THEN "charts" ELSE "writer")
       ELSE Publish("snapshot", read.built)

-----------------------------------------------------------------------------
(* build_writer_input, a command of its own and a part of the others.        *)

WriterInputStart ==
    /\ At("writer")
    /\ Load(tree.snapshot # {},
            [wsnapshot |-> Only(tree.snapshot), wprofile |-> tree.profile], "sources")

WriterReleases ==
    /\ At("sources")
    /\ Load(/\ \A id \in ProfileOf[read.wprofile].releases : Replays(id)
            /\ WriterReleasesMatch(read.wsnapshot, read.wprofile),
            [writer |-> WriterInput(read.wsnapshot, read.wprofile)], task.ret)

WriterDone ==
    /\ At("prepared")
    /\ IF Reproducing
       THEN Check(tree.writer = {read.writer},
                  IF Renderer = 1 THEN "recorded" ELSE "load")
       ELSE Publish("writer", read.writer)

-----------------------------------------------------------------------------
(* build_article_package and its reproduction.  The command always runs the  *)
(* second renderer; an adapter runs its own.                                 *)

(* The first reproduction begins with the inputs its manifest recorded.      *)
RecordedInputs ==
    /\ At("recorded")
    /\ Check(/\ tree.manifest # {}
             /\ LET inputs == Only(tree.manifest).inputs
                IN  /\ {inputs.snapshot} = tree.snapshot /\ inputs.profile = tree.profile
                    /\ {inputs.writer} = tree.writer /\ {inputs.editorial} = tree.editorial,
             "load")

ArticleLoad ==
    /\ At("load")
    /\ IF tree.snapshot # {} /\ Publishable(Only(tree.snapshot), tree.profile)
       THEN /\ read' = With([snapshot |-> Only(tree.snapshot), profile |-> tree.profile], read)
            /\ task' = [task EXCEPT !.pc = "writer", !.ret = "editorial"]
            /\ UNCHANGED <<tree, temp>> /\ Calm
       ELSE Refuse

ArticleEditorial ==
    /\ At("editorial")
    /\ Load(/\ tree.writer = {read.writer}
            /\ tree.editorial # {}
            /\ EditorialAdmitted(Only(tree.editorial), read.writer),
            [editorial |-> Only(tree.editorial)], "facts")

WriteFacts ==
    /\ At("facts")
    /\ Produce("facts", ArticleFacts(read.snapshot, read.profile), "draw")

WriteCharts ==
    /\ At("draw")
    /\ Produce("charts", Drawn(Charts(read.snapshot, read.profile, 1), Platform), "text")

WriteArticle ==
    /\ At("text")
    /\ Produce("article", Article(ArticleFacts(read.snapshot, read.profile),
                                  read.editorial, read.writer, 1), "manifest")

(* The manifest records the digests that the files have by now.              *)
CurrentInputs == Inputs(Only(tree.snapshot), tree.profile, Only(tree.writer),
                        Only(tree.editorial), Out("facts"))

WriteManifest ==
    /\ At("manifest")
    /\ Produce("manifest", Manifest(CurrentInputs, Out("charts"), 1),
               IF Reproducing /\ Renderer = 1 THEN "compare" ELSE "redraw")

(* The second renderer loads the inputs again and draws over the charts,     *)
(* rewords the article, and completes the manifest it finds.                 *)
Redraw ==
    /\ At("redraw")
    /\ Produce("charts", Drawn(Charts(Only(tree.snapshot), tree.profile, 2), Platform),
               "reword")

Reword ==
    /\ At("reword")
    /\ Produce("article", [Out("article") EXCEPT !.renderer = 2], "remanifest")

\* Mutant of Remanifest: the digests of the charts drawn over remain.
KeepsOldDigests ==
    /\ At("remanifest")
    /\ LET manifest == [Out("manifest") EXCEPT !.renderer = 2]
       IN  IF Reproducing THEN Produce("manifest", manifest, "compare")
                          ELSE Publish("manifest", manifest)

Remanifest ==
    /\ At("remanifest")
    /\ LET manifest == [Out("manifest") EXCEPT !.renderer = 2, !.charts = Out("charts")]
       IN  IF Reproducing THEN Produce("manifest", manifest, "compare")
                          ELSE Publish("manifest", manifest)

(* The first reproduction compares bytes, on Linux also of the charts; the   *)
(* second accepts equal pixels and looks at the rest of the manifest.        *)
ChartsMatch ==
    /\ tree.charts # {}
    /\ Only(tree.charts).content = temp.charts.content
    /\ Renderer = 1 /\ host.checker = "linux" => tree.charts = {temp.charts}

ManifestMatches ==
    /\ tree.manifest # {}
    /\ [Only(tree.manifest) EXCEPT !.charts = temp.charts] = temp.manifest
    /\ tree.charts = {Only(tree.manifest).charts}

\* Mutant of ArtifactsMatch: the text of the article is not compared.
ArticleIgnored ==
    /\ tree.article # {} /\ tree.facts = {temp.facts} /\ ChartsMatch
    /\ Renderer = 2 => ManifestMatches

ArtifactsMatch ==
    /\ tree.article = {temp.article} /\ tree.facts = {temp.facts} /\ ChartsMatch
    /\ Renderer = 2 => ManifestMatches

CompareArtifacts == At("compare") /\ Check(ArtifactsMatch, "guide")

(* The published guide is the package's article with other chart links.      *)
CompareGuide == At("guide") /\ Check(tree.guide = tree.article, "report")

-----------------------------------------------------------------------------
(* The Dividend adapter, around its snapshot. *)

DividendRefs ==
    /\ At("refs")
    /\ Check(/\ InputOf[tree.input].cap = read.package.cap
             /\ InputOf[tree.input].market = read.package.market, "input")

(* The digests the package pins of its own files. *)
Pins(t) == [input |-> t.input, prices |-> t.prices, snapshot |-> t.snapshot,
            facts |-> t.facts, manifest |-> t.manifest]

PinsHold(files) == \A f \in files : read.package.pins[f] = Pins(tree)[f]

(* Charts are drawn again from the committed snapshot: their manifest, their *)
(* digests, pixels and on Linux bytes.                                       *)
DividendCharts ==
    /\ At("charts")
    /\ LET drawn == Charts(Only(tree.snapshot), "-", 0)
       IN  Check(/\ PinsHold({"manifest"}) /\ tree.manifest # {} /\ tree.charts # {}
                 /\ Only(tree.manifest).inputs = Only(tree.snapshot)
                 /\ {Only(tree.manifest).charts} = tree.charts
                 /\ Only(tree.charts).content = drawn
                 /\ host.checker = "linux" => tree.charts = {Drawn(drawn, "linux")},
                 "metadata")

DividendMetadata ==
    /\ At("metadata")
    /\ Check(PinsHold({"input", "snapshot", "prices"}), "dividend_facts")

DividendFactsCheck ==
    /\ At("dividend_facts")
    /\ Load(/\ DividendFactsExist(Only(tree.snapshot), read.package)
            /\ tree.facts = {DividendFacts(Only(tree.snapshot), read.package)}
            /\ PinsHold({"facts"}),
            [snapshot |-> Only(tree.snapshot), facts |-> Only(tree.facts),
             guide |-> tree.guide], "statements")

(* Tables, claims, advice, rankings and links of the guide; never the guide  *)
(* as a whole.                                                               *)
DividendArticle ==
    /\ At("statements")
    /\ Check(/\ read.guide # {} /\ AdviceHasWords(read.facts)
             /\ Only(read.guide).said = DividendStatements(read.snapshot, read.facts),
             "report")

-----------------------------------------------------------------------------
(* reproduce_publication_package. *)

ServiceStart ==
    /\ At("service")
    /\ Load(TRUE, [package |-> tree.package, code |-> tree.adapter], "releases")

(* Each section replays under its digest and publishes exactly its evidence; *)
(* the two releases differ.                                                  *)
ServiceReleases ==
    /\ At("releases")
    /\ Check(/\ \A id \in {read.package.cap, read.package.market} :
                   id \in DOMAIN tree.releases /\ tree.releases[id] = "exact"
             /\ read.package.cap # read.package.market, "digest")

(* The digest covers the package, its releases, the adapter and the declared *)
(* artifacts; not the suite, the registry or the bindings.                   *)
Covered == (Derived \cup Sources) \ {"suite", "registry", "bindings"}

PackageDigest(t, package) ==
    [files |-> [f \in Covered |-> {t[f]}],
     releases |-> [id \in {package.cap, package.market} |-> t.releases[id]]]

(* A digest from outside the checkout is compared when the caller gives one. *)
ServiceDigest ==
    /\ At("digest")
    /\ LET digest == PackageDigest(tree, read.package)
       IN  Load(host.expected \in {{}, {digest}}, [digest |-> digest], "adapter")

(* The sources the package pins, those of the checkout and the modules the   *)
(* process has loaded are the same code.                                     *)
ServiceAdapter ==
    /\ At("adapter")
    /\ Check(tree.adapter = read.package.code /\ read.code = tree.adapter,
             IF Dividend THEN "refs" ELSE "input")

ServiceReport ==
    /\ At("report")
    /\ report' = {[digest |-> read.digest,
                   status |-> IF read.package.mode = "canonical_linux_bytes"
                                 /\ host.checker = "linux"
                              THEN "verified"
                              ELSE "verified_with_noncanonical_chart_bytes"]}
    /\ End /\ UNCHANGED <<tree, host, incidents, history>>

-----------------------------------------------------------------------------
(* The author, and what goes wrong. *)

Commands == IF Dividend THEN <<"snapshot", "by_hand", "reproduce">>
            ELSE <<"snapshot", "writer", "edit_copy", "article", "publish", "reproduce">>

FirstStep == [snapshot |-> "input", writer |-> "writer", article |-> "load",
              reproduce |-> "service"]

(* After a refusal only the reproduction is left. *)
Stage == IF "refused" \in history /\ task.stage < Len(Commands)
         THEN Len(Commands) ELSE task.stage

Free(cmd) == task.cmd = "idle" /\ Stage <= Len(Commands) /\ Commands[Stage] = cmd

Begin(cmd) ==
    /\ Free(cmd)
    /\ task' = [cmd |-> cmd, pc |-> FirstStep[cmd], ret |-> "prepared", stage |-> Stage]
    /\ IF cmd = "reproduce" THEN history' = history \ {"disturbed"} /\ report' = {}
                             ELSE UNCHANGED <<history, report>>
    /\ UNCHANGED <<tree, host, temp, read, incidents>>

Byhand(new) == tree' = new /\ End /\ Calm

(* The paths the case release has run. *)
Cohort == Identities(ReleaseOf[tree.package.cap])

(* The approved copy with some shortlist, written against the writer input.  *)
WriteEditorial ==
    /\ Free("edit_copy")
    /\ \E chosen \in SUBSET Cohort :
          Byhand([tree EXCEPT !.editorial =
              {[copy |-> ProfileOf[tree.profile].approved, type |-> host.decision,
                market |-> US, chosen |-> chosen, analyses |-> Cohort]}])

PublishGuide == Free("publish") /\ Byhand([tree EXCEPT !.guide = tree.article])

(* The Dividend charts, facts, guide and pins follow the snapshot.           *)
WriteDividendGuide ==
    /\ Free("by_hand") /\ tree.snapshot # {}
    /\ DividendFactsExist(Only(tree.snapshot), tree.package)
    /\ LET s == Only(tree.snapshot)
           facts == DividendFacts(s, tree.package)
           charts == Drawn(Charts(s, "-", 0), host.maker)
           new == [tree EXCEPT !.facts = {facts}, !.charts = {charts},
                               !.manifest = {Manifest(s, charts, 0)},
                               !.guide = {DividendGuide(s, facts)}]
       IN  Byhand([new EXCEPT !.package.pins = Pins(new)])

Incident(kinds) ==
    /\ incidents < MaxIncidents /\ incidents' = incidents + 1
    /\ history' = history \cup kinds
                    \cup (IF Reproducing \/ report # {} THEN {"disturbed"} ELSE {})
    /\ UNCHANGED <<host, report>>

(* The author forgets a command, or cannot run it. *)
SkipCommand ==
    /\ task.cmd = "idle" /\ Stage < Len(Commands)
    /\ Incident({"skipped"})
    /\ task' = Idle(Stage + 1) /\ UNCHANGED <<tree, temp, read>>

EditSource ==
    /\ Incident({"edited"})
    /\ \E f \in Sources : \E v \in EditsOf(tree, f) :
          tree[f] # v /\ tree' = [tree EXCEPT ![f] = v]
    /\ UNCHANGED <<temp, task, read>>

EditRelease ==
    /\ Incident({"edited"})
    /\ \E id \in DOMAIN tree.releases, s \in {"extra", "rewritten"} :
          tree.releases[id] = "exact" /\ tree' = [tree EXCEPT !.releases[id] = s]
    /\ UNCHANGED <<temp, task, read>>

(* What an edit by hand makes of a generated file, and of a statement or of   *)
(* other prose of the Dividend guide.                                        *)
Edited(f, v) ==
    CASE f = "guide" /\ Dividend -> {[v EXCEPT !.said.hand = "yes"], [v EXCEPT !.prose = "edited"]}
      [] f = "charts" -> {[v EXCEPT !.content.hand = "yes"], [v EXCEPT !.encoding = "edited"]}
      [] f = "editorial" -> {[v EXCEPT !.copy = "edited"]}
                            \cup {[v EXCEPT !.chosen = s] : s \in SUBSET v.analyses}
      [] OTHER -> {[v EXCEPT !.hand = "yes"]}

EditDerived ==
    /\ Incident({"edited"})
    /\ \E f \in Derived : \E v \in tree[f] : \E w \in Edited(f, v) :
          w # v /\ tree' = [tree EXCEPT ![f] = {w}]
    /\ UNCHANGED <<temp, task, read>>

(* A killed command leaves what it has written so far. *)
Kill ==
    /\ task.cmd \notin {"idle", "reproduce"}
    /\ Incident({"crashed"})
    /\ task' = Idle(task.stage + 1) /\ read' = <<>> /\ temp' = <<>>
    /\ UNCHANGED tree

-----------------------------------------------------------------------------
(* What the commands of one build leave, charts drawn on the platform given. *)

SnapshotBuilt(t) ==
    /\ UsableSources(t) /\ t.snapshot = {FreshSnapshot(t)}
    /\ {FreshSnapshot(t).cap, FreshSnapshot(t).market} \subseteq DOMAIN t.releases

WriterBuilt(t) ==
    /\ WriterReleasesMatch(FreshSnapshot(t), t.profile)
    /\ t.writer = {WriterInput(FreshSnapshot(t), t.profile)}

(* The package of an admitted editorial document. *)
ArticleBuilt(t, renderer, platform) ==
    LET editorial == Only(t.editorial)
        charts == Drawn(Charts(FreshSnapshot(t), t.profile, renderer), platform)
    IN  /\ Publishable(FreshSnapshot(t), t.profile) /\ t.editorial # {}
        /\ EditorialAdmitted(editorial, WriterInput(FreshSnapshot(t), t.profile))
        /\ t.facts = {ArticleFacts(FreshSnapshot(t), t.profile)}
        /\ t.charts = {charts}
        /\ t.article = {FreshArticle(t, editorial, renderer)}
        /\ t.manifest = {Manifest(FreshInputs(t, editorial), charts, renderer)}

DividendBuilt(t, platform) ==
    LET facts == DividendFacts(FreshSnapshot(t), t.package)
        charts == Drawn(Charts(FreshSnapshot(t), "-", 0), platform)
    IN  /\ DividendFactsExist(FreshSnapshot(t), t.package)
        /\ t.facts = {facts} /\ t.charts = {charts}
        /\ t.manifest = {Manifest(FreshSnapshot(t), charts, 0)}
        /\ t.guide = {DividendGuide(FreshSnapshot(t), facts)}
        /\ t.package.pins = Pins(t)

Built(t, platform) ==
    /\ SnapshotBuilt(t)
    /\ CASE t.package.adapter = "dividend" -> DividendBuilt(t, platform)
         [] OTHER -> /\ WriterBuilt(t) /\ t.guide = t.article
                     /\ ArticleBuilt(t, IF t.package.adapter = "v1" THEN 1 ELSE 2, platform)

(* A checkout is taken up before its first command or with all of it built.  *)
TakenUp(s) ==
    /\ TreeOK(s.tree) /\ s.incidents \in 0 .. MaxIncidents
    /\ PackageFields \subseteq DOMAIN s.tree.package
    /\ s.stage \in 1 .. LastStage + 1
    /\ s.stage > 1 => Built(s.tree, s.host.maker)

ASSUME ScenariosOK == \A s \in Scenarios : TakenUp(s)

Init ==
    /\ \E s \in Scenarios : /\ tree = s.tree /\ host = s.host
                            /\ incidents = s.incidents /\ task = Idle(s.stage)
    /\ temp = <<>> /\ read = <<>>
    /\ history = {} /\ report = {}

Author ==
    \/ \E cmd \in DOMAIN FirstStep : Begin(cmd)
    \/ WriteEditorial \/ PublishGuide \/ WriteDividendGuide

Snapshotting == SnapshotInput \/ SnapshotReplay \/ SnapshotMarket \/ SnapshotRows
                    \/ SnapshotDone

Writing == WriterInputStart \/ WriterReleases \/ WriterDone

Building == \/ RecordedInputs \/ ArticleLoad \/ ArticleEditorial
            \/ WriteFacts \/ WriteCharts \/ WriteArticle \/ WriteManifest
            \/ Redraw \/ Reword \/ Remanifest \/ CompareArtifacts \/ CompareGuide

CheckingDividend == \/ DividendRefs \/ DividendCharts \/ DividendMetadata
                    \/ DividendFactsCheck \/ DividendArticle

Serving == ServiceStart \/ ServiceReleases \/ ServiceDigest \/ ServiceAdapter
               \/ ServiceReport

Trouble == SkipCommand \/ EditSource \/ EditRelease \/ EditDerived \/ Kill

Next == Author \/ Snapshotting \/ Writing \/ Building \/ CheckingDividend \/ Serving
            \/ Trouble

Spec == Init /\ [][Next]_vars

-----------------------------------------------------------------------------
(* Properties. *)

Steps == {"input", "replay", "market", "rows", "built", "writer", "sources", "prepared",
          "recorded", "load", "editorial", "facts", "draw", "text", "manifest", "redraw",
          "reword", "remanifest", "compare", "guide", "refs", "charts", "metadata",
          "dividend_facts", "statements", "service", "releases", "digest", "adapter", "report"}

Tasks == [cmd : {"idle", "snapshot", "writer", "article", "reproduce"}, pc : {"-"} \cup Steps,
          ret : {"-", "prepared", "editorial"}, stage : 1 .. LastStage + 1]

(* Every generated file is absent or one value; only a running command has   *)
(* read anything, only a reproduction has a temporary directory.             *)
PublicationTypeOK ==
    /\ TreeOK(tree)
    /\ task \in Tasks
    /\ IF task.cmd = "idle" THEN task.pc = "-" /\ read = <<>> /\ temp = <<>>
                            ELSE "-" \notin {task.pc, task.ret} /\ task.stage <= LastStage
    /\ temp # <<>> => Reproducing
    /\ incidents \in 0 .. MaxIncidents
    /\ history \subseteq {"refused", "rejected", "disturbed", "edited", "crashed", "skipped"}
    /\ AtMostOne(report)

Vouched == report # {} /\ "disturbed" \notin history

(* The first reproduction looks at the recorded inputs only, and not at the  *)
(* facts among them.                                                         *)
ManifestIsFresh(manifest, editorial) ==
    /\ manifest.inputs.snapshot = FreshSnapshot(tree)
    /\ manifest.inputs.profile = tree.profile
    /\ manifest.inputs.writer = WriterInput(FreshSnapshot(tree), tree.profile)
    /\ manifest.inputs.editorial = editorial
    /\ Renderer = 2 => /\ manifest.inputs.facts = Only(tree.facts)
                       /\ manifest.charts = Only(tree.charts)
                       /\ manifest.renderer = 2 /\ manifest.hand = "no"

ArticleIsFresh(editorial) ==
    /\ tree.snapshot = {FreshSnapshot(tree)}
    /\ tree.writer = {WriterInput(FreshSnapshot(tree), tree.profile)}
    /\ EditorialAdmitted(editorial, Only(tree.writer))
    /\ tree.facts = {ArticleFacts(FreshSnapshot(tree), tree.profile)}
    /\ tree.article = {FreshArticle(tree, editorial, Renderer)}
    /\ tree.guide = tree.article
    /\ Only(tree.charts).content = Charts(FreshSnapshot(tree), tree.profile, Renderer)
    /\ ManifestIsFresh(Only(tree.manifest), editorial)

(* Of the guide only its statements: other prose may have been edited.       *)
DividendIsFresh ==
    LET facts == DividendFacts(FreshSnapshot(tree), tree.package)
    IN  /\ tree.snapshot = {FreshSnapshot(tree)}
        /\ Only(tree.charts).content = Charts(FreshSnapshot(tree), "-", 0)
        /\ tree.facts = {facts} /\ AdviceHasWords(facts)
        /\ tree.guide # {}
        /\ Only(tree.guide).said = DividendStatements(FreshSnapshot(tree), facts)

(* Snapshot or downstream drift fails the reproduction until everything that *)
(* depends on it is rebuilt: when the service vouches for a package nobody   *)
(* touched meanwhile, its builder accepts the sources in the checkout and    *)
(* what each adapter compares is what one complete build makes of them:      *)
(* every file of an article package, and the snapshot, charts, facts and the *)
(* statements of the guide of the Dividend package, charts up to their       *)
(* encoding unless their canonical bytes are verified (the adapters' and     *)
(* factories' comparisons; the second renderer's reproduction never looks at *)
(* the bytes of a chart).                                                    *)
VerifiedPackageIsFresh ==
    Vouched =>
        /\ IF Dividend THEN DividendIsFresh ELSE ArticleIsFresh(Only(tree.editorial))
        /\ Only(report).status = "verified" /\ (Dividend \/ Renderer = 1)
              => Only(tree.charts).encoding = "linux"
        /\ UsableSources(tree)
        /\ FreshSnapshot(tree).cap = tree.package.cap
        /\ FreshSnapshot(tree).market = tree.package.market
        /\ \A id \in {tree.package.cap, tree.package.market} :
              id \in DOMAIN tree.releases /\ tree.releases[id] = "exact"

(* What the guide says, and what its two releases published. *)
EveryRoundCompleted(p) ==
    LET r == ReleaseOf[tree.package.market]
    IN  {k \in Markets : \A c \in DOMAIN r.cells :
                             c[1] = p /\ c[2] = k => r.cells[c] \in Completed}

CapCells(p, outcomes) ==
    LET r == ReleaseOf[tree.package.cap]
    IN  {c \in DOMAIN r.cells : c[1] = p /\ r.cells[c] \in outcomes}

Timed == {p \in QVerisPaths :
             \E c \in CapCells(p, {"completed"} \cup Negative) :
                 c[2] # Control \/ InputOf[tree.input].positiveOnly # "yes"}

Rejecting(p) == Cardinality({c \in CapCells(p, Completed \cup {"rejected"}) : c[2] = Control})

(* A path the Dividend guide recommends for basic US events: one with that    *)
(* market, and with a round that found its required fields; the one path     *)
(* whose sample is of another market is exempt.                              *)
BasicUSRecommendable(p) ==
    /\ p \in QVerisPaths /\ US \in EveryRoundCompleted(p)
    /\ p # SamplePath => \E c \in SampleCells(tree.package, p) :
                              SampleRelease(tree.package, p).cells[c] \in Completed

(* A path the decision scenario of an article recommends. *)
Recommendable(p) ==
    LET scenario == Only(tree.guide).editorial
    IN  CASE scenario.type = "verified_market" -> scenario.market \in EveryRoundCompleted(p)
          [] scenario.type = "broadest_market_coverage" ->
                \A q \in Cohort : Cardinality(EveryRoundCompleted(q))
                                      <= Cardinality(EveryRoundCompleted(p))
          [] scenario.type = "lowest_latency" ->
                p \in Timed /\ \A q \in Timed : Latency[p] <= Latency[q]
          [] scenario.type = "lowest_list_price" ->
                LET price == PricesOf[tree.prices].amount
                IN  p \in DOMAIN price /\ \A q \in DOMAIN price : price[p] <= price[q]
          [] scenario.type = "explicit_invalid_input" ->
                Rejecting(p) > 0 /\ \A q \in Cohort : Rejecting(q) <= Rejecting(p)

Said == IF Dividend THEN Only(tree.guide).said ELSE ArticleStatements(Only(tree.guide))

GuideNamesReleasedPaths ==
    /\ \A p \in DOMAIN Said.verified : Said.verified[p] = EveryRoundCompleted(p)
    /\ IF Dividend
       THEN \A p \in Said.advice.basic_us : p \in Cohort /\ BasicUSRecommendable(p)
       ELSE \A p \in Said.shortlist : p \in Cohort /\ Recommendable(p)

(* The markets of a path that were not applicable, in every round.           *)
NeverRun(p) ==
    LET r == ReleaseOf[tree.package.market]
    IN  {k \in Markets : \A c \in DOMAIN r.cells :
                             c[1] = p /\ c[2] = k => r.cells[c] = "na"}

QuickCountsAreReleased ==
    Dividend =>
        /\ \A p \in DOMAIN Said.quick.passed :
              Said.quick.passed[p] = Cardinality(EveryRoundCompleted(p))
        /\ Said.quick.unsupported = Cardinality(NeverRun(Said.quick.all))

GuideCountsReleasedCalls ==
    InputOf[tree.input].marketRuns = "yes" \/ Dividend =>
        Said.live = Cardinality(ReleaseOf[tree.package.cap].evidence)
                        + Cardinality(ReleaseOf[tree.package.market].evidence)

(* What the guide tells its readers is what the two releases published: the  *)
(* markets of a path are those where every round completed, the live calls   *)
(* are the public records of both releases, and nobody measured beats a      *)
(* recommended path (writer.py, selection.py, factory.py; the Dividend       *)
(* facts).  The count of live calls needs the market-run observations that   *)
(* every committed input asks for.  Of the Dividend guide it is the market    *)
(* table, the basic US recommendation and the numbers: the fixed words of    *)
(* its advice, among them the names the quick recommendation starts with and *)
(* that one path passed `all` its applicable markets, are demanded whatever  *)
(* the releases say, and are not claimed here.                               *)
GuideStatesReleasedEvidence ==
    Vouched => /\ GuideNamesReleasedPaths /\ GuideCountsReleasedCalls
               /\ QuickCountsAreReleased

(* A package that its commands built, in order and without an incident, from *)
(* two releases, pins and sources that agree, is not refused by the          *)
(* reproduction afterwards: the generator and the checker of a file agree    *)
(* (factory_v2.py, selection.py).  The article command no longer writes what *)
(* the first renderer's adapter compares with, Dividend charts made          *)
(* elsewhere have other bytes than Linux draws, and a Dividend guide with a  *)
(* group of its advice empty is refused however it is written.               *)
Agreeing ==
    /\ \A id \in DOMAIN tree.releases : tree.releases[id] = "exact"
    /\ tree.package.cap = InputOf[tree.input].cap
    /\ tree.package.market = InputOf[tree.input].market
    /\ tree.package.cap # tree.package.market
    /\ tree.package.code = tree.adapter
    /\ host.expected = {}

UndisturbedBuildReproduces ==
    "rejected" \in history =>
        \/ history \cap {"refused", "edited", "crashed", "skipped"} # {}
        \/ ~ Agreeing \/ Renderer = 1
        \/ Dividend /\ \/ host.maker # host.checker
                       \/ ~ AdviceHasWords(DividendFacts(FreshSnapshot(tree), tree.package))

(* The Dividend guide explains its overview: "Sample passed: every frozen    *)
(* round completed the task defined by this benchmark."  The checks of the   *)
(* adapter demand that sentence of every path with one completed round.      *)
SamplePassedMeansEveryRound ==
    Vouched /\ Dividend =>
        \A p \in DOMAIN Said.overview :
            Said.overview[p].verdict = "passed" =>
                \A c \in SampleCells(tree.package, p) :
                    SampleRelease(tree.package, p).cells[c] \in Completed
=============================================================================
