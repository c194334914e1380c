------------------------- MODULE PublicationProofs -------------------------
(***************************************************************************)
(* What the proofs of Publication establish for every checkout, every edit  *)
(* and every number of incidents: the type invariant, that the offline       *)
(* reproduction vouches only for what one complete build makes of the        *)
(* sources in the checkout (of the Dividend guide for its statements only),  *)
(* that what it vouches for states what the releases hold, and that it does  *)
(* not refuse what an undisturbed author has built.                          *)
(*                                                                         *)
(* The reproduction reads the files one after another.  As long as nobody    *)
(* disturbs it the tree stays what it was when it began, since a             *)
(* reproduction writes into its temporary directory only.  Each of its steps *)
(* therefore establishes one fact of this tree that no later step undoes:    *)
(* what it has read, what it has compared, what it has built.  `Facts`       *)
(* states them, each for the steps that come after it.                       *)
(*                                                                         *)
(* The author's commands write the tree, so what an undisturbed build keeps  *)
(* is a fact of the files: `Progress` is what the finished commands have     *)
(* left, `Doing` what the running one has read and written so far, both      *)
(* stated against the sources, which only an incident changes.               *)
(***************************************************************************)
EXTENDS Publication, FiniteSetTheorems, FunctionTheorems, TLAPS

Undisturbed == "disturbed" \notin history

(* `read` and `temp` hold v under the name f. *)
Holds(s, f, v) == f \in DOMAIN s /\ s[f] = v

-----------------------------------------------------------------------------
(* The steps of the reproduction in their order, from the end.              *)

DividendSteps == {"charts", "metadata", "dividend_facts", "statements"}

Redrawing == {"redraw", "reword", "remanifest"}
Manifested == {"compare", "guide"} \cup Redrawing
Written == {"manifest"} \cup Manifested
Pictured == {"text"} \cup Written
Factual == {"draw"} \cup Pictured
Approved == {"facts"} \cup Factual
Loaded == {"editorial"} \cup Approved

WriterSteps == {"writer", "sources", "prepared"}
ArticleSteps == WriterSteps \cup {"recorded", "load"} \cup Loaded
SnapshotSteps == {"input", "replay", "market", "rows", "built"}

(* Steps of a reproduction only. *)
ServiceSteps == {"service", "releases", "digest", "adapter", "recorded", "compare", "guide",
                 "refs", "report"} \cup DividendSteps

Rebuilt == ArticleSteps \cup DividendSteps

PackageFacts ==
    /\ task.pc # "service" =>
          Holds(read, "package", tree.package)
    /\ task.pc \notin {"service", "releases"} =>
          \A id \in {tree.package.cap, tree.package.market} :
              id \in DOMAIN tree.releases /\ tree.releases[id] = "exact"

SnapshotFacts ==
    /\ task.pc \in {"replay", "market", "rows"} => Holds(read, "input", tree.input)
    /\ task.pc \in {"market", "rows"} => Holds(read, "registry", tree.registry)
    /\ task.pc = "rows" => Holds(read, "priceHash", tree.prices)
    /\ task.pc = "built" => Holds(read, "built", FreshSnapshot(tree))
    /\ task.pc \in Rebuilt => tree.snapshot = {FreshSnapshot(tree)}

(* What the builder has found usable, file after file. *)
CapUsable == ReleaseUsable(InputOf[tree.input].cap, tree.suite, tree.input)
MarketUsable == ReleaseUsable(InputOf[tree.input].market, tree.suite, tree.input)
TablesUsable ==
    /\ PricesUsable(tree.prices, tree.bindings, InputOf[tree.input].cap)
    /\ PricingUsable(tree.registry, InputOf[tree.input].cap)
    /\ RowsValid(FreshSnapshot(tree))

OfThePackage ==
    /\ FreshSnapshot(tree).cap = tree.package.cap
    /\ FreshSnapshot(tree).market = tree.package.market

SourceFacts ==
    /\ task.pc \in {"replay", "market", "rows", "built"} \cup Rebuilt => CapUsable
    /\ task.pc \in {"rows", "built"} \cup Rebuilt => MarketUsable
    /\ task.pc \in {"built"} \cup Rebuilt => TablesUsable
    /\ task.pc \in Rebuilt => OfThePackage

FreshWriter == WriterInput(FreshSnapshot(tree), tree.profile)

WriterFacts ==
    /\ task.pc \in ArticleSteps => ~ Dividend
    /\ task.ret = "editorial" => task.pc \in {"writer", "sources", "report"} \cup Loaded
    /\ task.pc = "sources" => /\ Holds(read, "wsnapshot", FreshSnapshot(tree))
                              /\ Holds(read, "wprofile", tree.profile)
    /\ task.pc \in {"prepared", "editorial"} => Holds(read, "writer", FreshWriter)
    /\ task.pc \in {"recorded", "load"} \cup Loaded => tree.writer = {FreshWriter}
    /\ task.ret = "editorial" => tree.writer = {FreshWriter}

(* The first reproduction has compared the inputs its manifest recorded.     *)
Recorded ==
    /\ tree.manifest # {}
    /\ Only(tree.manifest).inputs.snapshot = FreshSnapshot(tree)
    /\ Only(tree.manifest).inputs.profile = tree.profile
    /\ Only(tree.manifest).inputs.writer = FreshWriter
    /\ {Only(tree.manifest).inputs.editorial} = tree.editorial

FreshFacts == ArticleFacts(FreshSnapshot(tree), tree.profile)

InputFacts ==
    /\ (task.pc \in {"load"} \cup Loaded \/ task.ret = "editorial") /\ Renderer = 1 =>
          Recorded
    /\ task.ret = "editorial" \/ task.pc \in Loaded =>
          /\ Holds(read, "snapshot", FreshSnapshot(tree))
          /\ Holds(read, "profile", tree.profile)
    /\ task.pc \in Approved =>
          /\ Holds(read, "editorial", Only(tree.editorial))
          /\ Holds(read, "writer", FreshWriter)
          /\ tree.editorial # {}
          /\ EditorialAdmitted(Only(tree.editorial), FreshWriter)

Drawing(renderer) ==
    Drawn(Charts(FreshSnapshot(tree), tree.profile, renderer), host.checker)

BuildFacts ==
    LET editorial == Only(tree.editorial)
    IN  /\ task.pc \in Factual => Holds(temp, "facts", FreshFacts)
        /\ task.pc \in {"text", "manifest", "redraw"} => Holds(temp, "charts", Drawing(1))
        /\ task.pc \in {"reword", "remanifest"} => Holds(temp, "charts", Drawing(2))
        /\ task.pc = "compare" => Holds(temp, "charts", Drawing(Renderer))
        /\ task.pc \in {"manifest", "redraw", "reword"} =>
              Holds(temp, "article", FreshArticle(tree, editorial, 1))
        /\ task.pc = "remanifest" => Holds(temp, "article", FreshArticle(tree, editorial, 2))
        /\ task.pc = "compare" =>
              Holds(temp, "article", FreshArticle(tree, editorial, Renderer))
        /\ task.pc \in Redrawing => 
              /\ Renderer = 2
              /\ Holds(temp, "manifest", Manifest(FreshInputs(tree, editorial), Drawing(1), 1))
        /\ task.pc = "compare" /\ Renderer = 2 =>
              Holds(temp, "manifest", Manifest(FreshInputs(tree, editorial), Drawing(2), 2))

(* Nothing but the guide is left to compare. *)
PackageIsFresh ==
    /\ tree.facts = {FreshFacts}
    /\ tree.article = {FreshArticle(tree, Only(tree.editorial), Renderer)}
    /\ Only(tree.charts).content = Charts(FreshSnapshot(tree), tree.profile, Renderer)
    /\ ManifestIsFresh(Only(tree.manifest), Only(tree.editorial))
    /\ Renderer = 1 /\ host.checker = "linux" => Only(tree.charts).encoding = "linux"

FreshDividendFacts == DividendFacts(FreshSnapshot(tree), tree.package)

DividendChecks ==
    /\ task.pc \in DividendSteps => Dividend
    /\ task.pc \in DividendSteps \ {"charts"} =>
          /\ Only(tree.charts).content = Charts(FreshSnapshot(tree), "-", 0)
          /\ host.checker = "linux" => Only(tree.charts).encoding = "linux"
    /\ task.pc = "statements" =>
          /\ tree.facts = {FreshDividendFacts}
          /\ Holds(read, "snapshot", FreshSnapshot(tree))
          /\ Holds(read, "facts", FreshDividendFacts)
          /\ Holds(read, "guide", tree.guide)

(* What the report will say. *)
AllIsFresh ==
    /\ IF Dividend THEN DividendIsFresh ELSE ArticleIsFresh(Only(tree.editorial))
    /\ host.checker = "linux" /\ (Dividend \/ Renderer = 1)
          => Only(tree.charts).encoding = "linux"
    /\ UsableSources(tree) /\ OfThePackage
    /\ \A id \in {tree.package.cap, tree.package.market} :
          id \in DOMAIN tree.releases /\ tree.releases[id] = "exact"

Facts ==
    /\ PackageFacts
    /\ SnapshotFacts
    /\ SourceFacts
    /\ WriterFacts
    /\ InputFacts
    /\ BuildFacts
    /\ task.pc = "guide" => PackageIsFresh
    /\ DividendChecks
    /\ task.pc = "report" => AllIsFresh

(* A reproduction is the last command; nothing follows it but an incident.   *)
Last == task.stage = Len(Commands)

ReproductionInv ==
    /\ task.pc \in ServiceSteps => Reproducing
    /\ Reproducing => report = {}
    /\ Reproducing /\ Undisturbed => Last /\ Facts
    /\ Vouched => task.cmd = "idle" /\ task.stage > Len(Commands)

IInv == PublicationTypeOK /\ ReproductionInv /\ VerifiedPackageIsFresh
-----------------------------------------------------------------------------
(* Steps that go on, and steps that end a command. *)

LEMMA WithNew ==
    ASSUME NEW new, NEW old, NEW f \in DOMAIN new
    PROVE  Holds(With(new, old), f, new[f])
BY DEF With, Holds

LEMMA WithOld ==
    ASSUME NEW new, NEW old, NEW f, NEW v, f \notin DOMAIN new, Holds(old, f, v)
    PROVE  Holds(With(new, old), f, v)
BY DEF With, Holds

LEMMA OnlyOne ==
    ASSUME NEW s, AtMostOne(s), s # {}
    PROVE  s = {Only(s)}
BY DEF AtMostOne, Only

LEMMA OnlyValue ==
    ASSUME NEW s, NEW v, s = {v}
    PROVE  Only(s) = v
BY DEF Only

LEMMA RunningIsNotIdle ==
    ASSUME PublicationTypeOK, task.pc # "-"
    PROVE  task.cmd # "idle"
BY DEF PublicationTypeOK

(* The command stays, at a step of its own. *)
Proceeds ==
    /\ task' \in Tasks /\ task'.cmd = task.cmd /\ task'.stage = task.stage
    /\ "-" \notin {task'.pc, task'.ret}
    /\ task'.pc \in ServiceSteps => Reproducing
    /\ Calm /\ TreeOK(tree')
    /\ temp' = temp \/ Reproducing

LEMMA GotoProceeds ==
    ASSUME PublicationTypeOK, task.cmd # "idle", NEW p \in Steps, Goto(p),
           Calm, TreeOK(tree'), temp' = temp \/ Reproducing,
           p \in ServiceSteps => Reproducing
    PROVE  Proceeds /\ task'.pc = p /\ task'.ret = task.ret
BY DEF PublicationTypeOK, Tasks, Steps, Goto, Proceeds

LEMMA TypeProceeds ==
    ASSUME PublicationTypeOK, task.cmd # "idle", Proceeds
    PROVE  PublicationTypeOK'
<1>1. TreeOK(tree)' /\ UNCHANGED <<incidents, history, report>>
  BY DEF Proceeds, Calm
<1> QED BY <1>1 DEF PublicationTypeOK, Reproducing, Proceeds

LEMMA OneFileWritten ==
    ASSUME TreeOK(tree), NEW f \in Derived, NEW v, tree' = [tree EXCEPT ![f] = {v}]
    PROVE  TreeOK(tree')
BY DEF TreeOK, AtMostOne, Derived

(* A command that goes on vouches for nothing; an undisturbed reproduction    *)
(* has to keep the facts.                                                    *)
LEMMA GoesOn ==
    ASSUME IInv, task.cmd # "idle", Proceeds,
           Reproducing /\ Undisturbed /\ Facts => tree' = tree /\ Facts'
    PROVE  IInv'
<1>1. PublicationTypeOK'
  BY TypeProceeds DEF IInv
<1>2. /\ task'.cmd = task.cmd /\ task'.stage = task.stage
      /\ UNCHANGED <<history, report>>
  BY DEF Proceeds, Calm
<1>3. ~ Vouched'
  BY <1>2 DEF IInv, ReproductionInv, Vouched
<1>4. Reproducing' /\ Undisturbed' => Last' /\ Facts'
  BY <1>2 DEF IInv, ReproductionInv, Reproducing, Undisturbed, Last, Commands, Dividend
<1>5. Reproducing' => report' = {}
  BY <1>2 DEF IInv, ReproductionInv, Reproducing
<1>6. task'.pc \in ServiceSteps => Reproducing'
  BY <1>2 DEF Proceeds, Reproducing
<1> QED BY <1>1, <1>6, <1>3, <1>4, <1>5 DEF IInv, ReproductionInv, VerifiedPackageIsFresh

(* A command that has ended without a report vouches for nothing.            *)
LEMMA Ends ==
    ASSUME IInv, task.cmd # "idle", End, TreeOK(tree'),
           UNCHANGED <<incidents, report>>,
           history \subseteq history',
           history' \subseteq history \cup {"refused", "rejected"}
    PROVE  IInv'
<1>1. /\ task' = Idle(task.stage + 1) /\ read' = <<>> /\ temp' = <<>>
      /\ task.stage \in 1 .. LastStage
  BY DEF End, IInv, PublicationTypeOK, Tasks
<1> task.stage + 1 \in 1 .. LastStage + 1
  BY <1>1 DEF LastStage
<1>2. task' \in Tasks /\ task'.cmd = "idle" /\ task'.pc = "-"
  BY <1>1 DEF Tasks, Idle
<1>3. TreeOK(tree)'
  OBVIOUS
<1>4. PublicationTypeOK'
  BY <1>1, <1>2, <1>3 DEF IInv, PublicationTypeOK, Reproducing
<1>5. ~ Reproducing' /\ task'.pc \notin ServiceSteps
  BY <1>2 DEF Reproducing, ServiceSteps, DividendSteps
<1>6. ~ Vouched'
  BY DEF IInv, ReproductionInv, Vouched
<1> QED BY <1>4, <1>5, <1>6 DEF IInv, ReproductionInv, VerifiedPackageIsFresh

LEMMA RefusedEnds ==
    ASSUME IInv, task.cmd # "idle", Refuse
    PROVE  IInv'
<1>1. TreeOK(tree')
  BY DEF Refuse, IInv, PublicationTypeOK
<1> QED BY <1>1, Ends DEF Refuse

-----------------------------------------------------------------------------
(* An undisturbed reproduction, step by step. *)

LEMMA SameTree ==
    ASSUME tree' = tree, host' = host
    PROVE  /\ FreshSnapshot(tree)' = FreshSnapshot(tree)
           /\ FreshWriter' = FreshWriter /\ FreshFacts' = FreshFacts
           /\ FreshDividendFacts' = FreshDividendFacts
           /\ Renderer' = Renderer /\ Dividend' = Dividend
           /\ Recorded' = Recorded /\ PackageIsFresh' = PackageIsFresh
           /\ AllIsFresh' = AllIsFresh
           /\ CapUsable' = CapUsable /\ MarketUsable' = MarketUsable
           /\ TablesUsable' = TablesUsable /\ OfThePackage' = OfThePackage
           /\ \A r : Drawing(r)' = Drawing(r)
BY DEF FreshWriter, FreshFacts, FreshDividendFacts, Renderer, Dividend, Recorded,
       PackageIsFresh, AllIsFresh, Drawing, CapUsable, MarketUsable, TablesUsable,
       OfThePackage, UsableSources, DividendIsFresh, ArticleIsFresh, ManifestIsFresh

(* What a step that has read values, or has compared, leaves behind. *)
Reads(values, next) ==
    /\ read' = With(values, read) /\ Goto(next)
    /\ tree' = tree /\ temp' = temp /\ Calm

Passes(next) ==
    /\ read' = read /\ Goto(next)
    /\ tree' = tree /\ temp' = temp /\ Calm

LEMMA Reading ==
    ASSUME IInv, task.cmd # "idle", NEW next \in Steps, NEW values,
           next \in ServiceSteps => Reproducing,
           Reads(values, next) \/ Passes(next)
    PROVE  /\ Proceeds /\ tree' = tree /\ temp' = temp /\ host' = host
           /\ task'.pc = next /\ task'.ret = task.ret
<1>1. TreeOK(tree')
  BY DEF Reads, Passes, IInv, PublicationTypeOK
<1> QED BY <1>1, GotoProceeds DEF Reads, Passes, IInv, Calm

USE DEF Rebuilt, SnapshotSteps, WriterSteps, ArticleSteps, DividendSteps, Loaded, Approved,
        Factual, Pictured, Written, Manifested, Redrawing

LEMMA SnapshotInputKeeps ==
    ASSUME IInv, SnapshotInput
    PROVE  IInv'
<1>1. PublicationTypeOK /\ task.pc = "input" /\ task.cmd # "idle"
  BY RunningIsNotIdle DEF IInv, SnapshotInput, At
<1>2. CASE Refuse
  BY <1>1, <1>2, RefusedEnds
<1>3. CASE /\ CapUsable
            /\ Reads([input |-> tree.input], "replay")
  <2>1. /\ Proceeds /\ tree' = tree /\ temp' = temp /\ host' = host
        /\ task'.pc = "replay" /\ task'.ret = task.ret
    BY <1>1, <1>3, Reading DEF Steps, ServiceSteps
  <2>2. ASSUME Facts, Reproducing PROVE Facts'
    <3>1. Holds(read', "input", tree.input)
      BY <1>3, WithNew DEF Reads
    <3>2. Holds(read, "package", tree.package) => Holds(read', "package", tree.package)
      BY <1>3, WithOld DEF Reads
    <3> QED
      BY <1>1, <1>3, <2>1, <2>2, <3>1, <3>2, SameTree
         DEF Facts, PackageFacts, SnapshotFacts, SourceFacts, WriterFacts, InputFacts,
             BuildFacts, DividendChecks
  <2> QED BY <1>1, <2>1, <2>2, GoesOn
<1> QED BY <1>2, <1>3 DEF SnapshotInput, Load, Reads, CapUsable

LEMMA SnapshotReplayKeeps ==
    ASSUME IInv, SnapshotReplay
    PROVE  IInv'
<1>1. PublicationTypeOK /\ task.pc = "replay" /\ task.cmd # "idle"
  BY RunningIsNotIdle DEF IInv, SnapshotReplay, At
<1>2. CASE Refuse
  BY <1>1, <1>2, RefusedEnds
<1>3. CASE Reads([registry |-> tree.registry], "market")
  <2>1. /\ Proceeds /\ tree' = tree /\ temp' = temp /\ host' = host
        /\ task'.pc = "market" /\ task'.ret = task.ret
    BY <1>1, <1>3, Reading DEF Steps, ServiceSteps
  <2>2. ASSUME Facts, Reproducing PROVE Facts'
    <3>1. Holds(read', "registry", tree.registry)
      BY <1>3, WithNew DEF Reads
    <3>2. /\ Holds(read, "package", tree.package) => Holds(read', "package", tree.package)
          /\ Holds(read, "input", tree.input) => Holds(read', "input", tree.input)
      BY <1>3, WithOld DEF Reads
    <3> QED
      BY <1>1, <1>3, <2>1, <2>2, <3>1, <3>2, SameTree
         DEF Facts, PackageFacts, SnapshotFacts, SourceFacts, WriterFacts, InputFacts,
             BuildFacts, DividendChecks
  <2> QED BY <1>1, <2>1, <2>2, GoesOn
<1> QED BY <1>2, <1>3 DEF SnapshotReplay, Load, Reads

LEMMA SnapshotMarketKeeps ==
    ASSUME IInv, SnapshotMarket
    PROVE  IInv'
<1>1. PublicationTypeOK /\ task.pc = "market" /\ task.cmd # "idle"
  BY RunningIsNotIdle DEF IInv, SnapshotMarket, At
<1>2. CASE Refuse
  BY <1>1, <1>2, RefusedEnds
<1>3. CASE /\ ReleaseUsable(InputOf[read.input].market, tree.suite, read.input)
            /\ Reads([priceHash |-> tree.prices], "rows")
  <2>1. /\ Proceeds /\ tree' = tree /\ temp' = temp /\ host' = host
        /\ task'.pc = "rows" /\ task'.ret = task.ret
    BY <1>1, <1>3, Reading DEF Steps, ServiceSteps
  <2>2. ASSUME Facts, Reproducing PROVE Facts'
    <3>1. Holds(read', "priceHash", tree.prices)
      BY <1>3, WithNew DEF Reads
    <3>2. /\ Holds(read, "package", tree.package) => Holds(read', "package", tree.package)
          /\ Holds(read, "input", tree.input) => Holds(read', "input", tree.input)
          /\ Holds(read, "registry", tree.registry) => Holds(read', "registry", tree.registry)
      BY <1>3, WithOld DEF Reads
    <3>3. MarketUsable
      BY <1>1, <1>3, <2>2 DEF Facts, SnapshotFacts, Holds, MarketUsable
    <3> QED
      BY <1>1, <1>3, <2>1, <2>2, <3>1, <3>2, <3>3, SameTree
         DEF Facts, PackageFacts, SnapshotFacts, SourceFacts, WriterFacts, InputFacts,
             BuildFacts, DividendChecks
  <2> QED BY <1>1, <2>1, <2>2, GoesOn
<1> QED BY <1>2, <1>3 DEF SnapshotMarket, Load, Reads

LEMMA SnapshotRowsKeeps ==
    ASSUME IInv, SnapshotRows
    PROVE  IInv'
<1>1. PublicationTypeOK /\ task.pc = "rows" /\ task.cmd # "idle"
  BY RunningIsNotIdle DEF IInv, SnapshotRows, At
<1>2. CASE Refuse
  BY <1>1, <1>2, RefusedEnds
<1>3. CASE /\ PricesUsable(tree.prices, tree.bindings, InputOf[read.input].cap)
            /\ PricingUsable(read.registry, InputOf[read.input].cap)
            /\ RowsValid(BuiltSnapshot)
            /\ Reads([built |-> BuiltSnapshot], "built")
  <2>1. /\ Proceeds /\ tree' = tree /\ temp' = temp /\ host' = host
        /\ task'.pc = "built" /\ task'.ret = task.ret
    BY <1>1, <1>3, Reading DEF Steps, ServiceSteps
  <2>2. ASSUME Facts, Reproducing PROVE Facts'
    <3>1. Holds(read', "built", BuiltSnapshot)
      BY <1>3, WithNew DEF Reads
    <3>2. Holds(read, "package", tree.package) => Holds(read', "package", tree.package)
      BY <1>3, WithOld DEF Reads
    <3>3. BuiltSnapshot = FreshSnapshot(tree)
      BY <1>1, <2>2 DEF Facts, SnapshotFacts, Holds, BuiltSnapshot, FreshSnapshot
    <3>4. TablesUsable
      BY <1>1, <1>3, <2>2, <3>3 DEF Facts, SnapshotFacts, Holds, TablesUsable
    <3> QED
      BY <1>1, <1>3, <2>1, <2>2, <3>1, <3>2, <3>3, <3>4, SameTree
         DEF Facts, PackageFacts, SnapshotFacts, SourceFacts, WriterFacts, InputFacts,
             BuildFacts, DividendChecks
  <2> QED BY <1>1, <2>1, <2>2, GoesOn
<1> QED BY <1>2, <1>3 DEF SnapshotRows, Load, Reads

LEMMA WriterInputStartKeeps ==
    ASSUME IInv, WriterInputStart
    PROVE  IInv'
<1>1. PublicationTypeOK /\ task.pc = "writer" /\ task.cmd # "idle"
  BY RunningIsNotIdle DEF IInv, WriterInputStart, At
<1>2. CASE Refuse
  BY <1>1, <1>2, RefusedEnds
<1>3. CASE /\ tree.snapshot # {}
            /\ Reads([wsnapshot |-> Only(tree.snapshot), wprofile |-> tree.profile], "sources")
  <2>1. /\ Proceeds /\ tree' = tree /\ temp' = temp /\ host' = host
        /\ task'.pc = "sources" /\ task'.ret = task.ret
    BY <1>1, <1>3, Reading DEF Steps, ServiceSteps
  <2>2. ASSUME Facts, Reproducing PROVE Facts'
    <3>1. /\ Holds(read', "wsnapshot", Only(tree.snapshot))
          /\ Holds(read', "wprofile", tree.profile)
      BY <1>3, WithNew DEF Reads
    <3>2. /\ Holds(read, "package", tree.package) => Holds(read', "package", tree.package)
          /\ Holds(read, "snapshot", FreshSnapshot(tree)) => Holds(read', "snapshot", FreshSnapshot(tree))
          /\ Holds(read, "profile", tree.profile) => Holds(read', "profile", tree.profile)
      BY <1>3, WithOld DEF Reads
    <3>3. Only(tree.snapshot) = FreshSnapshot(tree)
      BY <1>1, <2>2, OnlyValue DEF Facts, SnapshotFacts
    <3> QED
      BY <1>1, <1>3, <2>1, <2>2, <3>1, <3>2, <3>3, SameTree
         DEF Facts, PackageFacts, SnapshotFacts, SourceFacts, WriterFacts, InputFacts,
             BuildFacts, DividendChecks
  <2> QED BY <1>1, <2>1, <2>2, GoesOn
<1> QED BY <1>2, <1>3 DEF WriterInputStart, Load, Reads

LEMMA ArticleEditorialKeeps ==
    ASSUME IInv, ArticleEditorial
    PROVE  IInv'
<1>1. PublicationTypeOK /\ task.pc = "editorial" /\ task.cmd # "idle"
  BY RunningIsNotIdle DEF IInv, ArticleEditorial, At
<1>2. CASE Refuse
  BY <1>1, <1>2, RefusedEnds
<1>3. CASE /\ tree.writer = {read.writer} /\ tree.editorial # {}
            /\ EditorialAdmitted(Only(tree.editorial), read.writer)
            /\ Reads([editorial |-> Only(tree.editorial)], "facts")
  <2>1. /\ Proceeds /\ tree' = tree /\ temp' = temp /\ host' = host
        /\ task'.pc = "facts" /\ task'.ret = task.ret
    BY <1>1, <1>3, Reading DEF Steps, ServiceSteps
  <2>2. ASSUME Facts, Reproducing PROVE Facts'
    <3>1. Holds(read', "editorial", Only(tree.editorial))
      BY <1>3, WithNew DEF Reads
    <3>2. /\ Holds(read, "package", tree.package) => Holds(read', "package", tree.package)
          /\ Holds(read, "snapshot", FreshSnapshot(tree)) => Holds(read', "snapshot", FreshSnapshot(tree))
          /\ Holds(read, "profile", tree.profile) => Holds(read', "profile", tree.profile)
          /\ Holds(read, "writer", FreshWriter) => Holds(read', "writer", FreshWriter)
      BY <1>3, WithOld DEF Reads
    <3>3. read.writer = FreshWriter
      BY <1>1, <2>2 DEF Facts, WriterFacts, Holds
    <3> QED
      BY <1>1, <1>3, <2>1, <2>2, <3>1, <3>2, <3>3, SameTree
         DEF Facts, PackageFacts, SnapshotFacts, SourceFacts, WriterFacts, InputFacts,
             BuildFacts, DividendChecks
  <2> QED BY <1>1, <2>1, <2>2, GoesOn
<1> QED BY <1>2, <1>3 DEF ArticleEditorial, Load, Reads

LEMMA DividendFactsCheckKeeps ==
    ASSUME IInv, DividendFactsCheck
    PROVE  IInv'
<1>1. PublicationTypeOK /\ task.pc = "dividend_facts" /\ task.cmd # "idle" /\ Reproducing
  BY RunningIsNotIdle DEF IInv, DividendFactsCheck, At, ReproductionInv, ServiceSteps
<1>2. CASE Refuse
  BY <1>1, <1>2, RefusedEnds
<1>3. CASE /\ tree.facts = {DividendFacts(Only(tree.snapshot), read.package)}
            /\ Reads([snapshot |-> Only(tree.snapshot), facts |-> Only(tree.facts),
                      guide |-> tree.guide], "statements")
  <2>1. /\ Proceeds /\ tree' = tree /\ temp' = temp /\ host' = host
        /\ task'.pc = "statements" /\ task'.ret = task.ret
    BY <1>1, <1>3, Reading DEF Steps, ServiceSteps
  <2>2. ASSUME Facts, Reproducing PROVE Facts'
    <3>1. /\ Holds(read', "snapshot", Only(tree.snapshot))
          /\ Holds(read', "facts", Only(tree.facts))
          /\ Holds(read', "guide", tree.guide)
      BY <1>3, WithNew DEF Reads
    <3>2. Holds(read, "package", tree.package) => Holds(read', "package", tree.package)
      BY <1>3, WithOld DEF Reads
    <3>3. Only(tree.snapshot) = FreshSnapshot(tree) /\ read.package = tree.package
      BY <1>1, <2>2, OnlyValue DEF Facts, SnapshotFacts, PackageFacts, Holds
    <3>4. tree.facts = {FreshDividendFacts} /\ Only(tree.facts) = FreshDividendFacts
      BY <1>3, <3>3, OnlyValue DEF FreshDividendFacts
    <3> QED
      BY <1>1, <1>3, <2>1, <2>2, <3>1, <3>2, <3>3, <3>4, SameTree
         DEF Facts, PackageFacts, SnapshotFacts, SourceFacts, WriterFacts, InputFacts,
             BuildFacts, DividendChecks
  <2> QED BY <1>1, <2>1, <2>2, GoesOn
<1> QED BY <1>2, <1>3 DEF DividendFactsCheck, Load, Reads

LEMMA SnapshotDoneKeeps ==
    ASSUME IInv, SnapshotDone
    PROVE  IInv'
<1>1. PublicationTypeOK /\ task.pc = "built" /\ task.cmd # "idle"
  BY RunningIsNotIdle DEF IInv, SnapshotDone, At
<1>2. CASE Refuse
  BY <1>1, <1>2, RefusedEnds
<1>3. CASE /\ <<read.built.cap, read.built.market>> = <<read.package.cap, read.package.market>>
            /\ tree.snapshot = {read.built}
            /\ Reproducing /\ Dividend
            /\ Passes("charts")
  <2>1. /\ Proceeds /\ tree' = tree /\ temp' = temp /\ host' = host
        /\ task'.pc = "charts" /\ task'.ret = task.ret /\ read' = read
    BY <1>1, <1>3, Reading DEF Steps, ServiceSteps, Passes
  <2>2. ASSUME Facts, Reproducing PROVE Facts'
    <3>1. read.built = FreshSnapshot(tree) /\ read.package = tree.package
      BY <1>1, <2>2 DEF Facts, SnapshotFacts, PackageFacts, Holds
    <3>2. tree.snapshot = {FreshSnapshot(tree)} /\ OfThePackage
      BY <1>3, <3>1 DEF OfThePackage
    <3> QED
      BY <1>1, <1>3, <2>1, <2>2, <3>1, <3>2, SameTree
         DEF Facts, PackageFacts, SnapshotFacts, SourceFacts, WriterFacts, InputFacts,
             BuildFacts, DividendChecks
  <2> QED BY <1>1, <2>1, <2>2, GoesOn
<1>4. CASE /\ <<read.built.cap, read.built.market>> = <<read.package.cap, read.package.market>>
            /\ tree.snapshot = {read.built}
            /\ ~ Dividend
            /\ Passes("writer")
  <2>1. /\ Proceeds /\ tree' = tree /\ temp' = temp /\ host' = host
        /\ task'.pc = "writer" /\ task'.ret = task.ret /\ read' = read
    BY <1>1, <1>4, Reading DEF Steps, ServiceSteps, Passes
  <2>2. ASSUME Facts, Reproducing PROVE Facts'
    <3>1. read.built = FreshSnapshot(tree) /\ read.package = tree.package
      BY <1>1, <2>2 DEF Facts, SnapshotFacts, PackageFacts, Holds
    <3>2. tree.snapshot = {FreshSnapshot(tree)} /\ OfThePackage
      BY <1>4, <3>1 DEF OfThePackage
    <3> QED
      BY <1>1, <1>4, <2>1, <2>2, <3>1, <3>2, SameTree
         DEF Facts, PackageFacts, SnapshotFacts, SourceFacts, WriterFacts, InputFacts,
             BuildFacts, DividendChecks
  <2> QED BY <1>1, <2>1, <2>2, GoesOn
<1>5. CASE End /\ Calm /\ tree' = [tree EXCEPT !.snapshot = {read.built}]
  <2>1. TreeOK(tree')
    BY <1>1, <1>5, OneFileWritten DEF PublicationTypeOK, Derived
  <2> QED BY <1>1, <1>5, <2>1, Ends DEF Calm
<1> QED BY <1>2, <1>3, <1>4, <1>5 DEF SnapshotDone, Check, Passes, Publish

LEMMA WriterDoneKeeps ==
    ASSUME IInv, WriterDone
    PROVE  IInv'
<1>1. PublicationTypeOK /\ task.pc = "prepared" /\ task.cmd # "idle"
  BY RunningIsNotIdle DEF IInv, WriterDone, At
<1>2. CASE Refuse
  BY <1>1, <1>2, RefusedEnds
<1>3. CASE /\ tree.writer = {read.writer}
            /\ Reproducing /\ Renderer = 1
            /\ Passes("recorded")
  <2>1. /\ Proceeds /\ tree' = tree /\ temp' = temp /\ host' = host
        /\ task'.pc = "recorded" /\ task'.ret = task.ret /\ read' = read
    BY <1>1, <1>3, Reading DEF Steps, ServiceSteps, Passes
  <2>2. ASSUME Facts, Reproducing PROVE Facts'
    <3>1. tree.writer = {FreshWriter}
      BY <1>1, <1>3, <2>2 DEF Facts, WriterFacts, Holds
    <3> QED
      BY <1>1, <1>3, <2>1, <2>2, <3>1, SameTree
         DEF Facts, PackageFacts, SnapshotFacts, SourceFacts, WriterFacts, InputFacts,
             BuildFacts, DividendChecks
  <2> QED BY <1>1, <2>1, <2>2, GoesOn
<1>4. CASE /\ tree.writer = {read.writer}
            /\ Renderer # 1
            /\ Passes("load")
  <2>1. /\ Proceeds /\ tree' = tree /\ temp' = temp /\ host' = host
        /\ task'.pc = "load" /\ task'.ret = task.ret /\ read' = read
    BY <1>1, <1>4, Reading DEF Steps, ServiceSteps, Passes
  <2>2. ASSUME Facts, Reproducing PROVE Facts'
    <3>1. tree.writer = {FreshWriter}
      BY <1>1, <1>4, <2>2 DEF Facts, WriterFacts, Holds
    <3> QED
      BY <1>1, <1>4, <2>1, <2>2, <3>1, SameTree
         DEF Facts, PackageFacts, SnapshotFacts, SourceFacts, WriterFacts, InputFacts,
             BuildFacts, DividendChecks
  <2> QED BY <1>1, <2>1, <2>2, GoesOn
<1>5. CASE End /\ Calm /\ tree' = [tree EXCEPT !.writer = {read.writer}]
  <2>1. TreeOK(tree')
    BY <1>1, <1>5, OneFileWritten DEF PublicationTypeOK, Derived
  <2> QED BY <1>1, <1>5, <2>1, Ends DEF Calm
<1> QED BY <1>2, <1>3, <1>4, <1>5 DEF WriterDone, Check, Passes, Publish

LEMMA RecordedInputsKeeps ==
    ASSUME IInv, RecordedInputs
    PROVE  IInv'
<1>1. PublicationTypeOK /\ task.pc = "recorded" /\ task.cmd # "idle" /\ Reproducing
  BY RunningIsNotIdle DEF IInv, RecordedInputs, At, ReproductionInv, ServiceSteps
<1>2. CASE Refuse
  BY <1>1, <1>2, RefusedEnds
<1>3. CASE /\ tree.manifest # {}
            /\ {Only(tree.manifest).inputs.snapshot} = tree.snapshot
            /\ Only(tree.manifest).inputs.profile = tree.profile
            /\ {Only(tree.manifest).inputs.writer} = tree.writer
            /\ {Only(tree.manifest).inputs.editorial} = tree.editorial
            /\ Passes("load")
  <2>1. /\ Proceeds /\ tree' = tree /\ temp' = temp /\ host' = host
        /\ task'.pc = "load" /\ task'.ret = task.ret /\ read' = read
    BY <1>1, <1>3, Reading DEF Steps, ServiceSteps, Passes
  <2>2. ASSUME Facts, Reproducing PROVE Facts'
    <3>1. Recorded
      BY <1>1, <1>3, <2>2 DEF Facts, SnapshotFacts, WriterFacts, Recorded
    <3> QED
      BY <1>1, <1>3, <2>1, <2>2, <3>1, SameTree
         DEF Facts, PackageFacts, SnapshotFacts, SourceFacts, WriterFacts, InputFacts,
             BuildFacts, DividendChecks
  <2> QED BY <1>1, <2>1, <2>2, GoesOn
<1> QED BY <1>2, <1>3 DEF RecordedInputs, Check, Passes

LEMMA CompareArtifactsKeeps ==
    ASSUME IInv, CompareArtifacts
    PROVE  IInv'
<1>1. PublicationTypeOK /\ task.pc = "compare" /\ task.cmd # "idle" /\ Reproducing
  BY RunningIsNotIdle DEF IInv, CompareArtifacts, At, ReproductionInv, ServiceSteps
<1>2. CASE Refuse
  BY <1>1, <1>2, RefusedEnds
<1>3. CASE /\ ArtifactsMatch
            /\ Passes("guide")
  <2>1. /\ Proceeds /\ tree' = tree /\ temp' = temp /\ host' = host
        /\ task'.pc = "guide" /\ task'.ret = task.ret /\ read' = read
    BY <1>1, <1>3, Reading DEF Steps, ServiceSteps, Passes
  <2>2. ASSUME Facts, Reproducing PROVE Facts'
    <3> DEFINE editorial == Only(tree.editorial)
    <3>1. /\ temp.facts = FreshFacts /\ temp.charts = Drawing(Renderer)
          /\ temp.article = FreshArticle(tree, editorial, Renderer)
          /\ Renderer = 2 =>
                temp.manifest = Manifest(FreshInputs(tree, editorial), Drawing(2), 2)
      BY <1>1, <2>2 DEF Facts, BuildFacts, Holds
    <3>2. /\ tree.facts = {FreshFacts}
          /\ tree.article = {FreshArticle(tree, editorial, Renderer)}
          /\ Only(tree.charts).content = Charts(FreshSnapshot(tree), tree.profile, Renderer)
          /\ Renderer = 1 /\ host.checker = "linux" => Only(tree.charts).encoding = "linux"
      <4>1. /\ temp.charts.content = Charts(FreshSnapshot(tree), tree.profile, Renderer)
            /\ temp.charts.encoding = host.checker
        BY <3>1 DEF Drawing, Drawn
      <4>2. Renderer = 1 /\ host.checker = "linux" => Only(tree.charts) = temp.charts
        BY <1>3, OnlyValue DEF ArtifactsMatch, ChartsMatch
      <4> QED BY <1>3, <3>1, <4>1, <4>2 DEF ArtifactsMatch, ChartsMatch
    <3>3. ASSUME Renderer = 2 PROVE PackageIsFresh
      <4> DEFINE manifest == Only(tree.manifest)
                 built == [manifest EXCEPT !.charts = temp.charts]
      <4>1. built = Manifest(FreshInputs(tree, editorial), Drawing(2), 2)
        BY <1>3, <3>1, <3>3 DEF ArtifactsMatch, ManifestMatches
      <4>2. /\ DOMAIN manifest = {"inputs", "charts", "renderer", "hand"}
            /\ manifest.inputs = built.inputs /\ manifest.renderer = built.renderer
            /\ manifest.hand = built.hand
        BY <4>1 DEF Manifest
      <4>3. /\ manifest.inputs = FreshInputs(tree, editorial) /\ manifest.renderer = 2
            /\ manifest.hand = "no"
        BY <4>1, <4>2 DEF Manifest
      <4>4. manifest.charts = Only(tree.charts)
        BY <1>3, <3>3, OnlyValue DEF ArtifactsMatch, ManifestMatches
      <4>5. /\ manifest.inputs.snapshot = FreshSnapshot(tree)
            /\ manifest.inputs.profile = tree.profile
            /\ manifest.inputs.writer = WriterInput(FreshSnapshot(tree), tree.profile)
            /\ manifest.inputs.editorial = editorial /\ manifest.inputs.facts = FreshFacts
        BY <4>3 DEF FreshInputs, Inputs, FreshFacts
      <4>6. Only(tree.facts) = FreshFacts
        BY <3>2, OnlyValue
      <4> HIDE DEF editorial, manifest
      <4>7. ManifestIsFresh(manifest, editorial)
        BY <4>3, <4>4, <4>5, <4>6 DEF ManifestIsFresh
      <4> QED BY <3>2, <3>3, <4>7 DEF PackageIsFresh, editorial, manifest
    <3>4. ASSUME Renderer = 1 PROVE PackageIsFresh
      <4>1. Recorded /\ tree.editorial # {}
        BY <1>1, <2>2, <3>4 DEF Facts, InputFacts
      <4>2. Only(tree.manifest).inputs.editorial = editorial
        BY <4>1, OnlyValue DEF Recorded
      <4>3. ManifestIsFresh(Only(tree.manifest), editorial)
        BY <3>4, <4>1, <4>2 DEF ManifestIsFresh, Recorded, FreshWriter
      <4> QED BY <3>2, <3>4, <4>3 DEF PackageIsFresh
    <3> Renderer = 1 \/ Renderer = 2
      BY DEF Renderer
    <3>5. PackageIsFresh
      BY <3>3, <3>4
    <3> QED
      BY <1>1, <1>3, <2>1, <2>2, <3>5, SameTree
         DEF Facts, PackageFacts, SnapshotFacts, SourceFacts, WriterFacts, InputFacts,
             BuildFacts, DividendChecks
  <2> QED BY <1>1, <2>1, <2>2, GoesOn
<1> QED BY <1>2, <1>3 DEF CompareArtifacts, Check, Passes

LEMMA CompareGuideKeeps ==
    ASSUME IInv, CompareGuide
    PROVE  IInv'
<1>1. PublicationTypeOK /\ task.pc = "guide" /\ task.cmd # "idle" /\ Reproducing
  BY RunningIsNotIdle DEF IInv, CompareGuide, At, ReproductionInv, ServiceSteps
<1>2. CASE Refuse
  BY <1>1, <1>2, RefusedEnds
<1>3. CASE /\ tree.guide = tree.article
            /\ Passes("report")
  <2>1. /\ Proceeds /\ tree' = tree /\ temp' = temp /\ host' = host
        /\ task'.pc = "report" /\ task'.ret = task.ret /\ read' = read
    BY <1>1, <1>3, Reading DEF Steps, ServiceSteps, Passes
  <2>2. ASSUME Facts, Reproducing PROVE Facts'
    <3>1. Only(tree.writer) = FreshWriter /\ ~ Dividend /\ tree.writer = {FreshWriter}
      BY <1>1, <2>2, OnlyValue DEF Facts, WriterFacts
    <3>2. UsableSources(tree) /\ OfThePackage
      BY <1>1, <2>2
         DEF Facts, SourceFacts, CapUsable, MarketUsable, TablesUsable, UsableSources
    <3>3. AllIsFresh
      BY <1>1, <1>3, <2>2, <3>1, <3>2
         DEF Facts, PackageFacts, SnapshotFacts, InputFacts, AllIsFresh, ArticleIsFresh, PackageIsFresh,
             FreshWriter, FreshFacts
    <3> QED
      BY <1>1, <1>3, <2>1, <2>2, <3>1, <3>2, <3>3, SameTree
         DEF Facts, PackageFacts, SnapshotFacts, SourceFacts, WriterFacts, InputFacts,
             BuildFacts, DividendChecks
  <2> QED BY <1>1, <2>1, <2>2, GoesOn
<1> QED BY <1>2, <1>3 DEF CompareGuide, Check, Passes

LEMMA ServiceReleasesKeeps ==
    ASSUME IInv, ServiceReleases
    PROVE  IInv'
<1>1. PublicationTypeOK /\ task.pc = "releases" /\ task.cmd # "idle" /\ Reproducing
  BY RunningIsNotIdle DEF IInv, ServiceReleases, At, ReproductionInv, ServiceSteps
<1>2. CASE Refuse
  BY <1>1, <1>2, RefusedEnds
<1>3. CASE /\ \A id \in {read.package.cap, read.package.market} :
               id \in DOMAIN tree.releases /\ tree.releases[id] = "exact"
            /\ Passes("digest")
  <2>1. /\ Proceeds /\ tree' = tree /\ temp' = temp /\ host' = host
        /\ task'.pc = "digest" /\ task'.ret = task.ret /\ read' = read
    BY <1>1, <1>3, Reading DEF Steps, ServiceSteps, Passes
  <2>2. ASSUME Facts, Reproducing PROVE Facts'
    <3>1. read.package = tree.package
      BY <1>1, <2>2 DEF Facts, PackageFacts, Holds
    <3> QED
      BY <1>1, <1>3, <2>1, <2>2, <3>1, SameTree
         DEF Facts, PackageFacts, SnapshotFacts, SourceFacts, WriterFacts, InputFacts,
             BuildFacts, DividendChecks
  <2> QED BY <1>1, <2>1, <2>2, GoesOn
<1> QED BY <1>2, <1>3 DEF ServiceReleases, Check, Passes

LEMMA ServiceAdapterKeeps ==
    ASSUME IInv, ServiceAdapter
    PROVE  IInv'
<1>1. PublicationTypeOK /\ task.pc = "adapter" /\ task.cmd # "idle" /\ Reproducing
  BY RunningIsNotIdle DEF IInv, ServiceAdapter, At, ReproductionInv, ServiceSteps
<1>2. CASE Refuse
  BY <1>1, <1>2, RefusedEnds
<1>3. CASE /\ Dividend
            /\ Passes("refs")
  <2>1. /\ Proceeds /\ tree' = tree /\ temp' = temp /\ host' = host
        /\ task'.pc = "refs" /\ task'.ret = task.ret /\ read' = read
    BY <1>1, <1>3, Reading DEF Steps, ServiceSteps, Passes
  <2>2. ASSUME Facts, Reproducing PROVE Facts'
    <3> QED
      BY <1>1, <1>3, <2>1, <2>2, SameTree
         DEF Facts, PackageFacts, SnapshotFacts, SourceFacts, WriterFacts, InputFacts,
             BuildFacts, DividendChecks
  <2> QED BY <1>1, <2>1, <2>2, GoesOn
<1>4. CASE /\ ~ Dividend
            /\ Passes("input")
  <2>1. /\ Proceeds /\ tree' = tree /\ temp' = temp /\ host' = host
        /\ task'.pc = "input" /\ task'.ret = task.ret /\ read' = read
    BY <1>1, <1>4, Reading DEF Steps, ServiceSteps, Passes
  <2>2. ASSUME Facts, Reproducing PROVE Facts'
    <3> QED
      BY <1>1, <1>4, <2>1, <2>2, SameTree
         DEF Facts, PackageFacts, SnapshotFacts, SourceFacts, WriterFacts, InputFacts,
             BuildFacts, DividendChecks
  <2> QED BY <1>1, <2>1, <2>2, GoesOn
<1> QED BY <1>2, <1>3, <1>4 DEF ServiceAdapter, Check, Passes

LEMMA DividendRefsKeeps ==
    ASSUME IInv, DividendRefs
    PROVE  IInv'
<1>1. PublicationTypeOK /\ task.pc = "refs" /\ task.cmd # "idle" /\ Reproducing
  BY RunningIsNotIdle DEF IInv, DividendRefs, At, ReproductionInv, ServiceSteps
<1>2. CASE Refuse
  BY <1>1, <1>2, RefusedEnds
<1>3. CASE Passes("input")
  <2>1. /\ Proceeds /\ tree' = tree /\ temp' = temp /\ host' = host
        /\ task'.pc = "input" /\ task'.ret = task.ret /\ read' = read
    BY <1>1, <1>3, Reading DEF Steps, ServiceSteps, Passes
  <2>2. ASSUME Facts, Reproducing PROVE Facts'
    <3> QED
      BY <1>1, <1>3, <2>1, <2>2, SameTree
         DEF Facts, PackageFacts, SnapshotFacts, SourceFacts, WriterFacts, InputFacts,
             BuildFacts, DividendChecks
  <2> QED BY <1>1, <2>1, <2>2, GoesOn
<1> QED BY <1>2, <1>3 DEF DividendRefs, Check, Passes

LEMMA DividendChartsKeeps ==
    ASSUME IInv, DividendCharts
    PROVE  IInv'
<1>1. PublicationTypeOK /\ task.pc = "charts" /\ task.cmd # "idle" /\ Reproducing
  BY RunningIsNotIdle DEF IInv, DividendCharts, At, ReproductionInv, ServiceSteps
<1>2. CASE Refuse
  BY <1>1, <1>2, RefusedEnds
<1>3. CASE /\ Only(tree.charts).content = Charts(Only(tree.snapshot), "-", 0)
            /\ (host.checker = "linux" => tree.charts = {Drawn(Charts(Only(tree.snapshot), "-", 0), "linux")})
            /\ Passes("metadata")
  <2>1. /\ Proceeds /\ tree' = tree /\ temp' = temp /\ host' = host
        /\ task'.pc = "metadata" /\ task'.ret = task.ret /\ read' = read
    BY <1>1, <1>3, Reading DEF Steps, ServiceSteps, Passes
  <2>2. ASSUME Facts, Reproducing PROVE Facts'
    <3>1. /\ Only(tree.charts).content = Charts(FreshSnapshot(tree), "-", 0)
          /\ host.checker = "linux" => Only(tree.charts).encoding = "linux"
      <4>1. Only(tree.snapshot) = FreshSnapshot(tree)
        BY <1>1, <2>2, OnlyValue DEF Facts, SnapshotFacts
      <4>2. Drawn(Charts(FreshSnapshot(tree), "-", 0), "linux").encoding = "linux"
        BY DEF Drawn
      <4> QED BY <1>3, <4>1, <4>2, OnlyValue
    <3> QED
      BY <1>1, <1>3, <2>1, <2>2, <3>1, SameTree
         DEF Facts, PackageFacts, SnapshotFacts, SourceFacts, WriterFacts, InputFacts,
             BuildFacts, DividendChecks
  <2> QED BY <1>1, <2>1, <2>2, GoesOn
<1> QED BY <1>2, <1>3 DEF DividendCharts, Check, Passes

LEMMA DividendMetadataKeeps ==
    ASSUME IInv, DividendMetadata
    PROVE  IInv'
<1>1. PublicationTypeOK /\ task.pc = "metadata" /\ task.cmd # "idle" /\ Reproducing
  BY RunningIsNotIdle DEF IInv, DividendMetadata, At, ReproductionInv, ServiceSteps
<1>2. CASE Refuse
  BY <1>1, <1>2, RefusedEnds
<1>3. CASE Passes("dividend_facts")
  <2>1. /\ Proceeds /\ tree' = tree /\ temp' = temp /\ host' = host
        /\ task'.pc = "dividend_facts" /\ task'.ret = task.ret /\ read' = read
    BY <1>1, <1>3, Reading DEF Steps, ServiceSteps, Passes
  <2>2. ASSUME Facts, Reproducing PROVE Facts'
    <3> QED
      BY <1>1, <1>3, <2>1, <2>2, SameTree
         DEF Facts, PackageFacts, SnapshotFacts, SourceFacts, WriterFacts, InputFacts,
             BuildFacts, DividendChecks
  <2> QED BY <1>1, <2>1, <2>2, GoesOn
<1> QED BY <1>2, <1>3 DEF DividendMetadata, Check, Passes

LEMMA DividendArticleKeeps ==
    ASSUME IInv, DividendArticle
    PROVE  IInv'
<1>1. PublicationTypeOK /\ task.pc = "statements" /\ task.cmd # "idle" /\ Reproducing
  BY RunningIsNotIdle DEF IInv, DividendArticle, At, ReproductionInv, ServiceSteps
<1>2. CASE Refuse
  BY <1>1, <1>2, RefusedEnds
<1>3. CASE /\ read.guide # {} /\ AdviceHasWords(read.facts)
            /\ Only(read.guide).said = DividendStatements(read.snapshot, read.facts)
            /\ Passes("report")
  <2>1. /\ Proceeds /\ tree' = tree /\ temp' = temp /\ host' = host
        /\ task'.pc = "report" /\ task'.ret = task.ret /\ read' = read
    BY <1>1, <1>3, Reading DEF Steps, ServiceSteps, Passes
  <2>2. ASSUME Facts, Reproducing PROVE Facts'
    <3>1. UsableSources(tree) /\ OfThePackage
      BY <1>1, <2>2
         DEF Facts, SourceFacts, CapUsable, MarketUsable, TablesUsable, UsableSources
    <3>2. /\ read.snapshot = FreshSnapshot(tree) /\ read.facts = FreshDividendFacts
          /\ read.guide = tree.guide
      BY <1>1, <2>2 DEF Facts, DividendChecks, Holds
    <3>3. DividendIsFresh
      BY <1>1, <1>3, <2>2, <3>2
         DEF Facts, SnapshotFacts, DividendChecks, DividendIsFresh, FreshDividendFacts
    <3>4. AllIsFresh
      BY <1>1, <2>2, <3>1, <3>3 DEF Facts, PackageFacts, DividendChecks, AllIsFresh
    <3> QED
      BY <1>1, <2>1, <2>2, <3>4, SameTree
         DEF Facts, PackageFacts, SnapshotFacts, SourceFacts, WriterFacts, InputFacts,
             BuildFacts, DividendChecks
  <2> QED BY <1>1, <2>1, <2>2, GoesOn
<1> QED BY <1>2, <1>3 DEF DividendArticle, Check, Passes

LEMMA WithOne ==
    ASSUME NEW f, NEW v, NEW old
    PROVE  Holds(With([g \in {f} |-> v], old), f, v)
BY DEF With, Holds

LEMMA ManifestCompleted ==
    ASSUME NEW inputs, NEW old, NEW new
    PROVE  [Manifest(inputs, old, 1) EXCEPT !.renderer = 2, !.charts = new]
               = Manifest(inputs, new, 2)
<1>1. [Manifest(inputs, old, 1) EXCEPT !.renderer = 2] = Manifest(inputs, old, 2)
  BY DEF Manifest
<1>2. [Manifest(inputs, old, 2) EXCEPT !.charts = new] = Manifest(inputs, new, 2)
  BY DEF Manifest
<1> QED BY <1>1, <1>2

LEMMA Producing ==
    ASSUME IInv, task.cmd # "idle", NEW f \in Derived, NEW v, NEW next \in Steps,
           next \in ServiceSteps => Reproducing, Produce(f, v, next)
    PROVE  /\ Proceeds /\ task'.pc = next /\ task'.ret = task.ret
           /\ host' = host /\ read' = read
           /\ Reproducing => tree' = tree /\ temp' = With([g \in {f} |-> v], temp)
<1>1. TreeOK(tree')
  BY OneFileWritten DEF Produce, Write, IInv, PublicationTypeOK
<1>2. temp' = temp \/ Reproducing
  BY DEF Produce, Write
<1> QED BY <1>1, <1>2, GotoProceeds DEF Produce, Write, IInv, Calm

LEMMA WriteFactsKeeps ==
    ASSUME IInv, WriteFacts
    PROVE  IInv'
<1>1. PublicationTypeOK /\ task.pc = "facts" /\ task.cmd # "idle"
  BY RunningIsNotIdle DEF IInv, WriteFacts, At
<1> DEFINE made == ArticleFacts(read.snapshot, read.profile)
<1>2. CASE Produce("facts", made, "draw")
  <2> HIDE DEF made
  <2>1. /\ Proceeds /\ task'.pc = "draw" /\ task'.ret = task.ret
        /\ host' = host /\ read' = read
        /\ Reproducing => tree' = tree /\ temp' = With([g \in {"facts"} |-> made], temp)
    BY <1>1, <1>2, Producing DEF Steps, ServiceSteps, Derived
  <2>2. ASSUME Facts, Reproducing PROVE tree' = tree /\ Facts'
    <3> DEFINE editorial == Only(tree.editorial)
    <3>1. made = FreshFacts
      BY <1>1, <2>2 DEF Facts, InputFacts, Holds, FreshFacts, made
    <3>2. Holds(temp', "facts", made)
      BY <2>1, <2>2, WithOne
    <3> HIDE DEF editorial
    <3> QED
      BY <1>1, <1>2, <2>1, <2>2, <3>1, <3>2, SameTree
         DEF Facts, PackageFacts, SnapshotFacts, SourceFacts, WriterFacts, InputFacts,
             BuildFacts, DividendChecks, editorial
  <2> QED BY <1>1, <2>1, <2>2, GoesOn
<1> QED BY <1>2 DEF WriteFacts

LEMMA WriteChartsKeeps ==
    ASSUME IInv, WriteCharts
    PROVE  IInv'
<1>1. PublicationTypeOK /\ task.pc = "draw" /\ task.cmd # "idle"
  BY RunningIsNotIdle DEF IInv, WriteCharts, At
<1> DEFINE made == Drawn(Charts(read.snapshot, read.profile, 1), Platform)
<1>2. CASE Produce("charts", made, "text")
  <2> HIDE DEF made
  <2>1. /\ Proceeds /\ task'.pc = "text" /\ task'.ret = task.ret
        /\ host' = host /\ read' = read
        /\ Reproducing => tree' = tree /\ temp' = With([g \in {"charts"} |-> made], temp)
    BY <1>1, <1>2, Producing DEF Steps, ServiceSteps, Derived
  <2>2. ASSUME Facts, Reproducing PROVE tree' = tree /\ Facts'
    <3> DEFINE editorial == Only(tree.editorial)
    <3>1. made = Drawing(1)
      BY <1>1, <2>2 DEF Facts, InputFacts, Holds, Drawing, Platform, made
    <3>2. Holds(temp', "charts", made)
      BY <2>1, <2>2, WithOne
    <3> HIDE DEF editorial
    <3>3. \A v : Holds(temp, "facts", v) => Holds(temp', "facts", v)
      BY <2>1, <2>2, WithOld
    <3> QED
      BY <1>1, <1>2, <2>1, <2>2, <3>1, <3>2, <3>3, SameTree
         DEF Facts, PackageFacts, SnapshotFacts, SourceFacts, WriterFacts, InputFacts,
             BuildFacts, DividendChecks, editorial
  <2> QED BY <1>1, <2>1, <2>2, GoesOn
<1> QED BY <1>2 DEF WriteCharts

LEMMA WriteArticleKeeps ==
    ASSUME IInv, WriteArticle
    PROVE  IInv'
<1>1. PublicationTypeOK /\ task.pc = "text" /\ task.cmd # "idle"
  BY RunningIsNotIdle DEF IInv, WriteArticle, At
<1> DEFINE made == Article(ArticleFacts(read.snapshot, read.profile), read.editorial, read.writer, 1)
<1>2. CASE Produce("article", made, "manifest")
  <2> HIDE DEF made
  <2>1. /\ Proceeds /\ task'.pc = "manifest" /\ task'.ret = task.ret
        /\ host' = host /\ read' = read
        /\ Reproducing => tree' = tree /\ temp' = With([g \in {"article"} |-> made], temp)
    BY <1>1, <1>2, Producing DEF Steps, ServiceSteps, Derived
  <2>2. ASSUME Facts, Reproducing PROVE tree' = tree /\ Facts'
    <3> DEFINE editorial == Only(tree.editorial)
    <3>1. made = FreshArticle(tree, editorial, 1)
      BY <1>1, <2>2 DEF Facts, InputFacts, Holds, FreshArticle, FreshWriter, made
    <3>2. Holds(temp', "article", made)
      BY <2>1, <2>2, WithOne
    <3> HIDE DEF editorial
    <3>3. /\ \A v : Holds(temp, "facts", v) => Holds(temp', "facts", v)
          /\ \A v : Holds(temp, "charts", v) => Holds(temp', "charts", v)
      BY <2>1, <2>2, WithOld
    <3> QED
      BY <1>1, <1>2, <2>1, <2>2, <3>1, <3>2, <3>3, SameTree
         DEF Facts, PackageFacts, SnapshotFacts, SourceFacts, WriterFacts, InputFacts,
             BuildFacts, DividendChecks, editorial
  <2> QED BY <1>1, <2>1, <2>2, GoesOn
<1> QED BY <1>2 DEF WriteArticle

LEMMA WriteManifestKeeps ==
    ASSUME IInv, WriteManifest
    PROVE  IInv'
<1>1. PublicationTypeOK /\ task.pc = "manifest" /\ task.cmd # "idle"
  BY RunningIsNotIdle DEF IInv, WriteManifest, At
<1> DEFINE made == Manifest(CurrentInputs, Out("charts"), 1)
<1>2. CASE Reproducing /\ Renderer = 1 /\ Produce("manifest", made, "compare")
  <2> HIDE DEF made
  <2>1. /\ Proceeds /\ task'.pc = "compare" /\ task'.ret = task.ret
        /\ host' = host /\ read' = read
        /\ Reproducing => tree' = tree /\ temp' = With([g \in {"manifest"} |-> made], temp)
    BY <1>1, <1>2, Producing DEF Steps, ServiceSteps, Derived
  <2>2. ASSUME Facts, Reproducing PROVE tree' = tree /\ Facts'
    <3> DEFINE editorial == Only(tree.editorial)
    <3>1. made = Manifest(FreshInputs(tree, editorial), Drawing(1), 1)
      <4>1. Only(tree.snapshot) = FreshSnapshot(tree) /\ Only(tree.writer) = FreshWriter
        BY <1>1, <2>2, OnlyValue DEF Facts, SnapshotFacts, WriterFacts
      <4>2. Out("facts") = FreshFacts /\ Out("charts") = Drawing(1)
        BY <1>1, <2>2 DEF Facts, BuildFacts, Holds, Out
      <4>3. CurrentInputs = FreshInputs(tree, editorial)
        BY <4>1, <4>2 DEF CurrentInputs, FreshInputs, FreshWriter, FreshFacts
      <4> QED BY <4>2, <4>3 DEF made
    <3>2. Holds(temp', "manifest", made)
      BY <2>1, <2>2, WithOne
    <3> HIDE DEF editorial
    <3>3. /\ \A v : Holds(temp, "facts", v) => Holds(temp', "facts", v)
          /\ \A v : Holds(temp, "charts", v) => Holds(temp', "charts", v)
          /\ \A v : Holds(temp, "article", v) => Holds(temp', "article", v)
      BY <2>1, <2>2, WithOld
    <3> QED
      BY <1>1, <1>2, <2>1, <2>2, <3>1, <3>2, <3>3, SameTree
         DEF Facts, PackageFacts, SnapshotFacts, SourceFacts, WriterFacts, InputFacts,
             BuildFacts, DividendChecks, editorial
  <2> QED BY <1>1, <2>1, <2>2, GoesOn
<1>3. CASE ~ (Reproducing /\ Renderer = 1) /\ Produce("manifest", made, "redraw")
  <2> Renderer \in {1, 2}
    BY DEF Renderer
  <2> HIDE DEF made
  <2>1. /\ Proceeds /\ task'.pc = "redraw" /\ task'.ret = task.ret
        /\ host' = host /\ read' = read
        /\ Reproducing => tree' = tree /\ temp' = With([g \in {"manifest"} |-> made], temp)
    BY <1>1, <1>3, Producing DEF Steps, ServiceSteps, Derived
  <2>2. ASSUME Facts, Reproducing PROVE tree' = tree /\ Facts'
    <3> DEFINE editorial == Only(tree.editorial)
    <3>1. made = Manifest(FreshInputs(tree, editorial), Drawing(1), 1)
      <4>1. Only(tree.snapshot) = FreshSnapshot(tree) /\ Only(tree.writer) = FreshWriter
        BY <1>1, <2>2, OnlyValue DEF Facts, SnapshotFacts, WriterFacts
      <4>2. Out("facts") = FreshFacts /\ Out("charts") = Drawing(1)
        BY <1>1, <2>2 DEF Facts, BuildFacts, Holds, Out
      <4>3. CurrentInputs = FreshInputs(tree, editorial)
        BY <4>1, <4>2 DEF CurrentInputs, FreshInputs, FreshWriter, FreshFacts
      <4> QED BY <4>2, <4>3 DEF made
    <3>2. Holds(temp', "manifest", made)
      BY <2>1, <2>2, WithOne
    <3> HIDE DEF editorial
    <3>3. /\ \A v : Holds(temp, "facts", v) => Holds(temp', "facts", v)
          /\ \A v : Holds(temp, "charts", v) => Holds(temp', "charts", v)
          /\ \A v : Holds(temp, "article", v) => Holds(temp', "article", v)
      BY <2>1, <2>2, WithOld
    <3> QED
      BY <1>1, <1>3, <2>1, <2>2, <3>1, <3>2, <3>3, SameTree
         DEF Facts, PackageFacts, SnapshotFacts, SourceFacts, WriterFacts, InputFacts,
             BuildFacts, DividendChecks, editorial
  <2> QED BY <1>1, <2>1, <2>2, GoesOn
<1> QED BY <1>2, <1>3 DEF WriteManifest

LEMMA RedrawKeeps ==
    ASSUME IInv, Redraw
    PROVE  IInv'
<1>1. PublicationTypeOK /\ task.pc = "redraw" /\ task.cmd # "idle"
  BY RunningIsNotIdle DEF IInv, Redraw, At
<1> DEFINE made == Drawn(Charts(Only(tree.snapshot), tree.profile, 2), Platform)
<1>2. CASE Produce("charts", made, "reword")
  <2> HIDE DEF made
  <2>1. /\ Proceeds /\ task'.pc = "reword" /\ task'.ret = task.ret
        /\ host' = host /\ read' = read
        /\ Reproducing => tree' = tree /\ temp' = With([g \in {"charts"} |-> made], temp)
    BY <1>1, <1>2, Producing DEF Steps, ServiceSteps, Derived
  <2>2. ASSUME Facts, Reproducing PROVE tree' = tree /\ Facts'
    <3> DEFINE editorial == Only(tree.editorial)
    <3>1. made = Drawing(2)
      <4>1. Only(tree.snapshot) = FreshSnapshot(tree)
        BY <1>1, <2>2, OnlyValue DEF Facts, SnapshotFacts
      <4> QED BY <2>2, <4>1 DEF Drawing, Platform, made
    <3>2. Holds(temp', "charts", made)
      BY <2>1, <2>2, WithOne
    <3> HIDE DEF editorial
    <3>3. /\ \A v : Holds(temp, "facts", v) => Holds(temp', "facts", v)
          /\ \A v : Holds(temp, "article", v) => Holds(temp', "article", v)
          /\ \A v : Holds(temp, "manifest", v) => Holds(temp', "manifest", v)
      BY <2>1, <2>2, WithOld
    <3> QED
      BY <1>1, <1>2, <2>1, <2>2, <3>1, <3>2, <3>3, SameTree
         DEF Facts, PackageFacts, SnapshotFacts, SourceFacts, WriterFacts, InputFacts,
             BuildFacts, DividendChecks, editorial
  <2> QED BY <1>1, <2>1, <2>2, GoesOn
<1> QED BY <1>2 DEF Redraw

LEMMA RewordKeeps ==
    ASSUME IInv, Reword
    PROVE  IInv'
<1>1. PublicationTypeOK /\ task.pc = "reword" /\ task.cmd # "idle"
  BY RunningIsNotIdle DEF IInv, Reword, At
<1> DEFINE made == [Out("article") EXCEPT !.renderer = 2]
<1>2. CASE Produce("article", made, "remanifest")
  <2> HIDE DEF made
  <2>1. /\ Proceeds /\ task'.pc = "remanifest" /\ task'.ret = task.ret
        /\ host' = host /\ read' = read
        /\ Reproducing => tree' = tree /\ temp' = With([g \in {"article"} |-> made], temp)
    BY <1>1, <1>2, Producing DEF Steps, ServiceSteps, Derived
  <2>2. ASSUME Facts, Reproducing PROVE tree' = tree /\ Facts'
    <3> DEFINE editorial == Only(tree.editorial)
    <3>1. made = FreshArticle(tree, editorial, 2)
      <4>1. Out("article") = FreshArticle(tree, editorial, 1)
        BY <1>1, <2>2 DEF Facts, BuildFacts, Holds, Out
      <4> QED BY <4>1 DEF FreshArticle, Article, made
    <3>2. Holds(temp', "article", made)
      BY <2>1, <2>2, WithOne
    <3> HIDE DEF editorial
    <3>3. /\ \A v : Holds(temp, "facts", v) => Holds(temp', "facts", v)
          /\ \A v : Holds(temp, "charts", v) => Holds(temp', "charts", v)
          /\ \A v : Holds(temp, "manifest", v) => Holds(temp', "manifest", v)
      BY <2>1, <2>2, WithOld
    <3> QED
      BY <1>1, <1>2, <2>1, <2>2, <3>1, <3>2, <3>3, SameTree
         DEF Facts, PackageFacts, SnapshotFacts, SourceFacts, WriterFacts, InputFacts,
             BuildFacts, DividendChecks, editorial
  <2> QED BY <1>1, <2>1, <2>2, GoesOn
<1> QED BY <1>2 DEF Reword

LEMMA RemanifestKeeps ==
    ASSUME IInv, Remanifest
    PROVE  IInv'
<1>1. PublicationTypeOK /\ task.pc = "remanifest" /\ task.cmd # "idle"
  BY RunningIsNotIdle DEF IInv, Remanifest, At
<1> DEFINE made == [Out("manifest") EXCEPT !.renderer = 2, !.charts = Out("charts")]
<1>2. CASE Reproducing /\ Produce("manifest", made, "compare")
  <2> HIDE DEF made
  <2>1. /\ Proceeds /\ task'.pc = "compare" /\ task'.ret = task.ret
        /\ host' = host /\ read' = read
        /\ Reproducing => tree' = tree /\ temp' = With([g \in {"manifest"} |-> made], temp)
    BY <1>1, <1>2, Producing DEF Steps, ServiceSteps, Derived
  <2>2. ASSUME Facts, Reproducing PROVE tree' = tree /\ Facts'
    <3> DEFINE editorial == Only(tree.editorial)
    <3>1. made = Manifest(FreshInputs(tree, editorial), Drawing(2), 2)
      <4>1. /\ Out("manifest") = Manifest(FreshInputs(tree, editorial), Drawing(1), 1)
            /\ Out("charts") = Drawing(2)
        BY <1>1, <2>2 DEF Facts, BuildFacts, Holds, Out
      <4> DEFINE inputs == FreshInputs(tree, editorial)
      <4>2. made = [Manifest(inputs, Drawing(1), 1) EXCEPT !.renderer = 2,
                                                           !.charts = Drawing(2)]
        BY <4>1 DEF made
      <4> HIDE DEF inputs
      <4>3. made = Manifest(inputs, Drawing(2), 2)
        BY <4>2, ManifestCompleted
      <4> QED BY <4>3 DEF inputs
    <3>2. Holds(temp', "manifest", made)
      BY <2>1, <2>2, WithOne
    <3> HIDE DEF editorial
    <3>3. /\ \A v : Holds(temp, "facts", v) => Holds(temp', "facts", v)
          /\ \A v : Holds(temp, "charts", v) => Holds(temp', "charts", v)
          /\ \A v : Holds(temp, "article", v) => Holds(temp', "article", v)
      BY <2>1, <2>2, WithOld
    <3> QED
      BY <1>1, <1>2, <2>1, <2>2, <3>1, <3>2, <3>3, SameTree
         DEF Facts, PackageFacts, SnapshotFacts, SourceFacts, WriterFacts, InputFacts,
             BuildFacts, DividendChecks, editorial
  <2> QED BY <1>1, <2>1, <2>2, GoesOn
<1>3. CASE End /\ Calm /\ tree' = [tree EXCEPT !.manifest = {made}]
  <2> HIDE DEF made
  <2>1. TreeOK(tree')
    BY <1>1, <1>3, OneFileWritten DEF PublicationTypeOK, Derived
  <2> QED BY <1>1, <1>3, <2>1, Ends DEF Calm
<1> QED BY <1>2, <1>3 DEF Remanifest, Publish

(* The writer input is prepared once to be compared and once for the article. *)
LEMMA WriterReleasesKeeps ==
    ASSUME IInv, WriterReleases
    PROVE  IInv'
<1>1. PublicationTypeOK /\ task.pc = "sources" /\ task.cmd # "idle"
  BY RunningIsNotIdle DEF IInv, WriterReleases, At
<1>2. CASE Refuse
  BY <1>1, <1>2, RefusedEnds
<1> DEFINE input == WriterInput(read.wsnapshot, read.wprofile)
<1>3. CASE Reads([writer |-> input], task.ret)
  <2>1. task.ret \in {"prepared", "editorial"}
    BY <1>1 DEF PublicationTypeOK, Tasks
  <2>2. /\ Proceeds /\ tree' = tree /\ temp' = temp /\ host' = host
        /\ task'.pc = task.ret /\ task'.ret = task.ret
    <3>1. task.ret \in Steps /\ task.ret \notin ServiceSteps
      BY <2>1 DEF Steps, ServiceSteps
    <3> QED BY <1>1, <1>3, <3>1, Reading
  <2>3. ASSUME Facts, Reproducing PROVE Facts'
    <3>1. input = FreshWriter
      BY <1>1, <2>3 DEF Facts, WriterFacts, Holds, FreshWriter
    <3> HIDE DEF input
    <3>2. Holds(read', "writer", input)
      BY <1>3, WithNew DEF Reads
    <3>3. \A v : \A f \in {"package", "snapshot", "profile"} :
             Holds(read, f, v) => Holds(read', f, v)
      BY <1>3, WithOld DEF Reads
    <3> QED
      BY <1>1, <2>1, <2>2, <2>3, <3>1, <3>2, <3>3, SameTree
         DEF Facts, PackageFacts, SnapshotFacts, SourceFacts, WriterFacts, InputFacts,
             BuildFacts, DividendChecks
  <2> QED BY <1>1, <2>2, <2>3, GoesOn
<1> QED BY <1>2, <1>3 DEF WriterReleases, Load, Reads

LEMMA ArticleLoadKeeps ==
    ASSUME IInv, ArticleLoad
    PROVE  IInv'
<1>1. PublicationTypeOK /\ task.pc = "load" /\ task.cmd # "idle"
  BY RunningIsNotIdle DEF IInv, ArticleLoad, At
<1>2. CASE Refuse
  BY <1>1, <1>2, RefusedEnds
<1> DEFINE loaded == [snapshot |-> Only(tree.snapshot), profile |-> tree.profile]
<1>3. CASE /\ read' = With(loaded, read)
           /\ task' = [task EXCEPT !.pc = "writer", !.ret = "editorial"]
           /\ tree' = tree /\ temp' = temp /\ Calm
  <2>1. /\ task' \in Tasks /\ task'.cmd = task.cmd /\ task'.stage = task.stage
        /\ task'.pc = "writer" /\ task'.ret = "editorial"
    BY <1>1, <1>3 DEF PublicationTypeOK, Tasks, Steps
  <2>2. Proceeds /\ host' = host
    BY <1>1, <1>3, <2>1 DEF Proceeds, PublicationTypeOK, Calm, ServiceSteps
  <2>3. ASSUME Facts, Reproducing PROVE Facts'
    <3>1. Only(tree.snapshot) = FreshSnapshot(tree)
      BY <1>1, <2>3, OnlyValue DEF Facts, SnapshotFacts
    <3>2. Holds(read', "snapshot", Only(tree.snapshot)) /\ Holds(read', "profile", tree.profile)
      BY <1>3, WithNew
    <3>3. Holds(read, "package", tree.package) => Holds(read', "package", tree.package)
      BY <1>3, WithOld
    <3> QED
      BY <1>1, <1>3, <2>1, <2>2, <2>3, <3>1, <3>2, <3>3, SameTree
         DEF Facts, PackageFacts, SnapshotFacts, SourceFacts, WriterFacts, InputFacts,
             BuildFacts, DividendChecks
  <2> QED BY <1>1, <1>3, <2>2, <2>3, GoesOn
<1> QED BY <1>2, <1>3 DEF ArticleLoad

LEMMA ServiceStartKeeps ==
    ASSUME IInv, ServiceStart
    PROVE  IInv'
<1>1. PublicationTypeOK /\ task.pc = "service" /\ task.cmd # "idle" /\ Reproducing
  BY RunningIsNotIdle DEF IInv, ServiceStart, At, ReproductionInv, ServiceSteps
<1>2. CASE Refuse
  BY <1>1, <1>2, RefusedEnds
<1>3. CASE Reads([package |-> tree.package, code |-> tree.adapter], "releases")
  <2>1. /\ Proceeds /\ tree' = tree /\ temp' = temp /\ host' = host
        /\ task'.pc = "releases" /\ task'.ret = task.ret
    BY <1>1, <1>3, Reading DEF Steps, ServiceSteps
  <2>2. ASSUME Facts, Reproducing PROVE Facts'
    <3>1. Holds(read', "package", tree.package)
      BY <1>3, WithNew DEF Reads
    <3> QED
      BY <1>1, <1>3, <2>1, <2>2, <3>1, SameTree
         DEF Facts, PackageFacts, SnapshotFacts, SourceFacts, WriterFacts, InputFacts,
             BuildFacts, DividendChecks
  <2> QED BY <1>1, <2>1, <2>2, GoesOn
<1> QED BY <1>2, <1>3 DEF ServiceStart, Load, Reads

LEMMA ServiceDigestKeeps ==
    ASSUME IInv, ServiceDigest
    PROVE  IInv'
<1>1. PublicationTypeOK /\ task.pc = "digest" /\ task.cmd # "idle" /\ Reproducing
  BY RunningIsNotIdle DEF IInv, ServiceDigest, At, ReproductionInv, ServiceSteps
<1>2. CASE Refuse
  BY <1>1, <1>2, RefusedEnds
<1>3. CASE Reads([digest |-> PackageDigest(tree, read.package)], "adapter")
  <2>1. /\ Proceeds /\ tree' = tree /\ temp' = temp /\ host' = host
        /\ task'.pc = "adapter" /\ task'.ret = task.ret
    BY <1>1, <1>3, Reading DEF Steps, ServiceSteps
  <2>2. ASSUME Facts, Reproducing PROVE Facts'
    <3>1. Holds(read, "package", tree.package) => Holds(read', "package", tree.package)
      BY <1>3, WithOld DEF Reads
    <3> QED
      BY <1>1, <1>3, <2>1, <2>2, <3>1, SameTree
         DEF Facts, PackageFacts, SnapshotFacts, SourceFacts, WriterFacts, InputFacts,
             BuildFacts, DividendChecks
  <2> QED BY <1>1, <2>1, <2>2, GoesOn
<1> QED BY <1>2, <1>3 DEF ServiceDigest, Load, Reads

(* The report is made of a package that the facts say is fresh. *)
LEMMA ServiceReportKeeps ==
    ASSUME IInv, ServiceReport
    PROVE  IInv'
<1>1. /\ PublicationTypeOK /\ task.pc = "report" /\ task.cmd # "idle" /\ Reproducing
      /\ task.stage \in 1 .. LastStage
  BY RunningIsNotIdle DEF IInv, ServiceReport, At, ReproductionInv, ServiceSteps,
     PublicationTypeOK, Tasks
<1>2. /\ task' = Idle(task.stage + 1) /\ read' = <<>> /\ temp' = <<>>
      /\ tree' = tree /\ host' = host /\ incidents' = incidents /\ history' = history
  BY DEF ServiceReport, End
<1>3. PICK digest, status :
          /\ report' = {[digest |-> digest, status |-> status]}
          /\ status = "verified" => host.checker = "linux"
  BY DEF ServiceReport
<1>4. task.stage + 1 \in 1 .. LastStage + 1
  BY <1>1 DEF LastStage
<1>5. /\ task' \in Tasks /\ task'.cmd = "idle" /\ task'.pc = "-"
      /\ task'.stage = task.stage + 1
  BY <1>2, <1>4 DEF Tasks, Idle
<1>6. TreeOK(tree)' /\ AtMostOne(report)'
  BY <1>1, <1>2, <1>3 DEF PublicationTypeOK, AtMostOne
<1>7. PublicationTypeOK'
  BY <1>1, <1>2, <1>5, <1>6 DEF PublicationTypeOK, Reproducing
<1>8. ~ Reproducing' /\ task'.pc \notin ServiceSteps
  BY <1>5 DEF Reproducing, ServiceSteps
<1>9. Undisturbed' => Last /\ AllIsFresh
  BY <1>1, <1>2 DEF IInv, ReproductionInv, Undisturbed, Facts
<1>10. Vouched' => task'.cmd = "idle" /\ task'.stage > Len(Commands)'
  BY <1>1, <1>2, <1>5, <1>9 DEF Vouched, Undisturbed, Last, Commands, Dividend, LastStage
<1>11. VerifiedPackageIsFresh'
  <2>1. SUFFICES ASSUME Vouched' PROVE VerifiedPackageIsFresh'
    BY DEF VerifiedPackageIsFresh
  <2>2. AllIsFresh'
    BY <1>2, <1>9, <2>1, SameTree DEF Vouched, Undisturbed
  <2>3. Only(report').status = "verified" => host'.checker = "linux"
    <3>1. Only(report') = [digest |-> digest, status |-> status]
      BY <1>3, OnlyValue
    <3> QED BY <1>2, <1>3, <3>1
  <2> QED BY <2>2, <2>3 DEF AllIsFresh, OfThePackage, VerifiedPackageIsFresh
<1> QED BY <1>7, <1>8, <1>10, <1>11 DEF IInv, ReproductionInv

-----------------------------------------------------------------------------
(* The author, and what goes wrong. *)

LEMMA CommandsEnd ==
    /\ Len(Commands) \in 1 .. LastStage
    /\ \A i \in 1 .. Len(Commands) : Commands[i] = "reproduce" => i = Len(Commands)
BY DEF Commands, LastStage

(* A command that begins finds no report that still stands. *)
LEMMA FreeVouchesForNothing ==
    ASSUME IInv, NEW cmd, Free(cmd)
    PROVE  /\ ~ Vouched /\ Stage \in 1 .. Len(Commands) /\ task.stage \in 1 .. LastStage
           /\ read = <<>> /\ temp = <<>> /\ task.cmd = "idle" /\ ~ Reproducing
<1>1. task.cmd = "idle" /\ Stage <= Len(Commands)
  BY DEF Free
<1>2. task.stage \in 1 .. LastStage + 1 /\ read = <<>> /\ temp = <<>>
  BY <1>1 DEF IInv, PublicationTypeOK, Tasks
<1>3. task.stage <= Len(Commands) /\ Stage \in 1 .. Len(Commands)
  BY <1>1, <1>2, CommandsEnd DEF Stage, LastStage
<1>4. task.stage \in 1 .. LastStage
  BY <1>2, <1>3, CommandsEnd DEF LastStage
<1>5. ~ Vouched
  BY <1>2, <1>3, CommandsEnd DEF IInv, ReproductionInv, LastStage
<1> QED BY <1>1, <1>2, <1>3, <1>4, <1>5 DEF Reproducing

LEMMA BeginKeeps ==
    ASSUME IInv, NEW cmd \in DOMAIN FirstStep, Begin(cmd)
    PROVE  IInv'
<1>1. /\ ~ Vouched /\ Stage \in 1 .. Len(Commands) /\ read = <<>> /\ temp = <<>>
      /\ Commands[Stage] = cmd
  BY FreeVouchesForNothing DEF Begin, Free
<1>2. /\ tree' = tree /\ host' = host /\ temp' = temp /\ read' = read
      /\ incidents' = incidents
      /\ task' = [cmd |-> cmd, pc |-> FirstStep[cmd], ret |-> "prepared", stage |-> Stage]
  BY DEF Begin
<1>3. cmd \in {"snapshot", "writer", "article", "reproduce"}
  BY DEF FirstStep
<1>4. /\ FirstStep[cmd] \in Steps
      /\ FirstStep[cmd] \in ServiceSteps => cmd = "reproduce"
      /\ cmd = "reproduce" => FirstStep[cmd] = "service"
  BY <1>3 DEF FirstStep, Steps, ServiceSteps
<1>5. Stage \in 1 .. LastStage
  BY <1>1, CommandsEnd DEF LastStage
<1>6. task' \in Tasks /\ "-" \notin {task'.pc, task'.ret} /\ task'.stage = Stage
      /\ task'.cmd = cmd /\ task'.cmd # "idle"
  <2>1. Stage \in 1 .. LastStage + 1
    BY <1>5 DEF LastStage
  <2>2. FirstStep[cmd] # "-"
    BY <1>4 DEF Steps
  <2> QED BY <1>2, <1>3, <1>4, <2>1, <2>2 DEF Tasks
<1>7. CASE cmd = "reproduce"
  <2>1. report' = {} /\ history' \subseteq history
    BY <1>7 DEF Begin
  <2>2. TreeOK(tree)' /\ AtMostOne(report)'
    BY <1>2, <2>1 DEF IInv, PublicationTypeOK, AtMostOne
  <2>3. PublicationTypeOK'
    BY <1>1, <1>2, <1>5, <1>6, <2>1, <2>2 DEF IInv, PublicationTypeOK, Reproducing
  <2>4. Last'
    BY <1>1, <1>2, <1>6, <1>7, CommandsEnd DEF Last, Commands, Dividend
  <2>5. task'.pc = "service" /\ task'.ret = "prepared"
    BY <1>2, <1>4, <1>7
  <2>6. Facts'
    BY <2>5 DEF Facts, PackageFacts, SnapshotFacts, SourceFacts, WriterFacts, InputFacts,
                BuildFacts, DividendChecks
  <2> QED
    BY <1>4, <1>6, <1>7, <2>1, <2>3, <2>4, <2>6
       DEF IInv, ReproductionInv, Reproducing, Vouched, VerifiedPackageIsFresh
<1>8. CASE cmd # "reproduce"
  <2>1. history' = history /\ report' = report
    BY <1>8 DEF Begin
  <2>2. TreeOK(tree)'
    BY <1>2 DEF IInv, PublicationTypeOK
  <2>3. PublicationTypeOK'
    BY <1>1, <1>2, <1>5, <1>6, <2>1, <2>2 DEF IInv, PublicationTypeOK, Reproducing
  <2>4. ~ Vouched' /\ ~ Reproducing' /\ task'.pc \notin ServiceSteps
    BY <1>1, <1>2, <1>4, <1>6, <1>8, <2>1 DEF Vouched, Reproducing
  <2> QED BY <2>3, <2>4 DEF IInv, ReproductionInv, VerifiedPackageIsFresh
<1> QED BY <1>7, <1>8

LEMMA ByhandKeeps ==
    ASSUME IInv, NEW cmd, Free(cmd), NEW new, Byhand(new), TreeOK(new)
    PROVE  IInv'
<1>1. /\ ~ Vouched /\ task.stage \in 1 .. LastStage
      /\ read = <<>> /\ temp = <<>>
  BY FreeVouchesForNothing
<1>2. /\ tree' = new /\ task' = Idle(task.stage + 1) /\ read' = <<>> /\ temp' = <<>>
      /\ UNCHANGED <<incidents, history, report>>
  BY DEF Byhand, End, Calm
<1>3. task.stage + 1 \in 1 .. LastStage + 1
  BY <1>1 DEF LastStage
<1>4. task' \in Tasks /\ task'.cmd = "idle" /\ task'.pc = "-"
  BY <1>2, <1>3 DEF Tasks, Idle
<1>5. TreeOK(tree)'
  BY <1>2
<1>6. PublicationTypeOK'
  BY <1>2, <1>4, <1>5 DEF IInv, PublicationTypeOK, Reproducing
<1>7. ~ Vouched' /\ ~ Reproducing' /\ task'.pc \notin ServiceSteps
  BY <1>1, <1>2, <1>4 DEF Vouched, Reproducing, ServiceSteps
<1> QED BY <1>6, <1>7 DEF IInv, ReproductionInv, VerifiedPackageIsFresh

(* What is disturbed is no longer vouched for, and needs no facts. *)
LEMMA IncidentKeeps ==
    ASSUME IInv, NEW kinds, Incident(kinds), PublicationTypeOK',
           task' = task \/ (task'.cmd = "idle" /\ task'.pc = "-")
    PROVE  IInv'
<1>1. report' = report /\ history \subseteq history'
      /\ (Reproducing \/ report # {} => ~ Undisturbed')
  BY DEF Incident, Undisturbed
<1>2. ~ Vouched'
  BY <1>1 DEF Vouched, Undisturbed
<1>3. Reproducing' => Reproducing /\ task' = task
  BY DEF Reproducing
<1>4. task'.pc \in ServiceSteps => Reproducing'
  BY DEF IInv, ReproductionInv, Reproducing, ServiceSteps
<1>5. Reproducing' => report' = {}
  BY <1>1, <1>3 DEF IInv, ReproductionInv
<1> QED BY <1>1, <1>2, <1>3, <1>4, <1>5 DEF IInv, ReproductionInv, VerifiedPackageIsFresh

LEMMA IncidentType ==
    ASSUME PublicationTypeOK, NEW kinds, Incident(kinds),
           kinds \subseteq {"edited", "crashed", "skipped"}, TreeOK(tree'),
           \/ task' = task /\ read' = read /\ temp' = temp
           \/ /\ task' \in Tasks /\ task'.cmd = "idle" /\ task'.pc = "-"
              /\ read' = <<>> /\ temp' = <<>>
    PROVE  PublicationTypeOK'
<1>1. incidents' \in 0 .. MaxIncidents /\ report' = report
  BY IncidentsOK DEF Incident, PublicationTypeOK, IncidentsOK
<1>2. history' \subseteq {"refused", "rejected", "disturbed", "edited", "crashed", "skipped"}
  BY DEF Incident, PublicationTypeOK
<1>3. TreeOK(tree)'
  OBVIOUS
<1> QED BY <1>1, <1>2, <1>3 DEF PublicationTypeOK, Reproducing

LEMMA AuthorKeeps ==
    ASSUME IInv, Author
    PROVE  IInv'
<1>1. TreeOK(tree)
  BY DEF IInv, PublicationTypeOK
<1>2. CASE \E cmd \in DOMAIN FirstStep : Begin(cmd)
  BY <1>2, BeginKeeps
<1>3. CASE WriteEditorial
  <2>1. PICK v : Byhand([tree EXCEPT !.editorial = {v}]) /\ Free("edit_copy")
    BY <1>3 DEF WriteEditorial
  <2>2. TreeOK([tree EXCEPT !.editorial = {v}])
    BY <1>1 DEF TreeOK, AtMostOne, Derived
  <2> QED BY <2>1, <2>2, ByhandKeeps
<1>4. CASE PublishGuide
  <2>1. TreeOK([tree EXCEPT !.guide = tree.article])
    BY <1>1 DEF TreeOK, AtMostOne, Derived
  <2> QED BY <1>4, <2>1, ByhandKeeps DEF PublishGuide
<1>5. CASE WriteDividendGuide
  <2>1. PICK facts, charts, manifest, guide, pins :
          /\ Free("by_hand")
          /\ Byhand([[tree EXCEPT !.facts = {facts}, !.charts = {charts},
                                  !.manifest = {manifest}, !.guide = {guide}]
                        EXCEPT !.package.pins = pins])
    BY <1>5 DEF WriteDividendGuide
  <2> DEFINE drawn == [tree EXCEPT !.facts = {facts}, !.charts = {charts},
                                   !.manifest = {manifest}, !.guide = {guide}]
             new == [drawn EXCEPT !.package.pins = pins]
  <2>2. TreeOK(drawn)
    BY <1>1 DEF TreeOK, AtMostOne, Derived
  <2>3. TreeOK(new)
    <3> HIDE DEF drawn
    <3> QED BY <2>2 DEF TreeOK, Derived, Sources
  <2>4. Free("by_hand") /\ Byhand(new)
    BY <2>1
  <2> QED
    <3> HIDE DEF new
    <3> QED BY <2>3, <2>4, ByhandKeeps
<1> QED BY <1>2, <1>3, <1>4, <1>5 DEF Author

LEMMA EditedTree ==
    ASSUME TreeOK(tree), NEW f \in Sources \cup Derived, NEW v,
           tree' = [tree EXCEPT ![f] = v], f \in Sources \/ AtMostOne(v)
    PROVE  TreeOK(tree')
BY DEF TreeOK, Sources, Derived

LEMMA TroubleKeeps ==
    ASSUME IInv, Trouble
    PROVE  IInv'
<1>1. PublicationTypeOK /\ TreeOK(tree)
  BY DEF IInv, PublicationTypeOK
<1>2. CASE SkipCommand
  <2>1. Incident({"skipped"}) /\ tree' = tree /\ temp' = temp /\ read' = read
        /\ task' = Idle(Stage + 1) /\ task.cmd = "idle" /\ Stage < Len(Commands)
    BY <1>2 DEF SkipCommand
  <2>2. read' = <<>> /\ temp' = <<>> /\ task.stage \in 1 .. LastStage + 1
    BY <1>1, <2>1 DEF PublicationTypeOK, Tasks
  <2>3. Stage + 1 \in 1 .. LastStage + 1
    BY <2>1, <2>2, CommandsEnd DEF Stage, LastStage
  <2>4. task' \in Tasks /\ task'.cmd = "idle" /\ task'.pc = "-"
    BY <2>1, <2>3 DEF Tasks, Idle
  <2>5. PublicationTypeOK'
    BY <1>1, <2>1, <2>2, <2>4, IncidentType
  <2> QED BY <2>1, <2>4, <2>5, IncidentKeeps
<1>3. CASE EditSource
  <2>1. PICK f, v : f \in Sources /\ tree' = [tree EXCEPT ![f] = v]
    BY <1>3 DEF EditSource
  <2>2. TreeOK(tree')
    BY <1>1, <2>1, EditedTree
  <2>3. Incident({"edited"}) /\ temp' = temp /\ task' = task /\ read' = read
    BY <1>3 DEF EditSource
  <2>4. PublicationTypeOK'
    BY <1>1, <2>2, <2>3, IncidentType
  <2> QED BY <2>3, <2>4, IncidentKeeps
<1>4. CASE EditRelease
  <2>1. PICK id, s : tree' = [tree EXCEPT !.releases[id] = s]
    BY <1>4 DEF EditRelease
  <2>2. TreeOK(tree')
    BY <1>1, <2>1 DEF TreeOK, Derived
  <2>3. Incident({"edited"}) /\ temp' = temp /\ task' = task /\ read' = read
    BY <1>4 DEF EditRelease
  <2>4. PublicationTypeOK'
    BY <1>1, <2>2, <2>3, IncidentType
  <2> QED BY <2>3, <2>4, IncidentKeeps
<1>5. CASE EditDerived
  <2>1. PICK f, w : f \in Derived /\ tree' = [tree EXCEPT ![f] = {w}]
    BY <1>5 DEF EditDerived
  <2>2. AtMostOne({w})
    BY DEF AtMostOne
  <2>3. TreeOK(tree')
    BY <1>1, <2>1, <2>2, EditedTree
  <2>4. Incident({"edited"}) /\ temp' = temp /\ task' = task /\ read' = read
    BY <1>5 DEF EditDerived
  <2>5. PublicationTypeOK'
    BY <1>1, <2>3, <2>4, IncidentType
  <2> QED BY <2>4, <2>5, IncidentKeeps
<1>6. CASE Kill
  <2>1. Incident({"crashed"}) /\ tree' = tree /\ temp' = <<>> /\ read' = <<>>
        /\ task' = Idle(task.stage + 1) /\ task.cmd # "idle"
    BY <1>6 DEF Kill
  <2>2. task.stage \in 1 .. LastStage
    BY <1>1, <2>1 DEF PublicationTypeOK, Tasks
  <2>3. task.stage + 1 \in 1 .. LastStage + 1
    BY <2>2 DEF LastStage
  <2>4. task' \in Tasks /\ task'.cmd = "idle" /\ task'.pc = "-"
    BY <2>1, <2>3 DEF Tasks, Idle
  <2>5. PublicationTypeOK'
    BY <1>1, <2>1, <2>4, IncidentType
  <2> QED BY <2>1, <2>4, <2>5, IncidentKeeps
<1> QED BY <1>2, <1>3, <1>4, <1>5, <1>6 DEF Trouble

LEMMA ScenarioIs ==
    ASSUME NEW s \in Scenarios
    PROVE  TakenUp(s)
BY ScenariosOK DEF ScenariosOK

LEMMA Initially ==
    ASSUME Init
    PROVE  IInv
<1>1. PICK s \in Scenarios : /\ tree = s.tree /\ incidents = s.incidents
                             /\ task = Idle(s.stage)
  BY DEF Init
<1>2. TreeOK(tree) /\ incidents \in 0 .. MaxIncidents /\ s.stage \in 1 .. LastStage + 1
  BY <1>1, ScenarioIs DEF TakenUp
<1>3. task \in Tasks /\ task.cmd = "idle" /\ task.pc = "-"
  BY <1>1, <1>2 DEF Tasks, Idle
<1>4. PublicationTypeOK
  BY <1>2, <1>3 DEF Init, PublicationTypeOK, AtMostOne
<1>5. ~ Vouched /\ ~ Reproducing /\ task.pc \notin ServiceSteps
  BY <1>3 DEF Init, Vouched, Reproducing, ServiceSteps
<1> QED BY <1>4, <1>5 DEF IInv, ReproductionInv, VerifiedPackageIsFresh

LEMMA NextKeeps ==
    ASSUME IInv, [Next]_vars
    PROVE  IInv'
<1>1. CASE Author
  BY <1>1, AuthorKeeps
<1>2. CASE Snapshotting
  BY <1>2, SnapshotInputKeeps, SnapshotReplayKeeps, SnapshotMarketKeeps, SnapshotRowsKeeps,
     SnapshotDoneKeeps DEF Snapshotting
<1>3. CASE Writing
  BY <1>3, WriterInputStartKeeps, WriterReleasesKeeps, WriterDoneKeeps DEF Writing
<1>4. CASE Building
  BY <1>4, RecordedInputsKeeps, ArticleLoadKeeps, ArticleEditorialKeeps, WriteFactsKeeps,
     WriteChartsKeeps, WriteArticleKeeps, WriteManifestKeeps, RedrawKeeps, RewordKeeps,
     RemanifestKeeps, CompareArtifactsKeeps, CompareGuideKeeps DEF Building
<1>5. CASE CheckingDividend
  BY <1>5, DividendRefsKeeps, DividendChartsKeeps, DividendMetadataKeeps,
     DividendFactsCheckKeeps, DividendArticleKeeps DEF CheckingDividend
<1>6. CASE Serving
  BY <1>6, ServiceStartKeeps, ServiceReleasesKeeps, ServiceDigestKeeps, ServiceAdapterKeeps,
     ServiceReportKeeps DEF Serving
<1>7. CASE Trouble
  BY <1>7, TroubleKeeps
<1>8. CASE UNCHANGED vars
  <2>1. /\ tree' = tree /\ host' = host /\ temp' = temp /\ task' = task /\ read' = read
        /\ incidents' = incidents /\ history' = history /\ report' = report
    BY <1>8 DEF vars
  <2>2. PublicationTypeOK' /\ Undisturbed' = Undisturbed /\ Vouched' = Vouched
        /\ Reproducing' = Reproducing /\ Last' = Last
    BY <2>1 DEF IInv, PublicationTypeOK, TreeOK, AtMostOne, Undisturbed, Vouched, Reproducing,
                Last, Commands, Dividend
  <2>3. Facts => Facts'
    BY <2>1, SameTree DEF Facts, PackageFacts, SnapshotFacts, SourceFacts, WriterFacts, InputFacts,
       BuildFacts, DividendChecks
  <2>4. VerifiedPackageIsFresh'
    BY <2>1 DEF IInv, VerifiedPackageIsFresh, Vouched, DividendIsFresh, ArticleIsFresh,
                ManifestIsFresh, Dividend, Renderer
  <2> QED
    BY <2>1, <2>2, <2>3, <2>4 DEF IInv, ReproductionInv, Commands, Dividend
<1> QED BY <1>1, <1>2, <1>3, <1>4, <1>5, <1>6, <1>7, <1>8 DEF Next

-----------------------------------------------------------------------------
THEOREM Invariance == Spec => []IInv
BY Initially, NextKeeps, PTL DEF Spec

(* Every generated file is absent or whole, and a reproduction, refused or   *)
(* not, leaves no temporary directory behind.                                *)
THEOREM TypeCorrect == Spec => []PublicationTypeOK
<1>1. IInv => PublicationTypeOK
  BY DEF IInv
<1> QED BY <1>1, Invariance, PTL

(* Whatever was edited, killed or forgotten before: when the service vouches *)
(* for a package nobody touched while it was reproduced, what the adapter    *)
(* compares is what one complete build makes of the sources in the checkout: *)
(* every file of an article package; snapshot, facts and charts of the       *)
(* Dividend package and the statements of its guide, but not the rest of its *)
(* prose, which no check of publication.py reads.                            *)
THEOREM VerifiedPackagesAreFresh == Spec => []VerifiedPackageIsFresh
<1>1. IInv => VerifiedPackageIsFresh
  BY DEF IInv
<1> QED BY <1>1, Invariance, PTL

-----------------------------------------------------------------------------
(* What a fresh guide says of its two releases. *)

CapRelease == ReleaseOf[tree.package.cap]
MarketRelease == ReleaseOf[tree.package.market]

(* A snapshot of these releases that its builder accepts. *)
Accepted(s) ==
    /\ s.cap = tree.package.cap /\ s.market = tree.package.market
    /\ s.input = tree.input /\ s.prices = tree.prices
    /\ {s.cap, s.market} \subseteq DOMAIN ReleaseOf
    /\ ProjectionHolds(CapRelease) /\ ProjectionHolds(MarketRelease)
    /\ PricesUsable(s.prices, tree.bindings, s.cap)
    /\ RowsValid(s)

LEMMA VerifiedState ==
    ASSUME NEW r, NEW cells, cells # {}
    PROVE  MarketState(r, cells) = "verified" <=> \A c \in cells : r.cells[c] \in Completed
<1> DEFINE outcomes == {r.cells[c] : c \in cells}
<1>1. outcomes # {}
  OBVIOUS
<1>2. MarketState(r, cells) =
        CASE outcomes = {"na"} -> "not_applicable"
          [] outcomes # {} /\ outcomes \subseteq Completed -> "verified"
          [] outcomes # {} /\ outcomes \subseteq Negative -> "provider_negative"
          [] OTHER -> "evidence_insufficient"
  BY DEF MarketState
<1>3. MarketState(r, cells) = "verified" <=> outcomes \subseteq Completed
  <2> HIDE DEF outcomes
  <2>1. ~ (outcomes = {"na"} /\ outcomes \subseteq Completed)
        /\ ~ (outcomes = {"na"} /\ outcomes \subseteq Negative)
    BY DEF Completed, Negative
  <2>2. ~ (outcomes \subseteq Completed /\ outcomes \subseteq Negative)
    BY <1>1 DEF Completed, Negative
  <2> HIDE DEF Completed, Negative
  <2> QED BY <1>1, <1>2, <2>1, <2>2
<1> QED BY <1>3

LEMMA NeverRunState ==
    ASSUME NEW r, NEW cells, cells # {}
    PROVE  MarketState(r, cells) = "not_applicable" <=> \A c \in cells : r.cells[c] = "na"
<1> DEFINE outcomes == {r.cells[c] : c \in cells}
<1>1. MarketState(r, cells) =
        CASE outcomes = {"na"} -> "not_applicable"
          [] outcomes # {} /\ outcomes \subseteq Completed -> "verified"
          [] outcomes # {} /\ outcomes \subseteq Negative -> "provider_negative"
          [] OTHER -> "evidence_insufficient"
  BY DEF MarketState
<1>2. MarketState(r, cells) = "not_applicable" <=> outcomes = {"na"}
  <2> HIDE DEF outcomes
  <2>1. ~ (outcomes = {"na"} /\ outcomes \subseteq Completed)
        /\ ~ (outcomes = {"na"} /\ outcomes \subseteq Negative)
    BY DEF Completed, Negative
  <2> HIDE DEF Completed, Negative
  <2> QED BY <1>1, <2>1
<1> QED BY <1>2

(* A market is verified when every round of it completed, and not applicable *)
(* when none of them was.                                                    *)
LEMMA StatesMeanEveryRound ==
    ASSUME NEW s, Accepted(s), NEW p \in RowPaths(s)
    PROVE  /\ VerifiedMarkets(s, p) = EveryRoundCompleted(p)
           /\ MarketsIn(s, p, "verified") = EveryRoundCompleted(p)
           /\ MarketsIn(s, p, "not_applicable") = NeverRun(p)
<1>1. \A k \in Markets :
         Row(s, p).coverage[k] = MarketResult(MarketRelease, p, k)
  BY DEF Row, MarketCoverage, Accepted, MarketRelease
<1>2. ASSUME NEW k \in Markets
      PROVE  LET cells == MarketCells(MarketRelease, p, k)
                 state == Row(s, p).coverage[k].state
             IN  /\ state = "verified"
                       <=> \A c \in cells : MarketRelease.cells[c] \in Completed
                 /\ state = "not_applicable"
                       <=> \A c \in cells : MarketRelease.cells[c] = "na"
  <2> DEFINE cells == MarketCells(MarketRelease, p, k)
             result == MarketResult(MarketRelease, p, k)
  <2>1. MarketResultValid(result)
    BY DEF Accepted, RowsValid, RowValid, RowPaths, MarketRelease
  <2>2. result.state = MarketState(MarketRelease, cells) /\ result.total = Cardinality(cells)
        /\ result.refs = cells \cap MarketRelease.evidence
    BY DEF MarketResult
  <2>3. cells # {}
    <3>1. CASE result.state = "not_applicable"
      BY <3>1, <2>2 DEF MarketState
    <3>2. CASE result.state # "not_applicable"
      BY <3>2, <2>1, <2>2, FS_EmptySet DEF MarketResultValid
    <3> QED BY <3>1, <3>2
  <2> QED BY <1>1, <2>2, <2>3, VerifiedState, NeverRunState
<1> QED
  BY <1>2 DEF VerifiedMarkets, MarketsIn, EveryRoundCompleted, NeverRun, MarketCells,
              CellsOf, MarketRelease

LEMMA RowsAreTheCohort ==
    ASSUME NEW s, Accepted(s)
    PROVE  RowPaths(s) = Cohort
BY DEF Accepted, RowPaths, Cohort

(* A call is timed when its cell is, which all public records are. *)
LEMMA TimedAreMeasured ==
    ASSUME NEW s, Accepted(s)
    PROVE  Measured(s) = Timed
<1> DEFINE r == CapRelease
           input == InputOf[tree.input]
<1>1. \A p \in RowPaths(s) : Row(s, p).metrics = GatewayMetrics(r, p, input)
  BY DEF Row, Accepted, CapRelease
<1>2. \A p : GatewayMetrics(r, p, input).state = "measured"
                <=> p \in QVerisPaths /\ TimedCells(r, p, input) # {}
  BY DEF GatewayMetrics
<1>3. \A p : TimedCells(r, p, input)
                = {c \in CapCells(p, {"completed"} \cup Negative) :
                      c[2] # Control \/ input.positiveOnly # "yes"}
  BY DEF TimedCells, CapCells, ApplicableCells, CellsOf, Accepted, ProjectionHolds, CapRelease,
         Negative
<1>4. \A p \in QVerisPaths : TimedCells(r, p, input) # {} => p \in RowPaths(s)
  BY PathsOK DEF TimedCells, PathsOK, RowPaths, Identities, Accepted, CapRelease
<1> HIDE DEF r
<1>5. Measured(s) = {p \in QVerisPaths : TimedCells(r, p, input) # {}}
  BY <1>1, <1>2, <1>4 DEF Measured
<1> QED BY <1>3, <1>5 DEF Timed

LEMMA PricedAreListed ==
    ASSUME NEW s, Accepted(s)
    PROVE  /\ Priced(s) = DOMAIN PricesOf[tree.prices].amount
           /\ \A p \in Priced(s) : PriceIn(s, p) = PricesOf[tree.prices].amount[p]
<1> DEFINE amount == PricesOf[tree.prices].amount
<1>1. \A p : Row(s, p).price = IF p \in QVerisPaths THEN {amount[p]} ELSE {}
  BY DEF Row, Accepted
<1>2. DOMAIN amount = RowPaths(s) \cap QVerisPaths
  BY DEF Accepted, PricesUsable, RowPaths
<1> HIDE DEF amount
<1>3. Priced(s) = DOMAIN amount
  BY <1>1, <1>2 DEF Priced
<1>4. \A p \in Priced(s) : Row(s, p).price = {amount[p]}
  BY <1>1, <1>2, <1>3
<1>5. \A p \in Priced(s) : PriceIn(s, p) = amount[p]
  BY <1>4 DEF PriceIn
<1> QED BY <1>3, <1>5 DEF amount

LEMMA PassedControls ==
    ASSUME NEW s, Accepted(s), NEW p
    PROVE  Row(s, p).invalid.passed = Rejecting(p) /\ Rejecting(p) \in Nat
<1> DEFINE r == CapRelease
           passed == {c \in CaseCells(r, p, Control) :
                         r.cells[c] \in Completed \cup {"rejected"}}
<1>1. Row(s, p).invalid.passed = Cardinality(passed)
  BY DEF Row, InvalidInputHandling, Observation, Passed, Count, Accepted, CapRelease
<1>2. passed = {c \in CapCells(p, Completed \cup {"rejected"}) : c[2] = Control}
  BY DEF CapCells, CaseCells, ApplicableCells, CellsOf, CapRelease, Completed
<1>3. IsFiniteSet(passed)
  <2>1. IsFiniteSet(DOMAIN r.cells)
    BY ReleasesOK DEF ReleasesOK, Accepted, CapRelease
  <2>2. passed \subseteq DOMAIN r.cells
    BY DEF CaseCells, ApplicableCells, CellsOf
  <2> QED BY <2>1, <2>2, FS_Subset
<1> QED BY <1>1, <1>2, <1>3, FS_CardinalityType DEF Rejecting

(* Counting the members of a finite set part by part. *)
LEMMA TotalOfParts ==
    ASSUME NEW P, NEW S, IsFiniteSet(S), NEW part, \A x \in S : part[x] \in P,
           NEW n, DOMAIN n = P,
           \A p \in P : n[p] = Cardinality({x \in S : part[x] = p})
    PROVE  Total(n) = Cardinality(S)
<1> DEFINE of(p) == {x \in S : part[x] = p}
           pairs == UNION {{p} \X (1 .. n[p]) : p \in P}
           numbering(p) == CHOOSE f : f \in Bijection(1 .. n[p], of(p))
           count == [x \in pairs |-> numbering(x[1])[x[2]]]
<1>1. \A p \in P : /\ numbering(p) \in [1 .. n[p] -> of(p)]
                   /\ \A i, j \in 1 .. n[p] : numbering(p)[i] = numbering(p)[j] => i = j
                   /\ \A x \in of(p) : \E i \in 1 .. n[p] : numbering(p)[i] = x
  <2> TAKE p \in P
  <2>1. IsFiniteSet(of(p))
    BY FS_Subset
  <2>2. ExistsBijection(1 .. n[p], of(p))
    BY <2>1, FS_CardinalityType
  <2>3. numbering(p) \in Bijection(1 .. n[p], of(p))
    BY <2>2 DEF ExistsBijection
  <2>4. PICK f, T : f = numbering(p) /\ T = of(p) /\ f \in Bijection(1 .. n[p], T)
    BY <2>3
  <2>5. /\ f \in [1 .. n[p] -> T]
        /\ \A i, j \in 1 .. n[p] : f[i] = f[j] => i = j
        /\ \A x \in T : \E i \in 1 .. n[p] : f[i] = x
    BY <2>4 DEF Bijection, Injection, Surjection, IsInjective
  <2> HIDE DEF numbering, of
  <2> QED BY <2>4, <2>5
<1> HIDE DEF numbering
<1>2. \A x \in pairs : x = <<x[1], x[2]>> /\ x[1] \in P /\ x[2] \in 1 .. n[x[1]]
  OBVIOUS
<1>3. \A p \in P : \A i \in 1 .. n[p] : <<p, i>> \in pairs
  OBVIOUS
<1> HIDE DEF pairs
<1>4. count \in [pairs -> S] /\ \A x \in pairs : count[x] \in of(x[1])
  <2>1. \A p \in P : \A i \in 1 .. n[p] : numbering(p)[i] \in of(p)
    <3> HIDE DEF of
    <3> QED BY <1>1
  <2>2. \A x \in pairs : numbering(x[1])[x[2]] \in of(x[1])
    <3> HIDE DEF of
    <3> QED BY <1>2, <2>1
  <2> QED BY <2>2
<1>5. ASSUME NEW x \in pairs, NEW y \in pairs, count[x] = count[y] PROVE x = y
  <2>1. x[1] = y[1]
    BY <1>4, <1>5
  <2>2. x[2] = y[2]
    BY <1>1, <1>2, <1>5, <2>1
  <2> QED BY <1>2, <2>1, <2>2
<1>6. ASSUME NEW t \in S PROVE \E x \in pairs : count[x] = t
  <2>1. part[t] \in P /\ t \in of(part[t])
    OBVIOUS
  <2>2. PICK i \in 1 .. n[part[t]] : numbering(part[t])[i] = t
    BY <1>1, <2>1
  <2>3. <<part[t], i>> \in pairs
    BY <1>3, <2>1, <2>2
  <2> QED BY <2>2, <2>3
<1> HIDE DEF count
<1>7. count \in Bijection(pairs, S)
  BY <1>4, <1>5, <1>6, Fun_IsBij
<1>8. ExistsBijection(pairs, S) /\ IsFiniteSet(pairs)
  BY <1>7, Fun_InjectionProperties, Fun_BijectionProperties, FS_Injection DEF ExistsBijection
<1>9. Cardinality(pairs) = Cardinality(S)
  BY <1>8, FS_Bijection
<1> QED BY <1>9 DEF Total, pairs

(* Every public record of the two releases is a live call of one path. *)
LEMMA LiveCallsAreRecords ==
    ASSUME NEW s, Accepted(s), InputOf[tree.input].marketRuns = "yes"
    PROVE  LiveCalls(s) = Cardinality(CapRelease.evidence)
                              + Cardinality(MarketRelease.evidence)
<1> DEFINE capRuns == [p \in RowPaths(s) |-> Row(s, p).runs.terminal]
           marketRuns == [p \in RowPaths(s) |-> Row(s, p).marketRuns]
           E == CapRelease.evidence
           F == MarketRelease.evidence
           part(S) == [c \in S |-> c[1]]
<1>1. /\ IsFiniteSet(DOMAIN CapRelease.cells) /\ IsFiniteSet(DOMAIN MarketRelease.cells)
      /\ \A c \in DOMAIN CapRelease.cells : c[1] \in Paths
  BY ReleasesOK DEF ReleasesOK, Accepted, CapRelease, MarketRelease
<1>2. /\ E = {c \in DOMAIN CapRelease.cells : CapRelease.cells[c] # "na"}
      /\ F = {c \in DOMAIN MarketRelease.cells : MarketRelease.cells[c] # "na"}
  BY DEF Accepted, ProjectionHolds
<1>3. IsFiniteSet(E) /\ IsFiniteSet(F)
  BY <1>1, <1>2, FS_Subset
<1>4. /\ \A c \in E : part(E)[c] \in RowPaths(s)
      /\ \A c \in F : part(F)[c] \in RowPaths(s)
  <2>1. RowPaths(s) = Identities(CapRelease)
    BY DEF RowPaths, Accepted, CapRelease
  <2>2. {c[1] : c \in DOMAIN MarketRelease.cells} = RowPaths(s)
    BY DEF Accepted, RowsValid, RowPaths, MarketRelease
  <2>3. \A c \in E : c[1] \in Identities(CapRelease)
    BY <1>1, <1>2 DEF Identities, ApplicableCells, CellsOf
  <2> QED BY <1>2, <2>1, <2>2, <2>3
<1>5. ASSUME NEW p \in RowPaths(s)
      PROVE  /\ capRuns[p] = Cardinality({c \in E : part(E)[c] = p})
             /\ marketRuns[p] = Cardinality({c \in F : part(F)[c] = p})
  <2> DEFINE runs == RunObservations(CapRelease, ApplicableCells(CapRelease, p))
             others == RunObservations(MarketRelease, CellsOf(MarketRelease, p))
  <2>1. capRuns[p] = runs.terminal /\ marketRuns[p] = others.terminal
    BY DEF Row, Accepted, CapRelease, MarketRelease
  <2>2. RunObservationsValid(runs) /\ RunObservationsValid(others)
    BY DEF Accepted, RowsValid, RowValid, RowPaths, CapRelease, MarketRelease
  <2>3. runs.refs = {c \in E : part(E)[c] = p} /\ others.refs = {c \in F : part(F)[c] = p}
    BY <1>2 DEF RunObservations, ApplicableCells, CellsOf
  <2> HIDE DEF runs, others
  <2> QED BY <2>1, <2>2, <2>3 DEF RunObservationsValid
<1>6. Total(capRuns) = Cardinality(E)
  <2> HIDE DEF E
  <2> DEFINE cells == part(E)
  <2>1. \A c \in E : cells[c] \in RowPaths(s)
    BY <1>4
  <2>2. \A p \in RowPaths(s) : capRuns[p] = Cardinality({c \in E : cells[c] = p})
    BY <1>5
  <2>3. DOMAIN capRuns = RowPaths(s)
    OBVIOUS
  <2> HIDE DEF cells, capRuns
  <2> QED BY <1>3, <2>1, <2>2, <2>3, TotalOfParts
<1>7. Total(marketRuns) = Cardinality(F)
  <2> HIDE DEF F
  <2> DEFINE cells == part(F)
  <2>1. \A c \in F : cells[c] \in RowPaths(s)
    BY <1>4
  <2>2. \A p \in RowPaths(s) : marketRuns[p] = Cardinality({c \in F : cells[c] = p})
    BY <1>5
  <2>3. DOMAIN marketRuns = RowPaths(s)
    OBVIOUS
  <2> HIDE DEF cells, marketRuns
  <2> QED BY <1>3, <2>1, <2>2, <2>3, TotalOfParts
<1> QED BY <1>6, <1>7 DEF LiveCalls

LEMMA FreshIsAccepted ==
    ASSUME TreeOK(tree), Vouched, VerifiedPackageIsFresh
    PROVE  Accepted(FreshSnapshot(tree))
<1> DEFINE s == FreshSnapshot(tree)
<1>1. /\ s.cap = InputOf[tree.input].cap /\ s.market = InputOf[tree.input].market
      /\ s.input = tree.input /\ s.prices = tree.prices
  BY DEF FreshSnapshot
<1>2. s.cap = tree.package.cap /\ s.market = tree.package.market /\ UsableSources(tree)
      /\ {s.cap, s.market} \subseteq DOMAIN tree.releases
  BY DEF VerifiedPackageIsFresh
<1>3. RowsValid(s) /\ PricesUsable(s.prices, tree.bindings, s.cap)
      /\ ProjectionHolds(ReleaseOf[s.cap]) /\ ProjectionHolds(ReleaseOf[s.market])
  BY <1>1, <1>2 DEF UsableSources, ReleaseUsable
<1> HIDE DEF s
<1> QED BY <1>1, <1>2, <1>3 DEF Accepted, CapRelease, MarketRelease, TreeOK, s

(* Nobody measured beats a path of an admitted shortlist. *)
LEMMA AdmittedAreRecommendable ==
    ASSUME NEW s, Accepted(s), ~ Dividend, NEW writer, writer.snapshot = s,
           EditorialAdmitted(Only(tree.guide).editorial, writer)
    PROVE  \A p \in Only(tree.guide).editorial.chosen : p \in Cohort /\ Recommendable(p)
<1> DEFINE e == Only(tree.guide).editorial
<1>1. e.type \in DecisionTypes /\ e.chosen = ExpectedPaths(s, e)
  BY DEF EditorialAdmitted
<1>2. RowPaths(s) = Cohort /\ \A p \in Cohort : VerifiedMarkets(s, p) = EveryRoundCompleted(p)
  BY RowsAreTheCohort, StatesMeanEveryRound
<1> HIDE DEF e
<1>3. CASE e.type = "broadest_market_coverage"
  <2>1. e.chosen = Argmax([p \in Cohort |-> Cardinality(EveryRoundCompleted(p))])
    BY <1>1, <1>2, <1>3 DEF ExpectedPaths
  <2>2. \A p \in e.chosen :
           p \in Cohort /\ \A q \in Cohort : Cardinality(EveryRoundCompleted(q))
                                               <= Cardinality(EveryRoundCompleted(p))
    BY <2>1 DEF Argmax
  <2> QED BY <1>3, <2>2 DEF Recommendable, e
<1>4. CASE e.type = "verified_market"
  <2>1. \A p \in e.chosen : p \in Cohort /\ e.market \in EveryRoundCompleted(p)
    BY <1>1, <1>2, <1>4 DEF ExpectedPaths
  <2> QED BY <1>4, <2>1 DEF Recommendable, e
<1>5. CASE e.type = "lowest_latency"
  <2>1. e.chosen = Argmin([p \in Timed |-> Latency[p]])
    BY <1>1, <1>5, TimedAreMeasured DEF ExpectedPaths
  <2>2. \A p \in e.chosen : p \in Timed /\ \A q \in Timed : Latency[p] <= Latency[q]
    BY <2>1 DEF Argmin
  <2>3. Timed \subseteq Cohort
    BY <1>2, TimedAreMeasured DEF Measured
  <2> QED BY <1>5, <2>2, <2>3 DEF Recommendable, e
<1>6. CASE e.type = "lowest_list_price"
  <2> DEFINE price == PricesOf[tree.prices].amount
  <2>1. Priced(s) = DOMAIN price /\ \A p \in DOMAIN price : PriceIn(s, p) = price[p]
    BY PricedAreListed
  <2>2. e.chosen = Argmin([p \in Priced(s) |-> PriceIn(s, p)])
    BY <1>1, <1>6 DEF ExpectedPaths
  <2>3. \A p \in e.chosen : p \in DOMAIN price /\ \A q \in DOMAIN price : price[p] <= price[q]
    BY <2>1, <2>2 DEF Argmin
  <2>4. DOMAIN price \subseteq Cohort
    BY <1>2, <2>1 DEF Priced
  <2> QED BY <1>6, <2>3, <2>4 DEF Recommendable, e
<1>7. CASE e.type = "explicit_invalid_input"
  <2>1. \A p : Row(s, p).invalid.passed = Rejecting(p) /\ Rejecting(p) \in Nat
    BY PassedControls
  <2>2. RejectedControls(s) = {p \in Cohort : Rejecting(p) > 0}
    BY <1>2, <2>1 DEF RejectedControls
  <2>3. e.chosen = Argmax([p \in RejectedControls(s) |-> Row(s, p).invalid.passed])
    BY <1>1, <1>7 DEF ExpectedPaths
  <2>4. \A p \in e.chosen : /\ p \in RejectedControls(s)
                            /\ \A q \in RejectedControls(s) : Rejecting(q) <= Rejecting(p)
    BY <2>1, <2>3 DEF Argmax
  <2>5. \A p \in e.chosen : /\ p \in Cohort /\ Rejecting(p) > 0
                            /\ \A q \in Cohort : Rejecting(q) <= Rejecting(p)
    BY <2>1, <2>2, <2>4
  <2> QED BY <1>7, <2>5 DEF Recommendable, e
<1> QED BY <1>1, <1>3, <1>4, <1>5, <1>6, <1>7 DEF DecisionTypes

LEMMA ArticleStatesReleasedEvidence ==
    ASSUME TreeOK(tree), Vouched, VerifiedPackageIsFresh, ~ Dividend
    PROVE  GuideNamesReleasedPaths /\ GuideCountsReleasedCalls /\ QuickCountsAreReleased
<1> DEFINE s == FreshSnapshot(tree)
           e == Only(tree.editorial)
<1>1. Accepted(s)
  BY FreshIsAccepted
<1>2. ArticleIsFresh(e)
  BY DEF VerifiedPackageIsFresh
<1>3. tree.guide = {FreshArticle(tree, e, Renderer)}
      /\ tree.writer = {WriterInput(s, tree.profile)}
      /\ EditorialAdmitted(e, Only(tree.writer))
  BY <1>2 DEF ArticleIsFresh
<1>4. Only(tree.guide) = FreshArticle(tree, e, Renderer)
      /\ Only(tree.writer) = WriterInput(s, tree.profile)
  BY <1>3, OnlyValue
<1>5. /\ Only(tree.guide).facts.snapshot = s /\ Only(tree.guide).editorial = e
      /\ Only(tree.writer).snapshot = s
  BY <1>4 DEF FreshArticle, Article, ArticleFacts, WriterInput
<1> HIDE DEF s, e
<1>6. /\ Said.live = LiveCalls(s) /\ Said.shortlist = e.chosen
      /\ Said.verified = [p \in RowPaths(s) |-> VerifiedMarkets(s, p)]
  BY <1>5 DEF Said, ArticleStatements
<1>7. \A p \in DOMAIN Said.verified : Said.verified[p] = EveryRoundCompleted(p)
  BY <1>1, <1>6, StatesMeanEveryRound
<1>8. \A p \in e.chosen : p \in Cohort /\ Recommendable(p)
  BY <1>1, <1>3, <1>5, AdmittedAreRecommendable
<1>9. GuideCountsReleasedCalls
  BY <1>1, <1>6, LiveCallsAreRecords DEF GuideCountsReleasedCalls, CapRelease, MarketRelease
<1> QED BY <1>6, <1>7, <1>8, <1>9 DEF GuideNamesReleasedPaths, QuickCountsAreReleased

LEMMA DividendStatesReleasedEvidence ==
    ASSUME TreeOK(tree), Vouched, VerifiedPackageIsFresh, Dividend
    PROVE  GuideNamesReleasedPaths /\ GuideCountsReleasedCalls /\ QuickCountsAreReleased
<1> DEFINE s == FreshSnapshot(tree)
           facts == DividendFacts(s, tree.package)
<1>1. Accepted(s)
  BY FreshIsAccepted
<1>2. Said = DividendStatements(s, facts) /\ AdviceHasWords(facts)
  BY DEF VerifiedPackageIsFresh, DividendIsFresh, Said
<1> HIDE DEF s
<1>3. /\ DOMAIN facts.paths = RowPaths(s)
      /\ \A p \in RowPaths(s) : /\ facts.paths[p].verified = MarketsIn(s, p, "verified")
                                /\ facts.paths[p].required = Required(tree.package, p)
      /\ facts.live = Cardinality(CapRelease.evidence) + Cardinality(MarketRelease.evidence)
  BY DEF DividendFacts, DividendPathFacts, ReleaseFacts, CapRelease, MarketRelease
<1> HIDE DEF facts
<1>4. /\ Said.live = facts.live /\ Said.advice = Groups(facts.paths)
      /\ Said.quick = QuickRecommendation(s)
      /\ Said.verified = [p \in DOMAIN facts.paths |-> facts.paths[p].verified]
  BY <1>2 DEF DividendStatements
<1>5. \A p \in DOMAIN Said.verified : Said.verified[p] = EveryRoundCompleted(p)
  BY <1>1, <1>3, <1>4, StatesMeanEveryRound
<1>6. ASSUME NEW p \in Said.advice.basic_us
      PROVE  p \in Cohort /\ BasicUSRecommendable(p)
  <2>1. /\ p \in RowPaths(s) /\ p \in QVerisPaths
        /\ Required(tree.package, p).kind # "missing"
        /\ US \in MarketsIn(s, p, "verified")
    BY <1>3, <1>4, <1>6 DEF Groups, BasicUS
  <2>2. p \in Cohort /\ US \in EveryRoundCompleted(p)
    BY <1>1, <2>1, RowsAreTheCohort, StatesMeanEveryRound
  <2>3. ASSUME p # SamplePath
        PROVE  \E c \in SampleCells(tree.package, p) :
                  SampleRelease(tree.package, p).cells[c] \in Completed
    <3>1. Count(SampleRelease(tree.package, p), SampleCells(tree.package, p), Completed) # 0
      BY <2>1, <2>3 DEF Required
    <3> QED BY <3>1, FS_EmptySet DEF Count
  <2> QED BY <2>1, <2>2, <2>3 DEF BasicUSRecommendable
<1>7. GuideCountsReleasedCalls
  BY <1>3, <1>4 DEF GuideCountsReleasedCalls, CapRelease, MarketRelease
<1>8. Counted \subseteq RowPaths(s)
  BY <1>2, <1>3 DEF AdviceHasWords
<1>9. \A p \in DOMAIN Said.quick.passed :
         Said.quick.passed[p] = Cardinality(EveryRoundCompleted(p))
  BY <1>1, <1>4, <1>8, StatesMeanEveryRound DEF QuickRecommendation
<1>10. Said.quick.unsupported = Cardinality(NeverRun(Said.quick.all))
  <2>1. MarketsIn(s, AlphaVantage, "not_applicable") = NeverRun(AlphaVantage)
    BY <1>1, <1>8, StatesMeanEveryRound DEF Counted
  <2> QED BY <1>4, <2>1 DEF QuickRecommendation
<1> QED BY <1>5, <1>6, <1>7, <1>9, <1>10 DEF GuideNamesReleasedPaths, QuickCountsAreReleased

(* The guide of a package the service vouches for names exactly the markets  *)
(* whose every round completed, recommends no path that another one measured *)
(* beats, and counts the public records of its two releases, whatever the    *)
(* releases are (writer.py, factory.py, selection.py; the Dividend facts).   *)
(* The quick recommendation of the Dividend guide counts the markets that    *)
(* passed and those never run as the releases have them; that its fixed      *)
(* words are true of them is not claimed, and is not so (the names it starts *)
(* with, and "passed all" of a path with a failed market, publication.py).   *)
THEOREM GuidesStateReleasedEvidence == Spec => []GuideStatesReleasedEvidence
<1>1. IInv => GuideStatesReleasedEvidence
  BY ArticleStatesReleasedEvidence, DividendStatesReleasedEvidence
     DEF IInv, PublicationTypeOK, GuideStatesReleasedEvidence
<1> QED BY <1>1, Invariance, PTL
-----------------------------------------------------------------------------
(***************************************************************************)
(* An undisturbed build reproduces                                         *)
(***************************************************************************)
Troubles == {"refused", "edited", "crashed", "skipped"}

(* Nothing has happened that would excuse a refused reproduction.            *)
Clean ==
    /\ history \cap Troubles = {}
    /\ Agreeing /\ Renderer # 1
    /\ Dividend => host.maker = host.checker /\ AdviceHasWords(FreshDividendFacts)

(* What the commands before the present one have left.                       *)
Progress ==
    /\ task.stage >= 2 => SnapshotBuilt(tree)
    /\ Dividend /\ task.stage >= 3 => DividendBuilt(tree, host.maker)
    /\ ~ Dividend /\ task.stage >= 3 => WriterBuilt(tree)
    /\ ~ Dividend /\ task.stage >= 5 => ArticleBuilt(tree, 2, host.maker)
    /\ ~ Dividend /\ task.stage >= 6 => tree.guide = tree.article

Replayed ==
    /\ task.pc \in {"market", "rows", "built"} => FreshSnapshot(tree).cap \in DOMAIN tree.releases
    /\ task.pc \in {"rows", "built"} => FreshSnapshot(tree).market \in DOMAIN tree.releases

SnapshotDoing ==
    /\ task.stage = 1 /\ task.pc \in SnapshotSteps
    /\ SnapshotFacts /\ SourceFacts /\ Replayed

WriterRead ==
    task.pc = "sources" => /\ Holds(read, "wsnapshot", FreshSnapshot(tree))
                           /\ Holds(read, "wprofile", tree.profile)

WriterDoing ==
    /\ task.stage = 2 /\ ~ Dividend
    /\ task.pc \in WriterSteps /\ task.ret = "prepared" /\ WriterRead
    /\ task.pc = "prepared" => /\ Holds(read, "writer", FreshWriter)
                               /\ WriterReleasesMatch(FreshSnapshot(tree), tree.profile)

Picture(renderer) ==
    Drawn(Charts(FreshSnapshot(tree), tree.profile, renderer), host.maker)

(* What the article command has read and judged, and what it has written.    *)
ArticleRead ==
    /\ WriterRead
    /\ task.pc # "load" =>
          /\ task.ret = "editorial" /\ Publishable(FreshSnapshot(tree), tree.profile)
          /\ Holds(read, "snapshot", FreshSnapshot(tree))
          /\ Holds(read, "profile", tree.profile)
    /\ task.pc \in Loaded => Holds(read, "writer", FreshWriter)
    /\ task.pc \in Approved =>
          /\ tree.editorial # {} /\ Holds(read, "editorial", Only(tree.editorial))
          /\ EditorialAdmitted(Only(tree.editorial), FreshWriter)

ArticleWritten ==
    LET article(renderer) == {FreshArticle(tree, Only(tree.editorial), renderer)}
    IN  /\ task.pc \in Factual => tree.facts = {FreshFacts}
        /\ task.pc \in {"text", "manifest", "redraw"} => tree.charts = {Picture(1)}
        /\ task.pc \in {"reword", "remanifest"} => tree.charts = {Picture(2)}
        /\ task.pc \in {"manifest", "redraw", "reword"} => tree.article = article(1)
        /\ task.pc = "remanifest" => tree.article = article(2)
        /\ task.pc \in Redrawing =>
              tree.manifest = {Manifest(FreshInputs(tree, Only(tree.editorial)), Picture(1), 1)}

ArticleDoing ==
    /\ task.stage = 4 /\ ~ Dividend
    /\ task.pc \in {"load", "writer", "sources"} \cup (Loaded \ {"compare", "guide"})
    /\ ArticleRead /\ ArticleWritten

ServiceDoing ==
    /\ task.stage = Len(Commands) /\ task.pc # "recorded"
    /\ task.pc \in {"releases", "digest", "adapter"} => Holds(read, "code", tree.adapter)

Doing ==
    /\ task.cmd = "snapshot" => SnapshotDoing
    /\ task.cmd = "writer" => WriterDoing
    /\ task.cmd = "article" => ArticleDoing
    /\ task.cmd = "reproduce" => ServiceDoing

(* The package file is one unless somebody edits it.                         *)
Whole == "edited" \notin history => PackageFields \subseteq DOMAIN tree.package

CleanInv ==
    /\ "disturbed" \in history => history \cap Troubles # {}
    /\ Whole
    /\ Clean => "rejected" \notin history /\ Progress /\ Doing

-----------------------------------------------------------------------------
(* Steps that leave the sources alone. *)

(* Pins are no source: they follow the files.                                *)
SourcesStay ==
    /\ \A f \in Sources \ {"package"} : tree'[f] = tree[f]
    /\ tree'.releases = tree.releases /\ host' = host
    /\ \A f \in PackageFields \ {"pins"} : tree'.package[f] = tree.package[f]
    /\ PackageFields \subseteq DOMAIN tree.package => PackageFields \subseteq DOMAIN tree'.package

FactsDependOnReleases(s, a, b) ==
    /\ DividendFacts(s, a) = DividendFacts(s, b)
    /\ DividendFactsExist(s, a) <=> DividendFactsExist(s, b)

LEMMA FactsOfReleases ==
    ASSUME NEW s, NEW a, NEW b, a.cap = b.cap, a.market = b.market
    PROVE  FactsDependOnReleases(s, a, b)
<1>1. \A p : SampleRelease(a, p) = SampleRelease(b, p)
  BY DEF SampleRelease
<1>2. \A p : SampleCells(a, p) = SampleCells(b, p)
  BY <1>1 DEF SampleCells
<1>3. \A p : Required(a, p) = Required(b, p)
  BY <1>1, <1>2 DEF Required
<1>4. ASSUME NEW p PROVE Returned(a, p) = Returned(b, p)
  <2> DEFINE found(x) == {SampleRelease(x, p).facts[c] : c \in SampleCells(x, p)}
  <2>1. found(a) = found(b)
    BY <1>1, <1>2
  <2>2. Required(a, p) = Required(b, p)
    BY <1>3
  <2>3. \A x : Returned(x, p) =
           [identity |-> \A f \in found(x) : f.identity = "matched",
            currency |-> UNION {f.currency : f \in found(x)},
            dates    |-> CASE \A f \in found(x) : f.dates = "full" -> "full"
                           [] (\E f \in found(x) : f.dates # "full")
                                  /\ Required(x, p).passed = 0 -> "none"
                           [] OTHER -> "only_ex"]
    BY DEF Returned
  <2> HIDE DEF found
  <2> QED BY <2>1, <2>2, <2>3
<1>5. \A p : DividendPathFacts(s, a, p) = DividendPathFacts(s, b, p)
  BY <1>3, <1>4 DEF DividendPathFacts
<1>6. DividendFacts(s, a) = DividendFacts(s, b)
  BY <1>5 DEF DividendFacts
<1>7. DividendFactsExist(s, a) <=> DividendFactsExist(s, b)
  BY <1>2, <1>4 DEF DividendFactsExist
<1> QED BY <1>6, <1>7 DEF FactsDependOnReleases

(* What depends on the sources only. *)
SameBuild ==
    /\ FreshSnapshot(tree') = FreshSnapshot(tree)
    /\ UsableSources(tree') <=> UsableSources(tree)
    /\ tree'.profile = tree.profile /\ tree'.adapter = tree.adapter /\ tree'.releases = tree.releases
    /\ FreshWriter' = FreshWriter /\ FreshFacts' = FreshFacts
    /\ \A e, r : FreshArticle(tree', e, r) = FreshArticle(tree, e, r)
    /\ \A e : FreshInputs(tree', e) = FreshInputs(tree, e)
    /\ \A r : Picture(r)' = Picture(r)
    /\ Dividend' = Dividend /\ Renderer' = Renderer /\ Commands' = Commands
    /\ FreshDividendFacts' = FreshDividendFacts
    /\ DividendFactsExist(FreshSnapshot(tree'), tree'.package)
            <=> DividendFactsExist(FreshSnapshot(tree), tree.package)
    /\ CapUsable' = CapUsable /\ MarketUsable' = MarketUsable /\ TablesUsable' = TablesUsable
    /\ Agreeing' = Agreeing

LEMMA SourcesDecide ==
    ASSUME SourcesStay
    PROVE  SameBuild
<1>1. /\ tree'.suite = tree.suite /\ tree'.registry = tree.registry
      /\ tree'.prices = tree.prices /\ tree'.bindings = tree.bindings
      /\ tree'.input = tree.input /\ tree'.profile = tree.profile
      /\ tree'.adapter = tree.adapter /\ tree'.releases = tree.releases /\ host' = host
  BY DEF SourcesStay, Sources
<1>2. /\ tree'.package.adapter = tree.package.adapter
      /\ tree'.package.cap = tree.package.cap /\ tree'.package.market = tree.package.market
      /\ tree'.package.code = tree.package.code
  BY DEF SourcesStay, PackageFields
<1>3. FreshSnapshot(tree') = FreshSnapshot(tree)
  BY <1>1 DEF FreshSnapshot
<1>4. UsableSources(tree') <=> UsableSources(tree)
  BY <1>1, <1>3 DEF UsableSources
<1>5. FreshWriter' = FreshWriter /\ FreshFacts' = FreshFacts
  BY <1>1, <1>3 DEF FreshWriter, FreshFacts
<1>6. /\ \A e, r : FreshArticle(tree', e, r) = FreshArticle(tree, e, r)
      /\ \A e : FreshInputs(tree', e) = FreshInputs(tree, e)
  BY <1>1, <1>3 DEF FreshArticle, FreshInputs
<1>7. \A r : Picture(r)' = Picture(r)
  BY <1>1, <1>3 DEF Picture
<1>8. Dividend' = Dividend /\ Renderer' = Renderer
  BY <1>2 DEF Dividend, Renderer
<1>9. Commands' = Commands
  BY <1>8 DEF Commands
<1>10. FactsDependOnReleases(FreshSnapshot(tree), tree'.package, tree.package)
  BY <1>2, FactsOfReleases
<1>11. /\ FreshDividendFacts' = FreshDividendFacts
       /\ DividendFactsExist(FreshSnapshot(tree'), tree'.package)
            <=> DividendFactsExist(FreshSnapshot(tree), tree.package)
  BY <1>3, <1>10 DEF FreshDividendFacts, FactsDependOnReleases
<1>12. CapUsable' = CapUsable /\ MarketUsable' = MarketUsable /\ TablesUsable' = TablesUsable
  BY <1>1, <1>3 DEF CapUsable, MarketUsable, TablesUsable
<1>13. Agreeing' = Agreeing
  BY <1>1, <1>2 DEF Agreeing
<1> QED BY <1>1, <1>3, <1>4, <1>5, <1>6, <1>7, <1>8, <1>9, <1>11, <1>12, <1>13 DEF SameBuild

LEMMA SameTreeStays ==
    ASSUME tree' = tree, host' = host
    PROVE  SourcesStay
BY DEF SourcesStay

LEMMA OneFileStays ==
    ASSUME TreeOK(tree), host' = host, NEW f \in Derived, NEW v, tree' = [tree EXCEPT ![f] = v]
    PROVE  SourcesStay /\ tree'[f] = v /\ \A g \in Derived \ {f} : tree'[g] = tree[g]
<1>1. /\ DOMAIN tree' = DOMAIN tree /\ \A g \in DOMAIN tree : g # f => tree'[g] = tree[g]
      /\ f \in DOMAIN tree => tree'[f] = v
  OBVIOUS
<1>2. f \in DOMAIN tree /\ \A g \in Sources \cup Derived \cup {"releases"} : g \in DOMAIN tree
  BY DEF TreeOK
<1>3. f # "releases" /\ \A g \in Sources : g # f
  BY DEF Derived, Sources
<1>4. /\ \A g \in Sources : tree'[g] = tree[g]
      /\ tree'.releases = tree.releases
      /\ \A g \in Derived \ {f} : tree'[g] = tree[g]
  BY <1>1, <1>2, <1>3
<1>5. tree'.package = tree.package
  BY <1>4 DEF Sources
<1> QED BY <1>1, <1>2, <1>4, <1>5 DEF SourcesStay

(* What is clean has been clean. *)
LEMMA CleanBefore ==
    ASSUME SourcesStay, history \cap Troubles \subseteq history', Clean'
    PROVE  Clean
<1>1. SameBuild /\ host' = host
  BY SourcesDecide DEF SourcesStay
<1> QED BY <1>1 DEF Clean, SameBuild

LEMMA WholeStays ==
    ASSUME CleanInv, SourcesStay, history \cap Troubles \subseteq history'
    PROVE  Whole'
BY DEF CleanInv, Whole, SourcesStay, Troubles

-----------------------------------------------------------------------------
(* Who is at work, and on what. *)

(* A clean reproduction finds everything built. *)
Complete ==
    /\ Facts /\ SnapshotBuilt(tree) /\ ServiceDoing /\ Agreeing /\ Renderer = 2
    /\ Dividend => /\ DividendBuilt(tree, host.maker) /\ host.maker = host.checker
                   /\ AdviceHasWords(FreshDividendFacts)
    /\ ~ Dividend => /\ WriterBuilt(tree) /\ ArticleBuilt(tree, 2, host.maker)
                     /\ tree.guide = tree.article

LEMMA CleanReproduction ==
    ASSUME IInv, CleanInv, Clean, Reproducing
    PROVE  Complete
<1>1. Undisturbed /\ Progress /\ ServiceDoing
  BY DEF CleanInv, Clean, Undisturbed, Doing, Reproducing
<1>2. Facts
  BY <1>1 DEF IInv, ReproductionInv
<1>3. task.stage = IF Dividend THEN 3 ELSE 6
  BY <1>1 DEF ServiceDoing, Commands
<1>4. Renderer = 2
  BY DEF Clean, Renderer
<1> QED BY <1>1, <1>2, <1>3, <1>4 DEF Complete, Progress, Clean

LEMMA CleanBuild ==
    ASSUME IInv, CleanInv, Clean, task.cmd # "idle", ~ Reproducing
    PROVE  /\ task.pc \in SnapshotSteps => task.cmd = "snapshot" /\ SnapshotDoing
           /\ task.pc = "prepared" => task.cmd = "writer" /\ WriterDoing
           /\ task.pc \in {"writer", "sources"} =>
                 \/ task.cmd = "writer" /\ WriterDoing
                 \/ task.cmd = "article" /\ ArticleDoing
           /\ task.pc \in {"load"} \cup Loaded => task.cmd = "article" /\ ArticleDoing
           /\ task.pc \notin ServiceSteps
<1>1. /\ task.pc \notin ServiceSteps
      /\ task.cmd \in {"snapshot", "writer", "article"}
  BY DEF IInv, ReproductionInv, PublicationTypeOK, Tasks, Reproducing
<1>2. Doing
  BY DEF CleanInv
<1> QED BY <1>1, <1>2 DEF Doing, SnapshotDoing, WriterDoing, ArticleDoing, ServiceSteps

(* A refused command of a build excuses a refused reproduction. *)
LEMMA RefusedIsUnclean ==
    ASSUME CleanInv, Refuse, Clean => ~ Reproducing
    PROVE  CleanInv'
<1>1. tree' = tree /\ host' = host
      /\ history' = history \cup {IF Reproducing THEN "rejected" ELSE "refused"}
  BY DEF Refuse
<1>2. SourcesStay
  BY <1>1, SameTreeStays
<1>3. ~ Clean'
  <2> SUFFICES ASSUME Clean' PROVE FALSE
    OBVIOUS
  <2>1. Clean
    BY <1>1, <1>2, CleanBefore
  <2>2. "refused" \in history'
    BY <1>1, <2>1
  <2> QED BY <2>2 DEF Clean, Troubles
<1>4. Whole'
  BY <1>1, <1>2, WholeStays
<1> QED BY <1>1, <1>3, <1>4 DEF CleanInv

LEMMA SameTreeProgress ==
    ASSUME tree' = tree, host' = host, task'.stage = task.stage, Progress
    PROVE  Progress'
BY DEF Progress, Dividend

(* A step that reads or compares. *)
LEMMA ReadsKeepClean ==
    ASSUME IInv, CleanInv, task.cmd # "idle", NEW values, NEW next,
           Reads(values, next) \/ Passes(next),
           Clean => next # "recorded",
           Clean /\ ~ Reproducing => Doing',
           Clean /\ Reproducing /\ next \in {"releases", "digest", "adapter"} =>
              Holds(read', "code", tree.adapter)
    PROVE  CleanInv'
<1>1. /\ tree' = tree /\ host' = host /\ history' = history
      /\ task' = [task EXCEPT !.pc = next]
  BY DEF Reads, Passes, Goto, Calm
<1>2. task'.cmd = task.cmd /\ task'.stage = task.stage /\ task'.pc = next
  BY <1>1 DEF IInv, PublicationTypeOK, Tasks
<1>3. SourcesStay
  BY <1>1, SameTreeStays
<1>4. ASSUME Clean'
      PROVE  "rejected" \notin history' /\ Progress' /\ Doing'
  <2>1. Clean
    BY <1>1, <1>3, <1>4, CleanBefore
  <2>2. "rejected" \notin history /\ Progress /\ Doing
    BY <2>1 DEF CleanInv
  <2>3. Progress'
    BY <1>1, <1>2, <2>2, SameTreeProgress
  <2>4. ASSUME Reproducing PROVE Doing'
    <3>1. ServiceDoing
      BY <2>2, <2>4 DEF Doing, Reproducing
    <3>2. ServiceDoing'
      BY <1>1, <1>2, <2>1, <2>4, <3>1 DEF ServiceDoing, Commands, Dividend
    <3> QED BY <1>2, <2>4, <3>2 DEF Doing, Reproducing
  <2> QED BY <1>1, <2>1, <2>2, <2>3, <2>4
<1>5. Whole'
  BY <1>1, <1>3, WholeStays
<1> QED BY <1>1, <1>4, <1>5 DEF CleanInv

(* The last write of a command. *)
LEMMA PublishKeepsClean ==
    ASSUME IInv, CleanInv, task.cmd # "idle", NEW f \in Derived, NEW v, Publish(f, v),
           Clean /\ SourcesStay /\ task'.stage = task.stage + 1 => Progress'
    PROVE  CleanInv'
<1>1. /\ tree' = [tree EXCEPT ![f] = {v}] /\ host' = host /\ history' = history
      /\ task' = Idle(task.stage + 1)
  BY DEF Publish, End, Calm
<1>2. TreeOK(tree)
  BY DEF IInv, PublicationTypeOK
<1>3. SourcesStay
  BY <1>1, <1>2, OneFileStays
<1>4. task'.stage = task.stage + 1 /\ task'.cmd = "idle"
  BY <1>1 DEF Idle
<1>5. ASSUME Clean'
      PROVE  "rejected" \notin history' /\ Progress' /\ Doing'
  <2>1. Clean
    BY <1>1, <1>3, <1>5, CleanBefore
  <2>2. "rejected" \notin history
    BY <2>1 DEF CleanInv
  <2> QED BY <1>1, <1>3, <1>4, <2>1, <2>2 DEF Doing, SourcesStay
<1>6. Whole'
  BY <1>1, <1>3, WholeStays
<1> QED BY <1>1, <1>5, <1>6 DEF CleanInv

(* A step that writes a file of the package, or of its reproduction. *)
LEMMA ProduceKeepsClean ==
    ASSUME IInv, CleanInv, task.cmd # "idle", NEW f \in {"facts", "charts", "article", "manifest"},
           NEW v, NEW next, Produce(f, v, next),
           Clean => next \notin {"recorded", "releases", "digest", "adapter"},
           Clean /\ ~ Reproducing /\ SourcesStay => task.cmd = "article" /\ ArticleDoing'
    PROVE  CleanInv'
<1>1. /\ host' = host /\ history' = history /\ task' = [task EXCEPT !.pc = next]
      /\ IF Reproducing THEN tree' = tree ELSE tree' = [tree EXCEPT ![f] = {v}]
  BY DEF Produce, Write, Goto, Calm
<1>2. task'.cmd = task.cmd /\ task'.stage = task.stage /\ task'.pc = next
  BY <1>1 DEF IInv, PublicationTypeOK, Tasks
<1>3. TreeOK(tree) /\ f \in Derived
  BY DEF IInv, PublicationTypeOK, Derived
<1>4. SourcesStay
  BY <1>1, <1>3, OneFileStays, SameTreeStays
<1>5. ASSUME Clean'
      PROVE  "rejected" \notin history' /\ Progress' /\ Doing'
  <2>1. Clean
    BY <1>1, <1>4, <1>5, CleanBefore
  <2>2. "rejected" \notin history /\ Progress /\ Doing
    BY <2>1 DEF CleanInv
  <2>3. CASE Reproducing
    <3>1. ServiceDoing /\ tree' = tree
      BY <1>1, <2>2, <2>3 DEF Doing, Reproducing
    <3>2. ServiceDoing'
      BY <1>1, <1>2, <2>1, <2>3, <3>1 DEF ServiceDoing, Commands, Dividend
    <3>3. Progress'
      BY <1>1, <1>2, <2>2, <3>1, SameTreeProgress
    <3> QED BY <1>1, <1>2, <2>2, <2>3, <3>1, <3>2, <3>3 DEF Doing, Reproducing
  <2>4. CASE ~ Reproducing
    <3>1. task.cmd = "article" /\ ArticleDoing'
      BY <1>4, <2>1, <2>4
    <3>2. Doing'
      BY <1>2, <3>1 DEF Doing
    <3>3. task.stage = 4 /\ ~ Dividend /\ SnapshotBuilt(tree) /\ WriterBuilt(tree)
      <4>1. task.stage = 4 /\ ~ Dividend
        BY <2>2, <3>1 DEF Doing, ArticleDoing
      <4> QED BY <2>2, <4>1 DEF Progress
    <3>4. SameBuild /\ tree'.snapshot = tree.snapshot /\ tree'.writer = tree.writer
      BY <1>1, <1>3, <1>4, <2>4, SourcesDecide, OneFileStays DEF Derived
    <3>5. SnapshotBuilt(tree') /\ WriterBuilt(tree')
      BY <3>3, <3>4 DEF SnapshotBuilt, WriterBuilt, SameBuild, FreshWriter
    <3>6. Progress'
      BY <1>2, <3>3, <3>4, <3>5 DEF Progress, SameBuild
    <3> QED BY <1>1, <1>4, <2>2, <3>2, <3>6 DEF SourcesStay
  <2> QED BY <2>3, <2>4
<1>6. Whole'
  BY <1>1, <1>4, WholeStays
<1> QED BY <1>1, <1>5, <1>6 DEF CleanInv

(* The sources of a complete build are usable, and its releases replay. *)
LEMMA BuiltIsUsable ==
    ASSUME SnapshotBuilt(tree), Agreeing
    PROVE  /\ CapUsable /\ MarketUsable /\ TablesUsable /\ OfThePackage
           /\ Replays(FreshSnapshot(tree).cap) /\ Replays(FreshSnapshot(tree).market)
           /\ FreshSnapshot(tree).cap = InputOf[tree.input].cap
           /\ FreshSnapshot(tree).market = InputOf[tree.input].market
           /\ tree.snapshot = {FreshSnapshot(tree)}
<1>1. /\ FreshSnapshot(tree).cap = InputOf[tree.input].cap
      /\ FreshSnapshot(tree).market = InputOf[tree.input].market
  BY DEF FreshSnapshot
<1>2. CapUsable /\ MarketUsable /\ TablesUsable
  BY <1>1 DEF SnapshotBuilt, UsableSources, CapUsable, MarketUsable, TablesUsable
<1>3. Replays(FreshSnapshot(tree).cap) /\ Replays(FreshSnapshot(tree).market)
  BY DEF SnapshotBuilt, Agreeing, Replays
<1> QED BY <1>1, <1>2, <1>3 DEF SnapshotBuilt, Agreeing, OfThePackage

LEMMA SnapshotInputKeepsClean ==
    ASSUME IInv, CleanInv, SnapshotInput
    PROVE  CleanInv'
<1>1. task.pc = "input" /\ task.cmd # "idle"
  BY RunningIsNotIdle DEF IInv, SnapshotInput, At
<1>2. CASE CapUsable /\ Reads([input |-> tree.input], "replay")
  <2>1. ASSUME Clean, ~ Reproducing PROVE Doing'
    <3>1. task.cmd = "snapshot" /\ SnapshotDoing
      BY <1>1, <2>1, CleanBuild
    <3>2. /\ Proceeds /\ tree' = tree /\ host' = host /\ task'.pc = "replay"
      BY <1>1, <1>2, Reading DEF Steps, ServiceSteps
    <3>3. Holds(read', "input", tree.input)
      BY <1>2, WithNew DEF Reads
    <3>4. SnapshotDoing'
      BY <1>1, <1>2, <3>1, <3>2, <3>3, SameTree
         DEF SnapshotDoing, SnapshotFacts, SourceFacts, Replayed, Proceeds
    <3> QED BY <3>1, <3>2, <3>4 DEF Doing, Proceeds
  <2> QED BY <1>1, <1>2, <2>1, ReadsKeepClean
<1>3. CASE ~ CapUsable /\ Refuse
  <2>1. Clean => ~ Reproducing
    BY <1>3, CleanReproduction, BuiltIsUsable DEF Complete
  <2> QED BY <1>3, <2>1, RefusedIsUnclean
<1> QED BY <1>2, <1>3 DEF SnapshotInput, Load, Reads, CapUsable

LEMMA SnapshotReplayKeepsClean ==
    ASSUME IInv, CleanInv, SnapshotReplay
    PROVE  CleanInv'
<1>1. task.pc = "replay" /\ task.cmd # "idle"
  BY RunningIsNotIdle DEF IInv, SnapshotReplay, At
<1>2. CASE Replays(InputOf[read.input].cap) /\ Reads([registry |-> tree.registry], "market")
  <2>1. ASSUME Clean, ~ Reproducing PROVE Doing'
    <3>1. task.cmd = "snapshot" /\ SnapshotDoing
      BY <1>1, <2>1, CleanBuild
    <3>2. /\ Proceeds /\ tree' = tree /\ host' = host /\ task'.pc = "market"
      BY <1>1, <1>2, Reading DEF Steps, ServiceSteps
    <3>3. Holds(read, "input", tree.input)
      BY <1>1, <3>1 DEF SnapshotDoing, SnapshotFacts
    <3>4. Holds(read', "input", tree.input) /\ Holds(read', "registry", tree.registry)
      BY <1>2, <3>3, WithNew, WithOld DEF Reads
    <3>5. FreshSnapshot(tree).cap \in DOMAIN tree.releases
      BY <1>2, <3>3 DEF Holds, Replays, FreshSnapshot
    <3>6. SnapshotDoing'
      BY <1>1, <3>1, <3>2, <3>4, <3>5, SameTree
         DEF SnapshotDoing, SnapshotFacts, SourceFacts, Replayed, Proceeds
    <3> QED BY <3>1, <3>2, <3>6 DEF Doing, Proceeds
  <2> QED BY <1>1, <1>2, <2>1, ReadsKeepClean
<1>3. CASE ~ Replays(InputOf[read.input].cap) /\ Refuse
  <2>1. ASSUME Clean, Reproducing PROVE FALSE
    <3>1. Complete
      BY <2>1, CleanReproduction
    <3>2. read.input = tree.input
      BY <1>1, <3>1 DEF Complete, Facts, SnapshotFacts, Holds
    <3> QED BY <1>3, <3>1, <3>2, BuiltIsUsable DEF Complete
  <2> QED BY <1>3, <2>1, RefusedIsUnclean
<1> QED BY <1>2, <1>3 DEF SnapshotReplay, Load, Reads

LEMMA SnapshotMarketKeepsClean ==
    ASSUME IInv, CleanInv, SnapshotMarket
    PROVE  CleanInv'
<1> DEFINE ok == /\ Replays(InputOf[read.input].market)
                 /\ ReleaseUsable(InputOf[read.input].market, tree.suite, read.input)
<1>1. task.pc = "market" /\ task.cmd # "idle"
  BY RunningIsNotIdle DEF IInv, SnapshotMarket, At
<1>2. CASE ok /\ Reads([priceHash |-> tree.prices], "rows")
  <2>1. ASSUME Clean, ~ Reproducing PROVE Doing'
    <3>1. task.cmd = "snapshot" /\ SnapshotDoing
      BY <1>1, <2>1, CleanBuild
    <3>2. /\ Proceeds /\ tree' = tree /\ host' = host /\ task'.pc = "rows"
      BY <1>1, <1>2, Reading DEF Steps, ServiceSteps
    <3>3. Holds(read, "input", tree.input) /\ Holds(read, "registry", tree.registry)
      BY <1>1, <3>1 DEF SnapshotDoing, SnapshotFacts
    <3>4. /\ Holds(read', "input", tree.input) /\ Holds(read', "registry", tree.registry)
          /\ Holds(read', "priceHash", tree.prices)
      BY <1>2, <3>3, WithNew, WithOld DEF Reads
    <3>5. FreshSnapshot(tree).market \in DOMAIN tree.releases /\ MarketUsable
      BY <1>2, <3>3 DEF Holds, Replays, FreshSnapshot, MarketUsable
    <3>6. SnapshotDoing'
      BY <1>1, <3>1, <3>2, <3>4, <3>5, SameTree
         DEF SnapshotDoing, SnapshotFacts, SourceFacts, Replayed, Proceeds
    <3> QED BY <3>1, <3>2, <3>6 DEF Doing, Proceeds
  <2> QED BY <1>1, <1>2, <2>1, ReadsKeepClean
<1>3. CASE ~ ok /\ Refuse
  <2>1. ASSUME Clean, Reproducing PROVE FALSE
    <3>1. Complete
      BY <2>1, CleanReproduction
    <3>2. read.input = tree.input
      BY <1>1, <3>1 DEF Complete, Facts, SnapshotFacts, Holds
    <3> QED BY <1>3, <3>1, <3>2, BuiltIsUsable DEF Complete, MarketUsable
  <2> QED BY <1>3, <2>1, RefusedIsUnclean
<1> QED BY <1>2, <1>3 DEF SnapshotMarket, Load, Reads

LEMMA SnapshotRowsKeepsClean ==
    ASSUME IInv, CleanInv, SnapshotRows
    PROVE  CleanInv'
<1> DEFINE ok == /\ PricesUsable(tree.prices, tree.bindings, InputOf[read.input].cap)
                 /\ PricingUsable(read.registry, InputOf[read.input].cap)
                 /\ RowsValid(BuiltSnapshot)
<1>1. task.pc = "rows" /\ task.cmd # "idle"
  BY RunningIsNotIdle DEF IInv, SnapshotRows, At
<1>2. ASSUME SnapshotFacts
      PROVE  BuiltSnapshot = FreshSnapshot(tree) /\ (ok <=> TablesUsable)
  <2>1. /\ read.input = tree.input /\ read.registry = tree.registry
        /\ read.priceHash = tree.prices
    BY <1>1, <1>2 DEF SnapshotFacts, Holds
  <2>2. BuiltSnapshot = FreshSnapshot(tree)
    BY <2>1 DEF BuiltSnapshot, FreshSnapshot
  <2> QED BY <2>1, <2>2 DEF TablesUsable
<1>3. CASE ok /\ Reads([built |-> BuiltSnapshot], "built")
  <2>1. ASSUME Clean, ~ Reproducing PROVE Doing'
    <3>1. task.cmd = "snapshot" /\ SnapshotDoing
      BY <1>1, <2>1, CleanBuild
    <3>2. /\ Proceeds /\ tree' = tree /\ host' = host /\ task'.pc = "built"
      BY <1>1, <1>3, Reading DEF Steps, ServiceSteps
    <3>3. BuiltSnapshot = FreshSnapshot(tree) /\ TablesUsable
      BY <1>2, <1>3, <3>1 DEF SnapshotDoing
    <3>4. Holds(read', "built", BuiltSnapshot)
      BY <1>3, WithNew DEF Reads
    <3>5. SnapshotDoing'
      BY <1>1, <3>1, <3>2, <3>3, <3>4, SameTree
         DEF SnapshotDoing, SnapshotFacts, SourceFacts, Replayed, Proceeds
    <3> QED BY <3>1, <3>2, <3>5 DEF Doing, Proceeds
  <2> QED BY <1>1, <1>3, <2>1, ReadsKeepClean
<1>4. CASE ~ ok /\ Refuse
  <2>1. ASSUME Clean, Reproducing PROVE FALSE
    <3>1. Complete
      BY <2>1, CleanReproduction
    <3>2. TablesUsable
      BY <3>1, BuiltIsUsable DEF Complete
    <3>3. SnapshotFacts
      BY <3>1 DEF Complete, Facts
    <3> QED BY <1>2, <1>4, <3>2, <3>3
  <2> QED BY <1>4, <2>1, RefusedIsUnclean
<1> QED BY <1>3, <1>4 DEF SnapshotRows, Load, Reads

LEMMA SnapshotDoneKeepsClean ==
    ASSUME IInv, CleanInv, SnapshotDone
    PROVE  CleanInv'
<1> DEFINE ok == /\ <<read.built.cap, read.built.market>>
                        = <<read.package.cap, read.package.market>>
                 /\ tree.snapshot = {read.built}
           next == IF Dividend THEN "charts" ELSE "writer"
<1>1. task.pc = "built" /\ task.cmd # "idle"
  BY RunningIsNotIdle DEF IInv, SnapshotDone, At
<1>2. CASE ~ Reproducing /\ Publish("snapshot", read.built)
  <2>1. ASSUME Clean, SourcesStay, task'.stage = task.stage + 1 PROVE Progress'
    <3>1. SnapshotDoing
      BY <1>1, <1>2, <2>1, CleanBuild
    <3>2. /\ task.stage = 1 /\ read.built = FreshSnapshot(tree) /\ UsableSources(tree)
          /\ {FreshSnapshot(tree).cap, FreshSnapshot(tree).market} \subseteq DOMAIN tree.releases
      <4>1. /\ task.stage = 1 /\ read.built = FreshSnapshot(tree)
            /\ {FreshSnapshot(tree).cap, FreshSnapshot(tree).market}
                  \subseteq DOMAIN tree.releases
            /\ CapUsable /\ MarketUsable /\ TablesUsable
        BY <1>1, <3>1 DEF SnapshotDoing, SnapshotFacts, SourceFacts, Replayed, Holds
      <4>2. \A id \in {InputOf[tree.input].cap, InputOf[tree.input].market} :
               ReleaseUsable(id, tree.suite, tree.input)
        BY <4>1 DEF CapUsable, MarketUsable
      <4> QED BY <4>1, <4>2 DEF TablesUsable, UsableSources
    <3>3. tree'.snapshot = {read.built}
      BY <1>2 DEF Publish, IInv, PublicationTypeOK, TreeOK, Derived
    <3>4. SameBuild
      BY <2>1, SourcesDecide
    <3>5. SnapshotBuilt(tree')
      BY <3>2, <3>3, <3>4 DEF SnapshotBuilt, SameBuild
    <3> QED BY <2>1, <3>2, <3>5 DEF Progress
  <2> QED BY <1>1, <1>2, <2>1, PublishKeepsClean DEF Derived
<1>3. CASE Reproducing /\ Passes(next)
  <2> QED BY <1>1, <1>3, ReadsKeepClean
<1>4. CASE Reproducing /\ ~ ok /\ Refuse
  <2>1. ASSUME Clean PROVE FALSE
    <3>1. Complete
      BY <1>4, <2>1, CleanReproduction
    <3>2. /\ read.built = FreshSnapshot(tree) /\ read.package = tree.package
      BY <1>1, <3>1 DEF Complete, Facts, SnapshotFacts, PackageFacts, Holds
    <3> QED BY <1>4, <3>1, <3>2, BuiltIsUsable DEF Complete, OfThePackage
  <2> QED BY <1>4, <2>1, RefusedIsUnclean
<1> QED BY <1>2, <1>3, <1>4 DEF SnapshotDone, Check, Passes

LEMMA WriterInputStartKeepsClean ==
    ASSUME IInv, CleanInv, WriterInputStart
    PROVE  CleanInv'
<1> DEFINE values == [wsnapshot |-> Only(tree.snapshot), wprofile |-> tree.profile]
<1>1. task.pc = "writer" /\ task.cmd # "idle"
  BY RunningIsNotIdle DEF IInv, WriterInputStart, At
<1>2. CASE tree.snapshot # {} /\ Reads(values, "sources")
  <2>1. ASSUME Clean, ~ Reproducing PROVE Doing'
    <3>1. (task.cmd = "writer" /\ WriterDoing) \/ (task.cmd = "article" /\ ArticleDoing)
      BY <1>1, <2>1, CleanBuild
    <3>2. /\ Proceeds /\ tree' = tree /\ host' = host /\ task'.pc = "sources"
          /\ task'.ret = task.ret
      BY <1>1, <1>2, Reading DEF Steps, ServiceSteps
    <3>3. Only(tree.snapshot) = FreshSnapshot(tree)
      <4>1. task.stage >= 2 /\ Progress
        BY <2>1, <3>1 DEF CleanInv, WriterDoing, ArticleDoing
      <4> QED BY <4>1, OnlyValue DEF Progress, SnapshotBuilt
    <3>4. /\ Holds(read', "wsnapshot", FreshSnapshot(tree))
          /\ Holds(read', "wprofile", tree.profile)
      <4>1. /\ values.wsnapshot = FreshSnapshot(tree) /\ values.wprofile = tree.profile
            /\ {"wsnapshot", "wprofile"} \subseteq DOMAIN values
        BY <3>3
      <4> QED BY <1>2, <4>1, WithNew DEF Reads
    <3>5. \A v : \A f \in {"snapshot", "profile"} : Holds(read, f, v) => Holds(read', f, v)
      BY <1>2, WithOld DEF Reads
    <3>6. WriterRead'
      BY <3>2, <3>4 DEF WriterRead
    <3> HIDE DEF values
    <3>7. CASE task.cmd = "writer" /\ WriterDoing
      <4>1. WriterDoing'
        BY <3>2, <3>6, <3>7, SameTree DEF WriterDoing, Proceeds
      <4> QED BY <3>2, <3>7, <4>1 DEF Doing, Proceeds
    <3>8. CASE task.cmd = "article" /\ ArticleDoing
      <4>1. ArticleRead'
        BY <1>1, <3>2, <3>5, <3>6, <3>8, SameTree DEF ArticleDoing, ArticleRead
      <4>2. ArticleDoing'
        BY <1>1, <3>2, <3>8, <4>1, SameTree DEF ArticleDoing, ArticleWritten, Proceeds
      <4> QED BY <3>2, <3>8, <4>2 DEF Doing, Proceeds
    <3> QED BY <3>1, <3>7, <3>8
  <2> QED BY <1>1, <1>2, <2>1, ReadsKeepClean
<1>3. CASE tree.snapshot = {} /\ Refuse
  <2>1. Clean => ~ Reproducing
    BY <1>3, CleanReproduction, BuiltIsUsable DEF Complete
  <2> QED BY <1>3, <2>1, RefusedIsUnclean
<1> QED BY <1>2, <1>3 DEF WriterInputStart, Load, Reads

LEMMA WriterReleasesKeepsClean ==
    ASSUME IInv, CleanInv, WriterReleases
    PROVE  CleanInv'
<1> DEFINE input == WriterInput(read.wsnapshot, read.wprofile)
           ok == /\ \A id \in ProfileOf[read.wprofile].releases : Replays(id)
                 /\ WriterReleasesMatch(read.wsnapshot, read.wprofile)
<1>1. task.pc = "sources" /\ task.cmd # "idle" /\ task.ret \in {"prepared", "editorial"}
  BY RunningIsNotIdle DEF IInv, WriterReleases, At, PublicationTypeOK, Tasks
<1>2. CASE ok /\ Reads([writer |-> input], task.ret)
  <2>1. ASSUME Clean, ~ Reproducing PROVE Doing'
    <3>1. (task.cmd = "writer" /\ WriterDoing) \/ (task.cmd = "article" /\ ArticleDoing)
      BY <1>1, <2>1, CleanBuild
    <3>2. /\ Proceeds /\ tree' = tree /\ host' = host /\ task'.pc = task.ret
          /\ task'.ret = task.ret
      <4>1. task.ret \in Steps /\ task.ret \notin ServiceSteps
        BY <1>1 DEF Steps, ServiceSteps
      <4> QED BY <1>1, <1>2, <4>1, Reading
    <3>3. read.wsnapshot = FreshSnapshot(tree) /\ read.wprofile = tree.profile
      BY <1>1, <3>1 DEF WriterDoing, ArticleDoing, ArticleRead, WriterRead, Holds
    <3>4. input = FreshWriter /\ WriterReleasesMatch(FreshSnapshot(tree), tree.profile)
      BY <1>2, <3>3 DEF FreshWriter
    <3> HIDE DEF input
    <3>5. Holds(read', "writer", FreshWriter)
      BY <1>2, <3>4, WithNew DEF Reads
    <3>6. \A v : \A f \in {"snapshot", "profile"} : Holds(read, f, v) => Holds(read', f, v)
      BY <1>2, WithOld DEF Reads
    <3>7. CASE task.cmd = "writer" /\ WriterDoing
      <4>1. WriterDoing'
        BY <1>1, <3>2, <3>4, <3>5, <3>7, SameTree DEF WriterDoing, WriterRead, Proceeds
      <4> QED BY <3>2, <3>7, <4>1 DEF Doing, Proceeds
    <3>8. CASE task.cmd = "article" /\ ArticleDoing
      <4>1. task.ret = "editorial"
        BY <1>1, <3>8 DEF ArticleDoing, ArticleRead
      <4>2. ArticleRead'
        BY <1>1, <3>2, <3>5, <3>6, <3>8, <4>1, SameTree
           DEF ArticleDoing, ArticleRead, WriterRead
      <4>3. ArticleDoing'
        BY <1>1, <3>2, <3>8, <4>1, <4>2, SameTree DEF ArticleDoing, ArticleWritten, Proceeds
      <4> QED BY <3>2, <3>8, <4>3 DEF Doing, Proceeds
    <3> QED BY <3>1, <3>7, <3>8
  <2> QED BY <1>1, <1>2, <2>1, ReadsKeepClean
<1>3. CASE ~ ok /\ Refuse
  <2>1. ASSUME Clean, Reproducing PROVE FALSE
    <3>1. Complete
      BY <2>1, CleanReproduction
    <3>2. ~ Dividend /\ read.wsnapshot = FreshSnapshot(tree) /\ read.wprofile = tree.profile
      BY <1>1, <3>1 DEF Complete, Facts, WriterFacts, Holds
    <3>3. WriterReleasesMatch(FreshSnapshot(tree), tree.profile)
      BY <3>1, <3>2 DEF Complete, WriterBuilt
    <3>4. \A id \in ProfileOf[tree.profile].releases : Replays(id)
      BY <3>1, <3>3, BuiltIsUsable DEF Complete, WriterReleasesMatch
    <3> QED BY <1>3, <3>2, <3>3, <3>4
  <2> QED BY <1>3, <2>1, RefusedIsUnclean
<1> QED BY <1>2, <1>3 DEF WriterReleases, Load, Reads

LEMMA WriterDoneKeepsClean ==
    ASSUME IInv, CleanInv, WriterDone
    PROVE  CleanInv'
<1> DEFINE next == IF Renderer = 1 THEN "recorded" ELSE "load"
<1>1. task.pc = "prepared" /\ task.cmd # "idle"
  BY RunningIsNotIdle DEF IInv, WriterDone, At
<1>2. CASE ~ Reproducing /\ Publish("writer", read.writer)
  <2>1. ASSUME Clean, SourcesStay, task'.stage = task.stage + 1 PROVE Progress'
    <3>1. WriterDoing /\ Progress
      BY <1>1, <1>2, <2>1, CleanBuild DEF CleanInv
    <3>2. /\ task.stage = 2 /\ ~ Dividend /\ read.writer = FreshWriter
          /\ WriterReleasesMatch(FreshSnapshot(tree), tree.profile)
      BY <1>1, <3>1 DEF WriterDoing, Holds
    <3>3. SnapshotBuilt(tree)
      BY <3>1, <3>2 DEF Progress
    <3>4. tree'.writer = {read.writer} /\ tree'.snapshot = tree.snapshot
      BY <1>2 DEF Publish, IInv, PublicationTypeOK, TreeOK, Derived
    <3>5. SameBuild
      BY <2>1, SourcesDecide
    <3>6. SnapshotBuilt(tree') /\ WriterBuilt(tree') /\ ~ Dividend'
      BY <3>2, <3>3, <3>4, <3>5 DEF SnapshotBuilt, WriterBuilt, SameBuild, FreshWriter
    <3> QED BY <2>1, <3>2, <3>6 DEF Progress
  <2> QED BY <1>1, <1>2, <2>1, PublishKeepsClean DEF Derived
<1>3. CASE Reproducing /\ Passes(next)
  <2>1. Clean => next = "load"
    BY DEF Clean
  <2> HIDE DEF next
  <2> QED BY <1>1, <1>3, <2>1, ReadsKeepClean
<1>4. CASE Reproducing /\ tree.writer # {read.writer} /\ Refuse
  <2>1. ASSUME Clean PROVE FALSE
    <3>1. Complete
      BY <1>4, <2>1, CleanReproduction
    <3>2. ~ Dividend /\ read.writer = FreshWriter
      BY <1>1, <3>1 DEF Complete, Facts, WriterFacts, Holds
    <3> QED BY <1>4, <3>1, <3>2 DEF Complete, WriterBuilt, FreshWriter
  <2> QED BY <1>4, <2>1, RefusedIsUnclean
<1> QED BY <1>2, <1>3, <1>4 DEF WriterDone, Check, Passes

(* The second renderer does not compare recorded inputs. *)
LEMMA RecordedInputsKeepsClean ==
    ASSUME IInv, CleanInv, RecordedInputs
    PROVE  CleanInv'
<1>1. task.pc = "recorded" /\ task.cmd # "idle"
  BY RunningIsNotIdle DEF IInv, RecordedInputs, At
<1>2. ~ Clean
  <2> SUFFICES ASSUME Clean PROVE FALSE
    OBVIOUS
  <2>1. Reproducing
    BY <1>1 DEF IInv, ReproductionInv, ServiceSteps
  <2>2. ServiceDoing
    BY <2>1, CleanReproduction DEF Complete
  <2> QED BY <1>1, <2>2 DEF ServiceDoing
<1>3. Refuse \/ Passes("load")
  BY DEF RecordedInputs, Check, Passes
<1>4. CASE Passes("load")
  BY <1>1, <1>2, <1>4, ReadsKeepClean
<1>5. CASE Refuse
  BY <1>2, <1>5, RefusedIsUnclean
<1> QED BY <1>3, <1>4, <1>5

LEMMA ArticleLoadKeepsClean ==
    ASSUME IInv, CleanInv, ArticleLoad
    PROVE  CleanInv'
<1> DEFINE values == [snapshot |-> Only(tree.snapshot), profile |-> tree.profile]
           ok == tree.snapshot # {} /\ Publishable(Only(tree.snapshot), tree.profile)
<1>1. task.pc = "load" /\ task.cmd # "idle"
  BY RunningIsNotIdle DEF IInv, ArticleLoad, At
<1>2. CASE /\ ok /\ read' = With(values, read)
           /\ task' = [task EXCEPT !.pc = "writer", !.ret = "editorial"]
           /\ tree' = tree /\ Calm
  <2>1. /\ task'.cmd = task.cmd /\ task'.stage = task.stage
        /\ task'.pc = "writer" /\ task'.ret = "editorial"
    BY <1>2 DEF IInv, PublicationTypeOK, Tasks
  <2>2. tree' = tree /\ host' = host /\ history' = history
    BY <1>2 DEF Calm
  <2>3. ASSUME Clean'
        PROVE  "rejected" \notin history' /\ Progress' /\ Doing'
    <3>1. Clean
      BY <2>2, <2>3, SameTreeStays, CleanBefore
    <3>2. "rejected" \notin history /\ Progress /\ Doing
      BY <3>1 DEF CleanInv
    <3>3. Progress'
      BY <2>1, <2>2, <3>2, SameTreeProgress
    <3>4. CASE Reproducing
      <4>1. ServiceDoing
        BY <3>2, <3>4 DEF Doing, Reproducing
      <4>2. ServiceDoing'
        BY <2>1, <2>2, <4>1 DEF ServiceDoing, Commands, Dividend
      <4> QED BY <2>1, <2>2, <3>2, <3>3, <3>4, <4>2 DEF Doing, Reproducing
    <3>5. CASE ~ Reproducing
      <4>1. task.cmd = "article" /\ ArticleDoing
        BY <1>1, <3>1, <3>5, CleanBuild
      <4>2. Only(tree.snapshot) = FreshSnapshot(tree)
        <5>1. task.stage >= 2
          BY <4>1 DEF ArticleDoing
        <5>2. tree.snapshot = {FreshSnapshot(tree)}
          BY <3>2, <5>1 DEF Progress, SnapshotBuilt
        <5> QED BY <5>2, OnlyValue
      <4>3. /\ Holds(read', "snapshot", FreshSnapshot(tree))
            /\ Holds(read', "profile", tree.profile)
        <5>1. /\ values.snapshot = FreshSnapshot(tree) /\ values.profile = tree.profile
              /\ {"snapshot", "profile"} \subseteq DOMAIN values
          BY <4>2
        <5> HIDE DEF values
        <5> QED BY <1>2, <5>1, WithNew
      <4>4. Publishable(FreshSnapshot(tree), tree.profile)
        BY <1>2, <4>2
      <4> HIDE DEF values, ok
      <4>5. ArticleRead'
        BY <2>1, <2>2, <4>3, <4>4, SameTree DEF ArticleRead, WriterRead
      <4>6. ArticleDoing'
        BY <2>1, <2>2, <4>1, <4>5, SameTree DEF ArticleDoing, ArticleWritten
      <4> QED BY <2>1, <2>2, <3>2, <3>3, <4>1, <4>6 DEF Doing
    <3> QED BY <3>4, <3>5
  <2>4. Whole'
    BY <2>2, SameTreeStays, WholeStays
  <2> QED BY <2>2, <2>3, <2>4 DEF CleanInv
<1>3. CASE ~ ok /\ Refuse
  <2>1. ASSUME Clean, Reproducing PROVE FALSE
    <3>1. Complete
      BY <2>1, CleanReproduction
    <3>2. ~ Dividend
      BY <1>1, <3>1 DEF Complete, Facts, WriterFacts
    <3>3. Publishable(FreshSnapshot(tree), tree.profile)
      BY <3>1, <3>2 DEF Complete, ArticleBuilt
    <3> QED BY <1>3, <3>1, <3>3, BuiltIsUsable, OnlyValue DEF Complete
  <2> QED BY <1>3, <2>1, RefusedIsUnclean
<1> QED BY <1>2, <1>3 DEF ArticleLoad

LEMMA ArticleEditorialKeepsClean ==
    ASSUME IInv, CleanInv, ArticleEditorial
    PROVE  CleanInv'
<1> DEFINE values == [editorial |-> Only(tree.editorial)]
           ok == /\ tree.writer = {read.writer} /\ tree.editorial # {}
                 /\ EditorialAdmitted(Only(tree.editorial), read.writer)
<1>1. task.pc = "editorial" /\ task.cmd # "idle"
  BY RunningIsNotIdle DEF IInv, ArticleEditorial, At
<1>2. CASE ok /\ Reads(values, "facts")
  <2>1. ASSUME Clean, ~ Reproducing PROVE Doing'
    <3>1. task.cmd = "article" /\ ArticleDoing
      BY <1>1, <2>1, CleanBuild
    <3>2. /\ Proceeds /\ tree' = tree /\ host' = host /\ task'.pc = "facts"
          /\ task'.ret = task.ret
      BY <1>1, <1>2, Reading DEF Steps, ServiceSteps
    <3>3. Holds(read', "editorial", Only(tree.editorial))
      BY <1>2, WithNew DEF Reads
    <3>4. \A v : \A f \in {"snapshot", "profile", "writer"} :
             Holds(read, f, v) => Holds(read', f, v)
      BY <1>2, WithOld DEF Reads
    <3>5. read.writer = FreshWriter
      BY <1>1, <3>1 DEF ArticleDoing, ArticleRead, Holds
    <3>6. ArticleRead'
      BY <1>1, <1>2, <3>1, <3>2, <3>3, <3>4, <3>5, SameTree
         DEF ArticleDoing, ArticleRead, WriterRead
    <3>7. ArticleDoing'
      BY <1>1, <3>1, <3>2, <3>6, SameTree DEF ArticleDoing, ArticleWritten, Proceeds
    <3> QED BY <3>1, <3>2, <3>7 DEF Doing, Proceeds
  <2> QED BY <1>1, <1>2, <2>1, ReadsKeepClean
<1>3. CASE ~ ok /\ Refuse
  <2>1. ASSUME Clean, Reproducing PROVE FALSE
    <3>1. Complete
      BY <2>1, CleanReproduction
    <3>2. ~ Dividend /\ read.writer = FreshWriter
      BY <1>1, <3>1 DEF Complete, Facts, WriterFacts, Holds
    <3> QED BY <1>3, <3>1, <3>2 DEF Complete, WriterBuilt, ArticleBuilt, FreshWriter
  <2> QED BY <1>3, <2>1, RefusedIsUnclean
<1> QED BY <1>2, <1>3 DEF ArticleEditorial, Load, Reads

(* The article command goes on writing. *)
ArticleGoesOn(f, v, next) ==
    /\ task.cmd = "article" /\ ArticleDoing /\ SameBuild
    /\ ArticleRead' /\ task'.pc = next /\ task'.stage = 4 /\ ~ Dividend'
    /\ host' = host /\ tree'[f] = {v}
    /\ \A g \in Derived \ {f} : tree'[g] = tree[g]

LEMMA ArticleProduces ==
    ASSUME IInv, CleanInv, Clean, ~ Reproducing, SourcesStay, task.pc \in Approved,
           NEW f \in {"facts", "charts", "article", "manifest"}, NEW v,
           NEW next \in Approved \ {"compare", "guide"}, Produce(f, v, next)
    PROVE  ArticleGoesOn(f, v, next)
<1>1. task.pc # "-" /\ task.cmd # "idle"
  BY RunningIsNotIdle DEF IInv
<1>2. task.cmd = "article" /\ ArticleDoing
  BY <1>1, CleanBuild
<1>3. /\ host' = host /\ read' = read /\ tree' = [tree EXCEPT ![f] = {v}]
      /\ task' = [task EXCEPT !.pc = next]
  BY DEF Produce, Write, Goto, Calm
<1>4. task'.pc = next /\ task'.ret = task.ret /\ task'.stage = task.stage
  BY <1>3 DEF IInv, PublicationTypeOK, Tasks
<1>5. f \in Derived /\ f # "editorial" /\ TreeOK(tree)
  BY DEF Derived, IInv, PublicationTypeOK
<1>6. tree'[f] = {v} /\ \A g \in Derived \ {f} : tree'[g] = tree[g]
  BY <1>3, <1>5, OneFileStays
<1>7. tree'.editorial = tree.editorial
  BY <1>5, <1>6 DEF Derived
<1>8. SameBuild
  BY SourcesDecide
<1>9. ArticleRead /\ task.stage = 4 /\ ~ Dividend
  BY <1>2 DEF ArticleDoing
<1>10. ArticleRead'
  BY <1>3, <1>4, <1>7, <1>8, <1>9 DEF ArticleRead, WriterRead, SameBuild
<1> QED BY <1>2, <1>3, <1>4, <1>6, <1>8, <1>9, <1>10 DEF ArticleGoesOn, SameBuild

LEMMA WriteFactsKeepsClean ==
    ASSUME IInv, CleanInv, WriteFacts
    PROVE  CleanInv'
<1> DEFINE facts == ArticleFacts(read.snapshot, read.profile)
<1>1. task.pc = "facts" /\ task.cmd # "idle" /\ Produce("facts", facts, "draw")
  BY RunningIsNotIdle DEF IInv, WriteFacts, At
<1>2. ASSUME Clean, ~ Reproducing, SourcesStay PROVE task.cmd = "article" /\ ArticleDoing'
  <2> HIDE DEF facts
  <2>1. ArticleGoesOn("facts", facts, "draw")
    BY <1>1, <1>2, ArticleProduces
  <2>2. facts = FreshFacts
    BY <1>1, <2>1 DEF ArticleGoesOn, ArticleDoing, ArticleRead, Holds, FreshFacts, facts
  <2> QED BY <2>1, <2>2 DEF ArticleGoesOn, ArticleDoing, ArticleWritten, SameBuild
<1> QED BY <1>1, <1>2, ProduceKeepsClean

LEMMA WriteChartsKeepsClean ==
    ASSUME IInv, CleanInv, WriteCharts
    PROVE  CleanInv'
<1> DEFINE charts == Drawn(Charts(read.snapshot, read.profile, 1), Platform)
<1>1. task.pc = "draw" /\ task.cmd # "idle" /\ Produce("charts", charts, "text")
  BY RunningIsNotIdle DEF IInv, WriteCharts, At
<1>2. ASSUME Clean, ~ Reproducing, SourcesStay PROVE task.cmd = "article" /\ ArticleDoing'
  <2> HIDE DEF charts
  <2>1. ArticleGoesOn("charts", charts, "text")
    BY <1>1, <1>2, ArticleProduces
  <2>2. charts = Picture(1)
    BY <1>1, <1>2, <2>1
       DEF ArticleGoesOn, ArticleDoing, ArticleRead, Holds, Picture, Platform, charts
  <2>3. tree.facts = {FreshFacts} /\ tree'.facts = tree.facts
    BY <1>1, <2>1 DEF ArticleGoesOn, ArticleDoing, ArticleWritten, Derived
  <2> QED BY <2>1, <2>2, <2>3 DEF ArticleGoesOn, ArticleDoing, ArticleWritten, SameBuild
<1> QED BY <1>1, <1>2, ProduceKeepsClean

LEMMA WriteArticleKeepsClean ==
    ASSUME IInv, CleanInv, WriteArticle
    PROVE  CleanInv'
<1> DEFINE article == Article(ArticleFacts(read.snapshot, read.profile),
                              read.editorial, read.writer, 1)
<1>1. task.pc = "text" /\ task.cmd # "idle" /\ Produce("article", article, "manifest")
  BY RunningIsNotIdle DEF IInv, WriteArticle, At
<1>2. ASSUME Clean, ~ Reproducing, SourcesStay PROVE task.cmd = "article" /\ ArticleDoing'
  <2> HIDE DEF article
  <2>1. ArticleGoesOn("article", article, "manifest")
    BY <1>1, <1>2, ArticleProduces
  <2>2. article = FreshArticle(tree, Only(tree.editorial), 1)
    BY <1>1, <1>2, <2>1
       DEF ArticleGoesOn, ArticleDoing, ArticleRead, Holds, FreshArticle, FreshWriter, article
  <2>3. /\ tree.facts = {FreshFacts} /\ tree'.facts = tree.facts
        /\ tree.charts = {Picture(1)} /\ tree'.charts = tree.charts
        /\ tree'.editorial = tree.editorial
    BY <1>1, <2>1 DEF ArticleGoesOn, ArticleDoing, ArticleWritten, Derived
  <2> QED BY <2>1, <2>2, <2>3 DEF ArticleGoesOn, ArticleDoing, ArticleWritten, SameBuild
<1> QED BY <1>1, <1>2, ProduceKeepsClean

(* What the article command finds of the earlier commands. *)
LEMMA ArticleInputs ==
    ASSUME CleanInv, Clean, ArticleDoing
    PROVE  /\ SnapshotBuilt(tree) /\ WriterBuilt(tree)
           /\ Only(tree.snapshot) = FreshSnapshot(tree) /\ Only(tree.writer) = FreshWriter
<1>1. Progress /\ task.stage >= 3 /\ task.stage >= 2 /\ ~ Dividend
  BY DEF CleanInv, ArticleDoing
<1>2. SnapshotBuilt(tree) /\ WriterBuilt(tree)
  BY <1>1 DEF Progress
<1>3. tree.snapshot = {FreshSnapshot(tree)} /\ tree.writer = {FreshWriter}
  BY <1>2 DEF SnapshotBuilt, WriterBuilt, FreshWriter
<1> QED BY <1>2, <1>3, OnlyValue

LEMMA WriteManifestKeepsClean ==
    ASSUME IInv, CleanInv, WriteManifest
    PROVE  CleanInv'
<1> DEFINE manifest == Manifest(CurrentInputs, Out("charts"), 1)
           next == IF Reproducing /\ Renderer = 1 THEN "compare" ELSE "redraw"
<1>1. task.pc = "manifest" /\ task.cmd # "idle" /\ Produce("manifest", manifest, next)
  BY RunningIsNotIdle DEF IInv, WriteManifest, At
<1>2. ASSUME Clean, ~ Reproducing, SourcesStay PROVE task.cmd = "article" /\ ArticleDoing'
  <2> HIDE DEF manifest
  <2>1. Produce("manifest", manifest, "redraw")
    BY <1>1, <1>2
  <2>2. ArticleGoesOn("manifest", manifest, "redraw")
    BY <1>1, <1>2, <2>1, ArticleProduces
  <2>3. /\ tree.facts = {FreshFacts} /\ tree'.facts = tree.facts
        /\ tree.charts = {Picture(1)} /\ tree'.charts = tree.charts
        /\ tree.article = {FreshArticle(tree, Only(tree.editorial), 1)}
        /\ tree'.article = tree.article /\ tree'.editorial = tree.editorial
    BY <1>1, <2>2 DEF ArticleGoesOn, ArticleDoing, ArticleWritten, Derived
  <2>4. Out("facts") = FreshFacts /\ Out("charts") = Picture(1)
    BY <1>2, <2>3, OnlyValue DEF Out
  <2>5. Only(tree.snapshot) = FreshSnapshot(tree) /\ Only(tree.writer) = FreshWriter
    BY <1>2, <2>2, ArticleInputs DEF ArticleGoesOn
  <2>6. manifest = Manifest(FreshInputs(tree, Only(tree.editorial)), Picture(1), 1)
    BY <2>4, <2>5 DEF manifest, CurrentInputs, FreshInputs, FreshFacts, FreshWriter
  <2> QED BY <2>2, <2>3, <2>6 DEF ArticleGoesOn, ArticleDoing, ArticleWritten, SameBuild
<1>3. Clean => next = "redraw"
  BY DEF Clean
<1> HIDE DEF manifest, next
<1> QED BY <1>1, <1>2, <1>3, ProduceKeepsClean

LEMMA RedrawKeepsClean ==
    ASSUME IInv, CleanInv, Redraw
    PROVE  CleanInv'
<1> DEFINE charts == Drawn(Charts(Only(tree.snapshot), tree.profile, 2), Platform)
<1>1. task.pc = "redraw" /\ task.cmd # "idle" /\ Produce("charts", charts, "reword")
  BY RunningIsNotIdle DEF IInv, Redraw, At
<1>2. ASSUME Clean, ~ Reproducing, SourcesStay PROVE task.cmd = "article" /\ ArticleDoing'
  <2> HIDE DEF charts
  <2>1. ArticleGoesOn("charts", charts, "reword")
    BY <1>1, <1>2, ArticleProduces
  <2>2. Only(tree.snapshot) = FreshSnapshot(tree)
    BY <1>2, <2>1, ArticleInputs DEF ArticleGoesOn
  <2>3. charts = Picture(2)
    BY <1>2, <2>2 DEF Picture, Platform, charts
  <2>4. /\ tree.facts = {FreshFacts} /\ tree'.facts = tree.facts
        /\ tree.article = {FreshArticle(tree, Only(tree.editorial), 1)}
        /\ tree'.article = tree.article /\ tree'.editorial = tree.editorial
        /\ tree.manifest = {Manifest(FreshInputs(tree, Only(tree.editorial)), Picture(1), 1)}
        /\ tree'.manifest = tree.manifest
    BY <1>1, <2>1 DEF ArticleGoesOn, ArticleDoing, ArticleWritten, Derived
  <2> QED BY <2>1, <2>3, <2>4 DEF ArticleGoesOn, ArticleDoing, ArticleWritten, SameBuild
<1> QED BY <1>1, <1>2, ProduceKeepsClean

LEMMA RewordKeepsClean ==
    ASSUME IInv, CleanInv, Reword
    PROVE  CleanInv'
<1> DEFINE article == [Out("article") EXCEPT !.renderer = 2]
<1>1. task.pc = "reword" /\ task.cmd # "idle" /\ Produce("article", article, "remanifest")
  BY RunningIsNotIdle DEF IInv, Reword, At
<1>2. ASSUME Clean, ~ Reproducing, SourcesStay PROVE task.cmd = "article" /\ ArticleDoing'
  <2> HIDE DEF article
  <2>1. ArticleGoesOn("article", article, "remanifest")
    BY <1>1, <1>2, ArticleProduces
  <2>2. /\ tree.facts = {FreshFacts} /\ tree'.facts = tree.facts
        /\ tree.charts = {Picture(2)} /\ tree'.charts = tree.charts
        /\ tree.article = {FreshArticle(tree, Only(tree.editorial), 1)}
        /\ tree'.editorial = tree.editorial
        /\ tree.manifest = {Manifest(FreshInputs(tree, Only(tree.editorial)), Picture(1), 1)}
        /\ tree'.manifest = tree.manifest
    BY <1>1, <2>1 DEF ArticleGoesOn, ArticleDoing, ArticleWritten, Derived
  <2>3. Out("article") = FreshArticle(tree, Only(tree.editorial), 1)
    BY <1>2, <2>2, OnlyValue DEF Out
  <2>4. article = FreshArticle(tree, Only(tree.editorial), 2)
    BY <2>3 DEF article, FreshArticle, Article
  <2> QED BY <2>1, <2>2, <2>4 DEF ArticleGoesOn, ArticleDoing, ArticleWritten, SameBuild
<1> QED BY <1>1, <1>2, ProduceKeepsClean

LEMMA RemanifestKeepsClean ==
    ASSUME IInv, CleanInv, Remanifest
    PROVE  CleanInv'
<1> DEFINE manifest == [Out("manifest") EXCEPT !.renderer = 2, !.charts = Out("charts")]
<1>1. task.pc = "remanifest" /\ task.cmd # "idle"
  BY RunningIsNotIdle DEF IInv, Remanifest, At
<1>2. CASE Reproducing /\ Produce("manifest", manifest, "compare")
  <2> HIDE DEF manifest
  <2> QED BY <1>1, <1>2, ProduceKeepsClean
<1>3. CASE ~ Reproducing /\ Publish("manifest", manifest)
  <2> HIDE DEF manifest
  <2>1. ASSUME Clean, SourcesStay, task'.stage = task.stage + 1 PROVE Progress'
    <3>1. ArticleDoing
      BY <1>1, <1>3, <2>1, CleanBuild
    <3>2. /\ SnapshotBuilt(tree) /\ WriterBuilt(tree) /\ ~ Dividend /\ task.stage = 4
      BY <2>1, <3>1, ArticleInputs DEF ArticleDoing
    <3>3. /\ tree.facts = {FreshFacts} /\ tree.charts = {Picture(2)}
          /\ tree.article = {FreshArticle(tree, Only(tree.editorial), 2)}
          /\ tree.manifest = {Manifest(FreshInputs(tree, Only(tree.editorial)), Picture(1), 1)}
      BY <1>1, <3>1 DEF ArticleDoing, ArticleWritten
    <3>4. /\ Publishable(FreshSnapshot(tree), tree.profile) /\ tree.editorial # {}
          /\ EditorialAdmitted(Only(tree.editorial), FreshWriter)
      BY <1>1, <3>1 DEF ArticleDoing, ArticleRead
    <3>5. /\ Out("manifest") = Manifest(FreshInputs(tree, Only(tree.editorial)), Picture(1), 1)
          /\ Out("charts") = Picture(2)
      BY <1>3, <3>3, OnlyValue DEF Out
    <3>6. manifest = Manifest(FreshInputs(tree, Only(tree.editorial)), Picture(2), 2)
      <4>1. [Manifest(FreshInputs(tree, Only(tree.editorial)), Picture(1), 1)
                EXCEPT !.renderer = 2, !.charts = Picture(2)]
               = Manifest(FreshInputs(tree, Only(tree.editorial)), Picture(2), 2)
        BY ManifestCompleted
      <4> QED BY <3>5, <4>1 DEF manifest
    <3>7. /\ tree' = [tree EXCEPT !["manifest"] = {manifest}] /\ host' = host /\ TreeOK(tree)
          /\ "manifest" \in Derived
      BY <1>3 DEF Publish, Calm, IInv, PublicationTypeOK, Derived
    <3>8. tree'.manifest = {manifest} /\ \A g \in Derived \ {"manifest"} : tree'[g] = tree[g]
      BY <3>7, OneFileStays
    <3>9. /\ tree'.snapshot = tree.snapshot /\ tree'.writer = tree.writer
          /\ tree'.editorial = tree.editorial /\ tree'.facts = tree.facts
          /\ tree'.charts = tree.charts /\ tree'.article = tree.article
      BY <3>8 DEF Derived
    <3>10. SameBuild
      BY <2>1, SourcesDecide
    <3>11. SnapshotBuilt(tree') /\ WriterBuilt(tree')
      BY <3>2, <3>9, <3>10 DEF SnapshotBuilt, WriterBuilt, SameBuild, FreshWriter
    <3>12. ArticleBuilt(tree', 2, host'.maker)
      <4>1. /\ tree'.facts = {FreshFacts'} /\ tree'.charts = {Picture(2)'}
            /\ tree'.article = {FreshArticle(tree', Only(tree'.editorial), 2)}
            /\ tree'.manifest
                  = {Manifest(FreshInputs(tree', Only(tree'.editorial)), Picture(2)', 2)}
        BY <3>3, <3>6, <3>8, <3>9, <3>10 DEF SameBuild
      <4>2. /\ Publishable(FreshSnapshot(tree'), tree'.profile) /\ tree'.editorial # {}
            /\ EditorialAdmitted(Only(tree'.editorial), FreshWriter')
        BY <3>4, <3>9, <3>10 DEF SameBuild
      <4> QED BY <4>1, <4>2 DEF ArticleBuilt, FreshFacts, FreshWriter, Picture
    <3>13. ~ Dividend' /\ task'.stage = 5
      BY <2>1, <3>2, <3>10 DEF SameBuild
    <3> QED BY <3>11, <3>12, <3>13 DEF Progress
  <2> QED BY <1>1, <1>3, <2>1, PublishKeepsClean DEF Derived
<1> QED BY <1>2, <1>3 DEF Remanifest

(* Comparisons of a reproduction. *)
LEMMA ComparingKeepsClean ==
    ASSUME IInv, CleanInv, task.pc \in ServiceSteps,
           NEW next, next \notin {"recorded", "releases", "digest", "adapter"},
           Passes(next) \/ (Refuse /\ ~ (Clean /\ Complete))
    PROVE  CleanInv'
<1>1. Reproducing
  BY DEF IInv, ReproductionInv
<1>2. CASE Passes(next)
  BY <1>1, <1>2, ReadsKeepClean DEF Reproducing
<1>3. CASE Refuse /\ ~ (Clean /\ Complete)
  <2>1. Clean => ~ Reproducing
    BY <1>3, CleanReproduction
  <2> QED BY <1>3, <2>1, RefusedIsUnclean
<1> QED BY <1>2, <1>3

LEMMA CompareArtifactsKeepsClean ==
    ASSUME IInv, CleanInv, CompareArtifacts
    PROVE  CleanInv'
<1>1. task.pc = "compare"
  BY DEF CompareArtifacts, At
<1>2. ASSUME Complete PROVE ArtifactsMatch
  <2> DEFINE editorial == Only(tree.editorial)
  <2>1. Renderer = 2 /\ ~ Dividend
    BY <1>1, <1>2 DEF Complete, Facts, WriterFacts
  <2>2. /\ temp.facts = FreshFacts /\ temp.charts = Drawing(2)
        /\ temp.article = FreshArticle(tree, editorial, 2)
        /\ temp.manifest = Manifest(FreshInputs(tree, editorial), Drawing(2), 2)
    BY <1>1, <1>2, <2>1 DEF Complete, Facts, BuildFacts, Holds
  <2>3. ArticleBuilt(tree, 2, host.maker)
    BY <1>2, <2>1 DEF Complete
  <2> HIDE DEF editorial
  <2>4. /\ tree.facts = {FreshFacts} /\ tree.charts = {Picture(2)}
        /\ tree.article = {FreshArticle(tree, editorial, 2)}
        /\ tree.manifest = {Manifest(FreshInputs(tree, editorial), Picture(2), 2)}
    BY <2>3 DEF ArticleBuilt, FreshFacts, Picture, editorial
  <2>5. /\ Only(tree.charts) = Picture(2)
        /\ Only(tree.manifest) = Manifest(FreshInputs(tree, editorial), Picture(2), 2)
    BY <2>4, OnlyValue
  <2>6. Picture(2).content = Drawing(2).content
    BY DEF Picture, Drawing, Drawn
  <2>7. ChartsMatch
    BY <2>1, <2>2, <2>4, <2>5, <2>6 DEF ChartsMatch
  <2>8. [Manifest(FreshInputs(tree, editorial), Picture(2), 2) EXCEPT !.charts = Drawing(2)]
           = Manifest(FreshInputs(tree, editorial), Drawing(2), 2)
    BY DEF Manifest
  <2>9. Only(tree.manifest).charts = Picture(2)
    BY <2>5 DEF Manifest
  <2>10. ManifestMatches
    BY <2>2, <2>4, <2>5, <2>8, <2>9 DEF ManifestMatches
  <2> QED BY <2>2, <2>4, <2>7, <2>10 DEF ArtifactsMatch
<1>3. Passes("guide") \/ (Refuse /\ ~ ArtifactsMatch)
  BY DEF CompareArtifacts, Check, Passes
<1> QED BY <1>1, <1>2, <1>3, ComparingKeepsClean DEF ServiceSteps

LEMMA CompareGuideKeepsClean ==
    ASSUME IInv, CleanInv, CompareGuide
    PROVE  CleanInv'
<1>1. task.pc = "guide"
  BY DEF CompareGuide, At
<1>2. Complete => tree.guide = tree.article
  BY <1>1 DEF Complete, Facts, WriterFacts
<1>3. Passes("report") \/ (Refuse /\ tree.guide # tree.article)
  BY DEF CompareGuide, Check, Passes
<1> QED BY <1>1, <1>2, <1>3, ComparingKeepsClean DEF ServiceSteps

LEMMA DividendRefsKeepsClean ==
    ASSUME IInv, CleanInv, DividendRefs
    PROVE  CleanInv'
<1> DEFINE ok == /\ InputOf[tree.input].cap = read.package.cap
                 /\ InputOf[tree.input].market = read.package.market
<1>1. task.pc = "refs"
  BY DEF DividendRefs, At
<1>2. ASSUME Complete PROVE ok
  <2>1. read.package = tree.package
    BY <1>1, <1>2 DEF Complete, Facts, PackageFacts, Holds
  <2> QED BY <1>2, <2>1 DEF Complete, Agreeing
<1>3. Passes("input") \/ (Refuse /\ ~ ok)
  BY DEF DividendRefs, Check, Passes
<1> HIDE DEF ok
<1> QED BY <1>1, <1>2, <1>3, ComparingKeepsClean DEF ServiceSteps

(* The pins follow the files. *)
LEMMA CompletePins ==
    ASSUME Complete, task.pc \in DividendSteps
    PROVE  /\ DividendBuilt(tree, host.maker) /\ host.maker = host.checker
           /\ Only(tree.snapshot) = FreshSnapshot(tree) /\ read.package = tree.package
           /\ AdviceHasWords(FreshDividendFacts)
           /\ \A files : PinsHold(files)
<1>1. Dividend /\ read.package = tree.package
  BY DEF Complete, Facts, DividendChecks, PackageFacts, Holds
<1>2. /\ DividendBuilt(tree, host.maker) /\ host.maker = host.checker
      /\ AdviceHasWords(FreshDividendFacts)
  BY <1>1 DEF Complete
<1>3. tree.package.pins = Pins(tree)
  BY <1>2 DEF DividendBuilt
<1>4. Only(tree.snapshot) = FreshSnapshot(tree)
  BY OnlyValue DEF Complete, SnapshotBuilt
<1> QED BY <1>1, <1>2, <1>3, <1>4 DEF PinsHold

LEMMA DividendChartsKeepsClean ==
    ASSUME IInv, CleanInv, DividendCharts
    PROVE  CleanInv'
<1> DEFINE drawn == Charts(Only(tree.snapshot), "-", 0)
           ok == /\ PinsHold({"manifest"}) /\ tree.manifest # {} /\ tree.charts # {}
                 /\ Only(tree.manifest).inputs = Only(tree.snapshot)
                 /\ {Only(tree.manifest).charts} = tree.charts
                 /\ Only(tree.charts).content = drawn
                 /\ host.checker = "linux" => tree.charts = {Drawn(drawn, "linux")}
<1>1. task.pc = "charts"
  BY DEF DividendCharts, At
<1>2. ASSUME Complete PROVE ok
  <2>1. /\ DividendBuilt(tree, host.maker) /\ host.maker = host.checker
        /\ Only(tree.snapshot) = FreshSnapshot(tree) /\ PinsHold({"manifest"})
    BY <1>1, <1>2, CompletePins
  <2>2. drawn = Charts(FreshSnapshot(tree), "-", 0)
    BY <2>1
  <2> HIDE DEF drawn
  <2>3. /\ tree.charts = {Drawn(drawn, host.maker)}
        /\ tree.manifest = {Manifest(FreshSnapshot(tree), Drawn(drawn, host.maker), 0)}
    BY <2>1, <2>2 DEF DividendBuilt
  <2>4. /\ Only(tree.charts) = Drawn(drawn, host.maker)
        /\ Only(tree.manifest) = Manifest(FreshSnapshot(tree), Drawn(drawn, host.maker), 0)
    BY <2>3, OnlyValue
  <2>5. Only(tree.charts).content = drawn
    BY <2>4 DEF Drawn
  <2>6. /\ Only(tree.manifest).inputs = FreshSnapshot(tree)
        /\ Only(tree.manifest).charts = Drawn(drawn, host.maker)
    BY <2>4 DEF Manifest
  <2> QED BY <2>1, <2>3, <2>5, <2>6 DEF drawn
<1>3. Passes("metadata") \/ (Refuse /\ ~ ok)
  BY DEF DividendCharts, Check, Passes
<1> HIDE DEF ok
<1> QED BY <1>1, <1>2, <1>3, ComparingKeepsClean DEF ServiceSteps

LEMMA DividendMetadataKeepsClean ==
    ASSUME IInv, CleanInv, DividendMetadata
    PROVE  CleanInv'
<1>1. task.pc = "metadata"
  BY DEF DividendMetadata, At
<1>2. Complete => PinsHold({"input", "snapshot", "prices"})
  BY <1>1, CompletePins
<1>3. Passes("dividend_facts") \/ (Refuse /\ ~ PinsHold({"input", "snapshot", "prices"}))
  BY DEF DividendMetadata, Check, Passes
<1> QED BY <1>1, <1>2, <1>3, ComparingKeepsClean DEF ServiceSteps

LEMMA DividendFactsCheckKeepsClean ==
    ASSUME IInv, CleanInv, DividendFactsCheck
    PROVE  CleanInv'
<1> DEFINE values == [snapshot |-> Only(tree.snapshot), facts |-> Only(tree.facts),
                     guide |-> tree.guide]
           ok == /\ DividendFactsExist(Only(tree.snapshot), read.package)
                 /\ tree.facts = {DividendFacts(Only(tree.snapshot), read.package)}
                 /\ PinsHold({"facts"})
<1>1. task.pc = "dividend_facts" /\ task.cmd # "idle" /\ Reproducing
  BY RunningIsNotIdle DEF DividendFactsCheck, At, IInv, ReproductionInv, ServiceSteps
<1>2. CASE Reads(values, "statements")
  <2> HIDE DEF values
  <2> QED BY <1>1, <1>2, ReadsKeepClean
<1>3. CASE ~ ok /\ Refuse
  <2>1. ASSUME Clean PROVE FALSE
    <3>1. Complete
      BY <1>1, <2>1, CleanReproduction
    <3>2. /\ DividendBuilt(tree, host.maker) /\ PinsHold({"facts"})
          /\ Only(tree.snapshot) = FreshSnapshot(tree) /\ read.package = tree.package
      BY <1>1, <3>1, CompletePins
    <3> QED BY <1>3, <3>2 DEF DividendBuilt
  <2> QED BY <1>3, <2>1, RefusedIsUnclean
<1> QED BY <1>2, <1>3 DEF DividendFactsCheck, Load, Reads

LEMMA DividendArticleKeepsClean ==
    ASSUME IInv, CleanInv, DividendArticle
    PROVE  CleanInv'
<1> DEFINE ok == /\ read.guide # {} /\ AdviceHasWords(read.facts)
                 /\ Only(read.guide).said = DividendStatements(read.snapshot, read.facts)
<1>1. task.pc = "statements"
  BY DEF DividendArticle, At
<1>2. ASSUME Complete PROVE ok
  <2>1. /\ read.snapshot = FreshSnapshot(tree) /\ read.facts = FreshDividendFacts
        /\ read.guide = tree.guide
    BY <1>1, <1>2 DEF Complete, Facts, DividendChecks, Holds
  <2>2. DividendBuilt(tree, host.maker) /\ AdviceHasWords(FreshDividendFacts)
    BY <1>1, <1>2, CompletePins
  <2>3. tree.guide = {DividendGuide(FreshSnapshot(tree), FreshDividendFacts)}
    BY <2>2 DEF DividendBuilt, FreshDividendFacts
  <2>4. Only(tree.guide) = DividendGuide(FreshSnapshot(tree), FreshDividendFacts)
    BY <2>3, OnlyValue
  <2> QED BY <2>1, <2>2, <2>3, <2>4 DEF DividendGuide
<1>3. Passes("report") \/ (Refuse /\ ~ ok)
  BY DEF DividendArticle, Check, Passes
<1> HIDE DEF ok
<1> QED BY <1>1, <1>2, <1>3, ComparingKeepsClean DEF ServiceSteps

LEMMA ServiceStartKeepsClean ==
    ASSUME IInv, CleanInv, ServiceStart
    PROVE  CleanInv'
<1> DEFINE values == [package |-> tree.package, code |-> tree.adapter]
<1>1. task.pc = "service" /\ task.cmd # "idle" /\ Reproducing
  BY RunningIsNotIdle DEF ServiceStart, At, IInv, ReproductionInv, ServiceSteps
<1>2. Reads(values, "releases")
  BY DEF ServiceStart, Load, Reads
<1>3. Holds(read', "code", tree.adapter)
  <2>1. "code" \in DOMAIN values /\ values.code = tree.adapter
    OBVIOUS
  <2> HIDE DEF values
  <2> QED BY <1>2, <2>1, WithNew DEF Reads
<1> HIDE DEF values
<1> QED BY <1>1, <1>2, <1>3, ReadsKeepClean

LEMMA ServiceReleasesKeepsClean ==
    ASSUME IInv, CleanInv, ServiceReleases
    PROVE  CleanInv'
<1> DEFINE ok == /\ \A id \in {read.package.cap, read.package.market} :
                       id \in DOMAIN tree.releases /\ tree.releases[id] = "exact"
                 /\ read.package.cap # read.package.market
<1>1. task.pc = "releases" /\ task.cmd # "idle" /\ Reproducing
  BY RunningIsNotIdle DEF ServiceReleases, At, IInv, ReproductionInv, ServiceSteps
<1>2. CASE Passes("digest")
  <2>1. Clean => Holds(read', "code", tree.adapter)
    BY <1>1, <1>2, CleanReproduction DEF Complete, ServiceDoing, Passes
  <2> QED BY <1>1, <1>2, <2>1, ReadsKeepClean
<1>3. CASE ~ ok /\ Refuse
  <2>1. ASSUME Clean PROVE FALSE
    <3>1. Complete
      BY <1>1, <2>1, CleanReproduction
    <3>2. read.package = tree.package
      BY <1>1, <3>1 DEF Complete, Facts, PackageFacts, Holds
    <3>3. {tree.package.cap, tree.package.market} \subseteq DOMAIN tree.releases
      BY <3>1, BuiltIsUsable DEF Complete, SnapshotBuilt, OfThePackage
    <3> QED BY <1>3, <3>1, <3>2, <3>3 DEF Complete, Agreeing
  <2> QED BY <1>3, <2>1, RefusedIsUnclean
<1> QED BY <1>2, <1>3 DEF ServiceReleases, Check, Passes

LEMMA ServiceDigestKeepsClean ==
    ASSUME IInv, CleanInv, ServiceDigest
    PROVE  CleanInv'
<1> DEFINE digest == PackageDigest(tree, read.package)
           values == [digest |-> digest]
<1>1. task.pc = "digest" /\ task.cmd # "idle" /\ Reproducing
  BY RunningIsNotIdle DEF ServiceDigest, At, IInv, ReproductionInv, ServiceSteps
<1>2. CASE Reads(values, "adapter")
  <2>1. ASSUME Clean PROVE Holds(read', "code", tree.adapter)
    <3>1. Holds(read, "code", tree.adapter)
      BY <1>1, <2>1, CleanReproduction DEF Complete, ServiceDoing
    <3> "code" \notin DOMAIN values
      OBVIOUS
    <3> HIDE DEF values
    <3> QED BY <1>2, <3>1, WithOld DEF Reads
  <2> HIDE DEF values
  <2> QED BY <1>1, <1>2, <2>1, ReadsKeepClean
<1>3. CASE host.expected # {} /\ Refuse
  <2>1. Clean => ~ Reproducing
    BY <1>3 DEF Clean, Agreeing
  <2> QED BY <1>3, <2>1, RefusedIsUnclean
<1> QED BY <1>2, <1>3 DEF ServiceDigest, Load, Reads

LEMMA ServiceAdapterKeepsClean ==
    ASSUME IInv, CleanInv, ServiceAdapter
    PROVE  CleanInv'
<1> DEFINE next == IF Dividend THEN "refs" ELSE "input"
           ok == tree.adapter = read.package.code /\ read.code = tree.adapter
<1>1. task.pc = "adapter"
  BY DEF ServiceAdapter, At
<1>2. ASSUME Complete PROVE ok
  <2>1. read.package = tree.package
    BY <1>1, <1>2 DEF Complete, Facts, PackageFacts, Holds
  <2> QED BY <1>1, <1>2, <2>1 DEF Complete, Agreeing, ServiceDoing, Holds
<1>3. Passes(next) \/ (Refuse /\ ~ ok)
  BY DEF ServiceAdapter, Check, Passes
<1>4. next \notin {"recorded", "releases", "digest", "adapter"}
  OBVIOUS
<1> HIDE DEF ok, next
<1> QED BY <1>1, <1>2, <1>3, <1>4, ComparingKeepsClean DEF ServiceSteps

LEMMA ServiceReportKeepsClean ==
    ASSUME IInv, CleanInv, ServiceReport
    PROVE  CleanInv'
<1>1. task.pc = "report" /\ Reproducing
  BY DEF ServiceReport, At, IInv, ReproductionInv, ServiceSteps
<1>2. /\ tree' = tree /\ host' = host /\ history' = history
      /\ task'.cmd = "idle" /\ task'.stage = task.stage + 1
  BY DEF ServiceReport, End, Idle
<1>3. ASSUME Clean'
      PROVE  "rejected" \notin history' /\ Progress' /\ Doing'
  <2>1. Clean
    BY <1>2, <1>3, SameTreeStays, CleanBefore
  <2>2. "rejected" \notin history
    BY <2>1 DEF CleanInv
  <2>3. Complete
    BY <1>1, <2>1, CleanReproduction
  <2>4. Progress'
    BY <1>2, <2>3 DEF Complete, Progress, Dividend
  <2> QED BY <1>2, <2>2, <2>4 DEF Doing
<1>4. Whole'
  BY <1>2, SameTreeStays, WholeStays
<1> QED BY <1>2, <1>3, <1>4 DEF CleanInv

(* The author. *)

LEMMA CleanStage ==
    ASSUME IInv, Clean, NEW cmd, Free(cmd)
    PROVE  /\ Stage = task.stage /\ task.stage \in 1 .. Len(Commands)
           /\ task.cmd = "idle" /\ Commands[task.stage] = cmd
<1>1. Stage = task.stage
  BY DEF Clean, Troubles, Stage
<1> QED BY <1>1, FreeVouchesForNothing DEF Free

LEMMA WhichCommand ==
    ASSUME NEW i \in 1 .. Len(Commands)
    PROVE  /\ Commands[i] = "snapshot" <=> i = 1
           /\ Commands[i] = "by_hand" <=> Dividend /\ i = 2
           /\ Commands[i] = "writer" <=> ~ Dividend /\ i = 2
           /\ Commands[i] = "edit_copy" <=> ~ Dividend /\ i = 3
           /\ Commands[i] = "article" <=> ~ Dividend /\ i = 4
           /\ Commands[i] = "publish" <=> ~ Dividend /\ i = 5
           /\ Commands[i] = "reproduce" <=> i = Len(Commands)
BY DEF Commands

LEMMA BeginKeepsClean ==
    ASSUME IInv, CleanInv, NEW cmd \in DOMAIN FirstStep, Begin(cmd)
    PROVE  CleanInv'
<1>1. /\ Free(cmd) /\ tree' = tree /\ host' = host
      /\ task' = [cmd |-> cmd, pc |-> FirstStep[cmd], ret |-> "prepared", stage |-> Stage]
      /\ IF cmd = "reproduce" THEN history' = history \ {"disturbed"} ELSE history' = history
  BY DEF Begin
<1>2. history' \cap Troubles = history \cap Troubles /\ history' \subseteq history
  BY <1>1 DEF Troubles
<1>3. SourcesStay
  BY <1>1, SameTreeStays
<1>4. Whole'
  BY <1>2, <1>3, WholeStays
<1>5. ASSUME Clean' PROVE "rejected" \notin history' /\ Progress' /\ Doing'
  <2>1. Clean
    BY <1>2, <1>3, <1>5, CleanBefore
  <2>2. /\ Stage = task.stage /\ task.stage \in 1 .. Len(Commands)
        /\ Commands[task.stage] = cmd
    BY <1>1, <2>1, CleanStage
  <2>3. task'.stage = task.stage /\ task'.cmd = cmd /\ task'.ret = "prepared"
        /\ task'.pc = FirstStep[cmd]
    BY <1>1, <2>2
  <2>4. "rejected" \notin history /\ Progress
    BY <2>1 DEF CleanInv
  <2>5. Progress'
    BY <1>1, <2>3, <2>4, SameTreeProgress
  <2>6. /\ Dividend' = Dividend /\ Commands' = Commands
    BY <1>1 DEF Dividend, Commands
  <2>7. CASE cmd = "snapshot"
    <3>1. task'.stage = 1 /\ task'.pc = "input"
      BY <2>2, <2>3, <2>7, WhichCommand DEF FirstStep
    <3> QED BY <1>2, <2>3, <2>4, <2>5, <2>7, <3>1
            DEF Doing, SnapshotDoing, SnapshotFacts, SourceFacts, Replayed
  <2>8. CASE cmd = "writer"
    <3>1. task'.stage = 2 /\ task'.pc = "writer" /\ ~ Dividend'
      BY <2>2, <2>3, <2>6, <2>8, WhichCommand DEF FirstStep
    <3> QED BY <1>2, <2>3, <2>4, <2>5, <2>8, <3>1 DEF Doing, WriterDoing, WriterRead
  <2>9. CASE cmd = "article"
    <3>1. task'.stage = 4 /\ task'.pc = "load" /\ ~ Dividend'
      BY <2>2, <2>3, <2>6, <2>9, WhichCommand DEF FirstStep
    <3> QED BY <1>2, <2>3, <2>4, <2>5, <2>9, <3>1
            DEF Doing, ArticleDoing, ArticleRead, ArticleWritten, WriterRead
  <2>10. CASE cmd = "reproduce"
    <3>1. task'.stage = Len(Commands') /\ task'.pc = "service"
      BY <2>2, <2>3, <2>6, <2>10, WhichCommand DEF FirstStep
    <3> QED BY <1>2, <2>3, <2>4, <2>5, <2>10, <3>1 DEF Doing, ServiceDoing
  <2> QED BY <2>7, <2>8, <2>9, <2>10 DEF FirstStep
<1>6. "disturbed" \in history' => history' \cap Troubles # {}
  BY <1>2 DEF CleanInv
<1> QED BY <1>4, <1>5, <1>6 DEF CleanInv

(* A step by hand has to leave what the next command needs. *)
LEMMA ByhandKeepsClean ==
    ASSUME IInv, CleanInv, NEW cmd, Free(cmd), NEW new, Byhand(new),
           "edited" \notin history => SourcesStay,
           Clean /\ SourcesStay /\ task'.stage = task.stage + 1 => Progress'
    PROVE  CleanInv'
<1>1. /\ host' = host /\ history' = history
      /\ task'.stage = task.stage + 1 /\ task'.cmd = "idle"
  BY DEF Byhand, Calm, End, Idle
<1>2. Whole'
  BY <1>1, WholeStays DEF Whole
<1>3. ASSUME Clean' PROVE "rejected" \notin history' /\ Progress' /\ Doing'
  <2>1. SourcesStay
    BY <1>1, <1>3 DEF Clean, Troubles
  <2>2. Clean
    BY <1>1, <1>3, <2>1, CleanBefore
  <2> QED BY <1>1, <2>1, <2>2 DEF CleanInv, Doing
<1> QED BY <1>1, <1>2, <1>3 DEF CleanInv

LEMMA WriteEditorialKeepsClean ==
    ASSUME IInv, CleanInv, WriteEditorial
    PROVE  CleanInv'
<1>1. PICK v : Byhand([tree EXCEPT !.editorial = v]) /\ Free("edit_copy")
  BY DEF WriteEditorial
<1>2. /\ tree' = [tree EXCEPT !["editorial"] = v] /\ host' = host /\ TreeOK(tree)
      /\ "editorial" \in Derived
  BY <1>1 DEF Byhand, Calm, IInv, PublicationTypeOK, Derived
<1>3. SourcesStay /\ \A g \in Derived \ {"editorial"} : tree'[g] = tree[g]
  BY <1>2, OneFileStays
<1>4. ASSUME Clean, task'.stage = task.stage + 1 PROVE Progress'
  <2>1. task.stage \in 1 .. Len(Commands) /\ Commands[task.stage] = "edit_copy"
    BY <1>1, <1>4, CleanStage
  <2>2. task.stage = 3 /\ ~ Dividend /\ Progress
    BY <1>4, <2>1, WhichCommand DEF CleanInv
  <2>3. SnapshotBuilt(tree) /\ WriterBuilt(tree)
    BY <2>2 DEF Progress
  <2>4. SameBuild /\ tree'.snapshot = tree.snapshot /\ tree'.writer = tree.writer
    BY <1>3, SourcesDecide DEF Derived
  <2>5. SnapshotBuilt(tree') /\ WriterBuilt(tree') /\ ~ Dividend'
    BY <2>2, <2>3, <2>4 DEF SnapshotBuilt, WriterBuilt, SameBuild, FreshWriter
  <2>6. task'.stage = 4
    BY <1>4, <2>2
  <2> QED BY <2>5, <2>6 DEF Progress
<1> QED BY <1>1, <1>3, <1>4, ByhandKeepsClean

LEMMA PublishGuideKeepsClean ==
    ASSUME IInv, CleanInv, PublishGuide
    PROVE  CleanInv'
<1>1. Byhand([tree EXCEPT !.guide = tree.article]) /\ Free("publish")
  BY DEF PublishGuide
<1>2. /\ tree' = [tree EXCEPT !["guide"] = tree.article] /\ host' = host /\ TreeOK(tree)
      /\ "guide" \in Derived
  BY <1>1 DEF Byhand, Calm, IInv, PublicationTypeOK, Derived
<1>3. SourcesStay /\ tree'.guide = tree.article /\ \A g \in Derived \ {"guide"} : tree'[g] = tree[g]
  BY <1>2, OneFileStays
<1>4. ASSUME Clean, task'.stage = task.stage + 1 PROVE Progress'
  <2>1. task.stage \in 1 .. Len(Commands) /\ Commands[task.stage] = "publish"
    BY <1>1, <1>4, CleanStage
  <2>2. task.stage = 5 /\ ~ Dividend /\ Progress
    BY <1>4, <2>1, WhichCommand DEF CleanInv
  <2>3. SnapshotBuilt(tree) /\ WriterBuilt(tree) /\ ArticleBuilt(tree, 2, host.maker)
    BY <2>2 DEF Progress
  <2>4. /\ SameBuild /\ tree'.snapshot = tree.snapshot /\ tree'.writer = tree.writer
        /\ tree'.editorial = tree.editorial /\ tree'.facts = tree.facts
        /\ tree'.charts = tree.charts /\ tree'.article = tree.article
        /\ tree'.manifest = tree.manifest
    BY <1>3, SourcesDecide DEF Derived
  <2>5. SnapshotBuilt(tree') /\ WriterBuilt(tree') /\ ~ Dividend'
    BY <2>2, <2>3, <2>4 DEF SnapshotBuilt, WriterBuilt, SameBuild, FreshWriter
  <2>6. ArticleBuilt(tree', 2, host'.maker)
    <3>1. /\ tree.facts = {FreshFacts} /\ tree.charts = {Picture(2)}
          /\ tree.article = {FreshArticle(tree, Only(tree.editorial), 2)}
          /\ tree.manifest
                = {Manifest(FreshInputs(tree, Only(tree.editorial)), Picture(2), 2)}
          /\ Publishable(FreshSnapshot(tree), tree.profile) /\ tree.editorial # {}
          /\ EditorialAdmitted(Only(tree.editorial), FreshWriter)
      BY <2>3 DEF ArticleBuilt, FreshFacts, FreshWriter, Picture
    <3>2. /\ tree'.facts = {FreshFacts'} /\ tree'.charts = {Picture(2)'}
          /\ tree'.article = {FreshArticle(tree', Only(tree'.editorial), 2)}
          /\ tree'.manifest
                = {Manifest(FreshInputs(tree', Only(tree'.editorial)), Picture(2)', 2)}
          /\ Publishable(FreshSnapshot(tree'), tree'.profile) /\ tree'.editorial # {}
          /\ EditorialAdmitted(Only(tree'.editorial), FreshWriter')
      BY <2>4, <3>1 DEF SameBuild
    <3> QED BY <3>2 DEF ArticleBuilt, FreshFacts, FreshWriter, Picture
  <2>7. task'.stage = 6
    BY <1>4, <2>2
  <2> QED BY <1>3, <2>4, <2>5, <2>6, <2>7 DEF Progress
<1> QED BY <1>1, <1>3, <1>4, ByhandKeepsClean

LEMMA WriteDividendGuideKeepsClean ==
    ASSUME IInv, CleanInv, WriteDividendGuide
    PROVE  CleanInv'
<1>1. PICK facts, charts, manifest, guide :
          /\ facts = DividendFacts(Only(tree.snapshot), tree.package)
          /\ charts = Drawn(Charts(Only(tree.snapshot), "-", 0), host.maker)
          /\ manifest = Manifest(Only(tree.snapshot), charts, 0)
          /\ guide = DividendGuide(Only(tree.snapshot), facts)
          /\ LET new == [tree EXCEPT !.facts = {facts}, !.charts = {charts},
                                     !.manifest = {manifest}, !.guide = {guide}]
             IN  Byhand([new EXCEPT !.package.pins = Pins(new)])
  BY DEF WriteDividendGuide
<1>2. Free("by_hand") /\ DividendFactsExist(Only(tree.snapshot), tree.package)
  BY DEF WriteDividendGuide
<1> DEFINE drawn == [tree EXCEPT !.facts = {facts}, !.charts = {charts},
                                 !.manifest = {manifest}, !.guide = {guide}]
           pins == Pins(drawn)
           new == [drawn EXCEPT !.package.pins = pins]
           made == {"facts", "charts", "manifest", "guide"}
           names == Sources \cup Derived \cup {"releases"}
<1>3. Byhand(new)
  BY <1>1
<1>4. names \subseteq DOMAIN tree
  BY DEF IInv, PublicationTypeOK, TreeOK
<1>5. /\ DOMAIN drawn = DOMAIN tree
      /\ drawn.facts = {facts} /\ drawn.charts = {charts}
      /\ drawn.manifest = {manifest} /\ drawn.guide = {guide}
      /\ \A g \in names \ made : drawn[g] = tree[g]
  BY <1>4 DEF Derived
<1> HIDE DEF drawn, pins
<1>6. new = [drawn EXCEPT !.package = [drawn.package EXCEPT !.pins = pins]]
  OBVIOUS
<1>7. /\ new.package = [drawn.package EXCEPT !.pins = pins]
      /\ \A g \in names \ {"package"} : new[g] = drawn[g]
  BY <1>4, <1>5, <1>6 DEF Sources
<1> HIDE DEF new
<1>8. /\ tree'.package = [tree.package EXCEPT !.pins = pins]
      /\ \A g \in names \ {"package"} : tree'[g] = drawn[g]
      /\ \A g \in names \ (made \cup {"package"}) : tree'[g] = tree[g]
  BY <1>3, <1>5, <1>7 DEF Byhand, Sources
<1>9. host' = host
  BY <1>3 DEF Byhand, Calm
<1>10. ASSUME "edited" \notin history
       PROVE  SourcesStay /\ tree'.package.pins = Pins(tree')
  <2>1. PackageFields \subseteq DOMAIN tree.package
    BY <1>10 DEF CleanInv, Whole
  <2>2. /\ DOMAIN tree'.package = DOMAIN tree.package /\ tree'.package.pins = pins
        /\ \A f \in PackageFields \ {"pins"} : tree'.package[f] = tree.package[f]
    BY <1>8, <2>1 DEF PackageFields
  <2>3. \A f \in Sources \ {"package"} : tree'[f] = tree[f]
    BY <1>8 DEF Sources
  <2>4. tree'.releases = tree.releases
    BY <1>8 DEF Sources, Derived
  <2>5. Pins(tree') = pins
    BY <1>8 DEF Pins, pins, Sources, Derived
  <2> QED BY <1>9, <2>1, <2>2, <2>3, <2>4, <2>5 DEF SourcesStay
<1>11. ASSUME Clean, SourcesStay, task'.stage = task.stage + 1 PROVE Progress'
  <2>1. task.stage \in 1 .. Len(Commands) /\ Commands[task.stage] = "by_hand"
    BY <1>2, <1>11, CleanStage
  <2>2. task.stage = 2 /\ Dividend /\ Progress
    BY <1>11, <2>1, WhichCommand DEF CleanInv
  <2>3. SnapshotBuilt(tree)
    BY <2>2 DEF Progress
  <2>4. Only(tree.snapshot) = FreshSnapshot(tree)
    BY <2>3, OnlyValue DEF SnapshotBuilt
  <2>5. /\ tree'.snapshot = tree.snapshot /\ tree'.facts = {facts} /\ tree'.charts = {charts}
        /\ tree'.manifest = {manifest} /\ tree'.guide = {guide}
    BY <1>5, <1>8 DEF Derived, Sources
  <2>6. SameBuild /\ tree'.package.pins = Pins(tree')
    BY <1>10, <1>11, SourcesDecide DEF Clean, Troubles
  <2>7. SnapshotBuilt(tree')
    BY <2>3, <2>5, <2>6 DEF SnapshotBuilt, SameBuild
  <2>8. /\ facts = FreshDividendFacts'
        /\ charts = Drawn(Charts(FreshSnapshot(tree'), "-", 0), host'.maker)
        /\ manifest = Manifest(FreshSnapshot(tree'), charts, 0)
        /\ guide = DividendGuide(FreshSnapshot(tree'), facts)
        /\ DividendFactsExist(FreshSnapshot(tree'), tree'.package)
    BY <1>1, <1>2, <1>9, <2>4, <2>6 DEF SameBuild, FreshDividendFacts
  <2>9. DividendBuilt(tree', host'.maker)
    BY <2>5, <2>6, <2>8 DEF DividendBuilt, FreshDividendFacts
  <2>10. task'.stage = 3 /\ Dividend'
    BY <1>11, <2>2, <2>6 DEF SameBuild
  <2> QED BY <2>7, <2>9, <2>10 DEF Progress
<1> QED BY <1>2, <1>3, <1>10, <1>11, ByhandKeepsClean

(* What goes wrong excuses. *)
LEMMA TroubleKeepsClean ==
    ASSUME IInv, CleanInv, Trouble
    PROVE  CleanInv'
<1>1. PICK kind \in {"edited", "crashed", "skipped"} :
         Incident({kind}) /\ (kind = "edited" \/ tree' = tree)
  BY DEF Trouble, SkipCommand, EditSource, EditRelease, EditDerived, Kill
<1>2. kind \in history' /\ history \subseteq history' /\ kind \in Troubles
  BY <1>1 DEF Incident, Troubles
<1>3. Whole'
  BY <1>1, <1>2 DEF Whole, CleanInv
<1>4. ~ Clean'
  BY <1>2 DEF Clean
<1> QED BY <1>2, <1>3, <1>4 DEF CleanInv

LEMMA InitiallyClean ==
    ASSUME Init
    PROVE  CleanInv
<1>1. PICK s \in Scenarios : tree = s.tree /\ host = s.host /\ task = Idle(s.stage)
  BY DEF Init
<1>2. /\ PackageFields \subseteq DOMAIN tree.package /\ s.stage \in 1 .. LastStage + 1
      /\ s.stage > 1 => Built(tree, host.maker)
  BY <1>1, ScenarioIs DEF TakenUp
<1>3. task.cmd = "idle" /\ task.stage = s.stage /\ history = {}
  BY <1>1 DEF Idle, Init
<1>4. ASSUME Clean PROVE Progress
  <2>1. CASE s.stage = 1
    BY <1>3, <2>1 DEF Progress
  <2>2. CASE s.stage > 1
    <3>1. Built(tree, host.maker)
      BY <1>2, <2>2
    <3>2. CASE Dividend
      BY <3>1, <3>2 DEF Built, Dividend, Progress
    <3>3. CASE ~ Dividend
      <4>1. tree.package.adapter # "v1"
        BY <1>4 DEF Clean, Renderer
      <4>2. /\ SnapshotBuilt(tree) /\ WriterBuilt(tree) /\ tree.guide = tree.article
            /\ ArticleBuilt(tree, 2, host.maker)
        BY <3>1, <3>3, <4>1 DEF Built, Dividend
      <4> QED BY <3>3, <4>2 DEF Progress
    <3> QED BY <3>2, <3>3
  <2> QED BY <1>2, <2>1, <2>2 DEF LastStage
<1> QED BY <1>2, <1>3, <1>4 DEF CleanInv, Whole, Doing

LEMMA NothingKeepsClean ==
    ASSUME CleanInv, UNCHANGED vars
    PROVE  CleanInv'
<1>1. /\ tree' = tree /\ host' = host /\ temp' = temp /\ task' = task /\ read' = read
      /\ history' = history
  BY DEF vars
<1>2. SourcesStay /\ Whole'
  BY <1>1, SameTreeStays, WholeStays
<1>3. ASSUME Clean' PROVE "rejected" \notin history' /\ Progress' /\ Doing'
  <2>1. Clean
    BY <1>1, <1>2, <1>3, CleanBefore
  <2>2. "rejected" \notin history /\ Progress /\ Doing
    BY <2>1 DEF CleanInv
  <2>3. Progress'
    BY <1>1, <2>2, SameTreeProgress
  <2>4. SnapshotDoing => SnapshotDoing'
    BY <1>1, SameTree DEF SnapshotDoing, SnapshotFacts, SourceFacts, Replayed
  <2>5. WriterDoing => WriterDoing'
    BY <1>1, SameTree DEF WriterDoing, WriterRead
  <2>6. SameBuild
    BY <1>2, SourcesDecide
  <2>7. ArticleDoing => ArticleDoing'
    BY <1>1, <2>6 DEF ArticleDoing, ArticleRead, WriterRead, ArticleWritten, SameBuild
  <2>8. ServiceDoing => ServiceDoing'
    BY <1>1 DEF ServiceDoing, Commands, Dividend
  <2> QED BY <1>1, <2>2, <2>3, <2>4, <2>5, <2>7, <2>8 DEF Doing
<1> QED BY <1>1, <1>2, <1>3 DEF CleanInv

LEMMA NextKeepsClean ==
    ASSUME IInv, CleanInv, [Next]_vars
    PROVE  CleanInv'
<1>1. CASE Author
  BY <1>1, BeginKeepsClean, WriteEditorialKeepsClean, PublishGuideKeepsClean,
     WriteDividendGuideKeepsClean DEF Author
<1>2. CASE Snapshotting
  BY <1>2, SnapshotInputKeepsClean, SnapshotReplayKeepsClean, SnapshotMarketKeepsClean,
     SnapshotRowsKeepsClean, SnapshotDoneKeepsClean DEF Snapshotting
<1>3. CASE Writing
  BY <1>3, WriterInputStartKeepsClean, WriterReleasesKeepsClean, WriterDoneKeepsClean
     DEF Writing
<1>4. CASE Building
  BY <1>4, RecordedInputsKeepsClean, ArticleLoadKeepsClean, ArticleEditorialKeepsClean,
     WriteFactsKeepsClean, WriteChartsKeepsClean, WriteArticleKeepsClean,
     WriteManifestKeepsClean, RedrawKeepsClean, RewordKeepsClean, RemanifestKeepsClean,
     CompareArtifactsKeepsClean, CompareGuideKeepsClean DEF Building
<1>5. CASE CheckingDividend
  BY <1>5, DividendRefsKeepsClean, DividendChartsKeepsClean, DividendMetadataKeepsClean,
     DividendFactsCheckKeepsClean, DividendArticleKeepsClean DEF CheckingDividend
<1>6. CASE Serving
  BY <1>6, ServiceStartKeepsClean, ServiceReleasesKeepsClean, ServiceDigestKeepsClean,
     ServiceAdapterKeepsClean, ServiceReportKeepsClean DEF Serving
<1>7. CASE Trouble
  BY <1>7, TroubleKeepsClean
<1>8. CASE UNCHANGED vars
  BY <1>8, NothingKeepsClean
<1> QED BY <1>1, <1>2, <1>3, <1>4, <1>5, <1>6, <1>7, <1>8 DEF Next

(* A package that its commands built, in order and without an incident, is    *)
(* not refused by the reproduction, for any sources and any releases: what   *)
(* a command writes is what the reproduction makes of the same sources, and  *)
(* what the reproduction checks the commands have already demanded           *)
(* (build_selection_snapshot, build_writer_input, the article factories and  *)
(* reproduce_publication_package).  Excepted are the first renderer, Dividend *)
(* charts drawn on another platform, and Dividend facts that leave a group   *)
(* of the advice empty, for which publication.py:1204 has no words.          *)
THEOREM UndisturbedBuildsReproduce == Spec => []UndisturbedBuildReproduces
<1>1. Init => CleanInv
  BY InitiallyClean
<1>2. IInv /\ CleanInv /\ [Next]_vars => CleanInv'
  BY NextKeepsClean
<1>3. CleanInv => UndisturbedBuildReproduces
  <2> SUFFICES ASSUME CleanInv, "rejected" \in history,
                      history \cap {"refused", "edited", "crashed", "skipped"} = {},
                      Agreeing, Renderer # 1,
                      Dividend => host.maker = host.checker /\ AdviceHasWords(FreshDividendFacts)
               PROVE  FALSE
    BY DEF UndisturbedBuildReproduces, FreshDividendFacts
  <2>1. Clean
    BY DEF Clean, Troubles
  <2> QED BY <2>1 DEF CleanInv
<1> QED BY <1>1, <1>2, <1>3, Invariance, PTL DEF Spec
=============================================================================
