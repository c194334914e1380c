---------------------------- MODULE MCPublication ----------------------------
(* Six paths, one of them native, two markets, two pinned releases.  An      *)
(* article is about three of the paths, the Dividend guide about all six:     *)
(* fewer leave a group of its advice empty.                                  *)
EXTENDS Publication

MCPaths == {"alpha", "twelve", "eodhd", "massive", "hangseng", "ifind"}
MCQVeris == MCPaths \ {"ifind"}
MCMarkets == {"US", "CN"}
MCLatency == [p \in MCPaths |-> IF p = "twelve" THEN 1 ELSE 2]

Three == {"alpha", "twelve", "ifind"}

(* What two rounds ended with; which of them came first makes no difference.  *)
Order == [completed |-> 1, untimed |-> 2, negative |-> 3, rejected |-> 4, blocked |-> 5, na |-> 6]
Rounds == {o \in Outcomes \X Outcomes : Order[o[1]] <= Order[o[2]]}

(* A release id is <<cohort, kind, path, outcomes of that path>>: the other   *)
(* paths do what Usual says.  The case release has a positive case of two    *)
(* rounds and a control, the market release two rounds of US, one of CN and  *)
(* a control.                                                                *)
Kinds == ({Three} \X {"cap"} \X {"alpha"}) \cup ({Three} \X {"market"} \X {"alpha", "twelve"})
             \cup ({MCPaths} \X {"cap"} \X {"alpha", "twelve", "ifind"})
             \cup ({MCPaths} \X {"market"} \X {"alpha", "hangseng"})

LastOutcomes == [cap    |-> {"rejected", "negative", "untimed"},
                 market |-> {"completed", "na", "rejected"}]

IdsOf(kinds) ==
    UNION {{<<k[1], k[2], k[3], o>> : o \in Rounds \X LastOutcomes[k[2]]} : k \in kinds}

CapIds(cohort, paths) == IdsOf({cohort} \X {"cap"} \X paths)
MarketIds(cohort, paths) == IdsOf({cohort} \X {"market"} \X paths)

(* In the Dividend cohort the native path finds no event, and one path is of  *)
(* the CN market only.                                                       *)
Usual(cohort, p, case) ==
    CASE case = Control -> "rejected"
      [] cohort = MCPaths /\ p = "ifind" /\ case # Control -> "negative"
      [] cohort = MCPaths /\ p = "hangseng" /\ case = "US" -> "na"
      [] OTHER -> "completed"

(* What the dividends of a completed answer of p carry, and of another. *)
Event(p) ==
    [identity |-> IF p = "hangseng" THEN "matched" ELSE "unproved",
     currency |-> IF p \in {"twelve", "massive"} THEN {"USD"} ELSE {},
     dates |-> IF p \in {"alpha", "massive", "hangseng"} THEN "full" ELSE "some"]

NoEvent == [identity |-> "unproved", currency |-> {}, dates |-> "some"]

MCCells(id) ==
    IF id[2] = "cap" THEN (id[1] \X {"pos"} \X {1, 2}) \cup (id[1] \X {Control} \X {1})
    ELSE (id[1] \X {"US"} \X {1, 2}) \cup (id[1] \X {"CN"} \X {1})
             \cup {<<"ifind", Control, 1>>}

MCOutcome(id, c) ==
    CASE c[1] = id[3] /\ c[2] \in {"pos", "US"} -> id[4][1][c[3]]
      [] c[1] = id[3] /\ c[2] \in {Control, "CN"} -> id[4][2]
      [] OTHER -> Usual(id[1], c[1], c[2])

MCRelease(id) ==
    [cells    |-> [c \in MCCells(id) |-> MCOutcome(id, c)],
     evidence |-> {c \in MCCells(id) : MCOutcome(id, c) # "na"},
     suite    |-> "s1",
     facts    |-> [c \in MCCells(id) |->
                      IF MCOutcome(id, c) \in Completed THEN Event(c[1]) ELSE NoEvent]]

Releases == [id \in IdsOf(Kinds) |-> MCRelease(id)]

MCRegistry == [v \in {"r1", "r2"} |-> [p \in MCPaths |-> IF p = "twelve" THEN 0 ELSE 1]]

(* Price lists <<cohort, version>>. *)
PriceLists == [v \in {Three, MCPaths} \X {"p1", "p2", "p3"} |->
                [bindings |-> IF v[2] = "p3" THEN "b2" ELSE "b1",
                 amount |-> [p \in v[1] \ {"ifind"} |->
                                IF p = "alpha" /\ v[2] = "p1" THEN 1 ELSE 2]]]

Done == <<"completed", "completed">>
GoodCap(cohort) == <<cohort, "cap", "alpha", <<Done, "rejected">>>>
GoodMarket(cohort) ==
    <<cohort, "market", IF cohort = Three THEN "alpha" ELSE "hangseng",
      <<IF cohort = Three THEN Done ELSE <<"na", "na">>, "completed">>>>
(* The market release in which the CN path also passes in US: another path of *)
(* its groups may then fail.                                                 *)
BroadMarket == <<MCPaths, "market", "hangseng", <<Done, "completed">>>>
OtherCap(cohort) == <<cohort, "cap", "alpha", <<Done, "negative">>>>

(* The pairs of releases <<cap, market>> that are used. *)
Pairs == UNION {(CapIds(Three, {"alpha"}) \X {GoodMarket(Three)}),
                ({GoodCap(Three), OtherCap(Three)} \X MarketIds(Three, {"alpha", "twelve"})),
                (CapIds(MCPaths, {"alpha", "twelve", "ifind"}) \X {GoodMarket(MCPaths)}),
                (CapIds(MCPaths, {"alpha"}) \X {BroadMarket}),
                ({GoodCap(MCPaths), OtherCap(MCPaths)} \X MarketIds(MCPaths, {"alpha", "hangseng"}))}

(* An input is <<<<cap, market>>, options>>. *)
SelectionInputs == [i \in Pairs \X {"plain", "full"} |->
    LET option == IF i[2] = "full" THEN "yes" ELSE "no"
    IN  [cap |-> i[1][1], market |-> i[1][2], costs |-> "no", positiveOnly |-> option,
         marketRuns |-> option, cases |-> option,
         historical |-> IF i[2] = "full" THEN <<"s1", "s2">> ELSE <<"s1", "s1">>]]

(* A profile is <<approved copy, <<cap, market>>>>. *)
Profiles == [f \in {"c1", "c2"} \X Pairs |->
                 [approved |-> f[1], releases |-> {f[2][1], f[2][2]}, links |-> MCPaths]]

(* A definition that replaces a constant is evaluated at each use; these are   *)
(* evaluated once.                                                           *)
MCReleaseOf == Releases
MCInput == SelectionInputs
MCProfile == Profiles
MCPrices == PriceLists

NoPins == [input |-> "none", prices |-> "none", snapshot |-> {}, facts |-> {}, manifest |-> {}]

(* A checkout before its first build. *)
Unbuilt(adapter, cap, market, option) ==
    [suite |-> "s1", registry |-> "r1", prices |-> <<cap[1], "p1">>, bindings |-> "b1",
     input |-> <<<<cap, market>>, option>>, profile |-> <<"c1", <<cap, market>>>>,
     adapter |-> "a1", releases |-> [id \in {cap, market, OtherCap(cap[1])} |-> "exact"],
     package |-> [adapter |-> adapter, cap |-> cap, market |-> market, code |-> "a1",
                  mode |-> IF adapter = "v2" THEN "pixel_equivalent"
                           ELSE "canonical_linux_bytes",
                  pins |-> NoPins],
     snapshot |-> {}, writer |-> {}, editorial |-> {}, facts |-> {}, charts |-> {},
     article |-> {}, manifest |-> {}, guide |-> {}]

(* The same checkout with everything built by a given renderer. *)
BuiltWith(t, type, renderer, platform) ==
    LET snapshot == FreshSnapshot(t)
        editorial == [copy |-> ProfileOf[t.profile].approved, type |-> type,
                      market |-> US, analyses |-> RowPaths(snapshot),
                      chosen |-> ExpectedPaths(snapshot, [type |-> type, market |-> US])]
        charts == Drawn(Charts(snapshot, t.profile, renderer), platform)
    IN  [t EXCEPT !.snapshot = {snapshot},
                  !.writer = {WriterInput(snapshot, t.profile)},
                  !.editorial = {editorial},
                  !.facts = {ArticleFacts(snapshot, t.profile)},
                  !.charts = {charts},
                  !.article = {FreshArticle(t, editorial, renderer)},
                  !.manifest = {Manifest(FreshInputs(t, editorial), charts, renderer)},
                  !.guide = {FreshArticle(t, editorial, renderer)}]

Host(maker, checker, decision) ==
    [maker |-> maker, checker |-> checker, decision |-> decision, expected |-> {}]

(* Every outcome of one path, with a careful author.                         *)
Careful(w, cap, market) ==
    [tree |-> Unbuilt(w[1], cap, market, "full"), host |-> Host("linux", "linux", w[2]),
     incidents |-> MaxIncidents, stage |-> 1]

OutcomeSweep ==
    {Careful(w, c, GoodMarket(Three)) : c \in CapIds(Three, {"alpha"}),
        w \in {<<"v2", "lowest_latency">>, <<"v2", "explicit_invalid_input">>}}
    \cup
    {Careful(w, GoodCap(Three), m) : m \in MarketIds(Three, {"alpha", "twelve"}),
        w \in {<<"v2", "verified_market">>, <<"v2", "broadest_market_coverage">>}}
    \cup
    {Careful(<<"dividend", "-">>, c, GoodMarket(MCPaths)) :
        c \in CapIds(MCPaths, {"alpha", "twelve", "ifind"})}
    \cup
    {Careful(<<"dividend", "-">>, c, BroadMarket) : c \in CapIds(MCPaths, {"alpha"})}
    \cup
    {Careful(<<"dividend", "-">>, GoodCap(MCPaths), m) :
        m \in MarketIds(MCPaths, {"alpha", "hangseng"})}

CohortOf(adapter) == IF adapter = "dividend" THEN MCPaths ELSE Three

(* One release, with an incident, on every pair of platforms.                *)
Troubled ==
    {[tree |-> Unbuilt(a, GoodCap(CohortOf(a)), GoodMarket(CohortOf(a)), "plain"),
      host |-> Host(maker, checker, "lowest_list_price"), incidents |-> 1, stage |-> 1] :
        a \in {"v2", "dividend"},
        maker \in {"linux", "other"}, checker \in {"linux", "other"}}

(* A published guide reproduced later, with up to two incidents, or with one  *)
(* elsewhere or under a digest from outside, or built again with one.        *)
PublishedTrees ==
    {BuiltWith(t, "lowest_list_price", IF t.package.adapter = "v1" THEN 1 ELSE 2, "linux") :
        t \in {Unbuilt(a, GoodCap(Three), GoodMarket(Three), "plain") : a \in {"v1", "v2"}}}

Published ==
    {[tree |-> t,
      host |-> [Host("linux", checker, "lowest_list_price")
                   EXCEPT !.expected = IF trusted = "yes" THEN {PackageDigest(t, t.package)}
                                                          ELSE {}],
      incidents |-> IF stage = 6 /\ checker = "linux" /\ trusted = "no" THEN 0 ELSE 1,
      stage |-> stage] :
        t \in PublishedTrees,
        <<stage, trusted, checker>> \in ({6} \X {"yes", "no"} \X {"linux", "other"})
                                            \cup {<<1, "no", "linux">>}}

MCScenarios == OutcomeSweep \cup Troubled \cup Published

MCEditsOf(t, f) ==
    CASE f = "suite" -> {"s2"}
      [] f = "registry" -> {"r2"}
      [] f = "prices" -> {t.prices[1]} \X {"p2", "p3"}
      [] f = "bindings" -> {"b2"}
      [] f = "adapter" -> {"a2"}
      [] f = "input" -> {<<t.input[1], "full">>,
                         <<<<OtherCap(t.prices[1]), t.input[1][2]>>, t.input[2]>>}
      [] f = "profile" -> {<<"c2", t.profile[2]>>}
      [] f = "package" -> {[t.package EXCEPT !.cap = OtherCap(t.prices[1])],
                           [t.package EXCEPT !.code = "a2"]}
=============================================================================
