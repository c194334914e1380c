-------------------------- MODULE SuiteCompilation --------------------------
(***************************************************************************)
(* compile_suite (suites/compiler.py) beside the operators who qualify     *)
(* access paths and the authors who revise the CAP's documents.  A compile *)
(* reads six documents and then the provider registry, one file after the  *)
(* other, and ends in a snapshot, its fingerprint and the run plan:        *)
(*   `suite freeze` writes the snapshot, `suite plan` the plan,            *)
(*   validate_direct_binding_registry (execution/direct_binding.py) holds  *)
(*   a registry of Direct bindings against the plan, and                   *)
(*   validate_qveris_direct_binding (execution/qveris_binding.py) one      *)
(*   QVeris binding against the suite and the registry alone.              *)
(* Compiles do not write what others read, so one process runs them one    *)
(* after the other.  A digest is what it is the digest of.                 *)
(***************************************************************************)
EXTENDS ProviderRegistry

CONSTANTS
    Documents,     \* the CAP's documents in the checkout: name -> content
    Revisions,     \* what an author may commit: name -> content
    NoTool,        \* a suite without an agent protocol
    AnyMode,       \* an applicability rule for every mode
    Applicable,    \* no reason why a cell would not apply
    NoResult,      \* a purpose nothing was compiled for
    TornResult,    \* an output file that has been truncated
    MaxCompiles    \* bound: programs that are started

Purposes == {"freeze", "plan", "bind", "qveris"}
Modes    == {"direct", "agent_trial"}

\* The documents a program reads, in order; the registry comes last.
DocumentOrder == <<"suite", "cap", "contracts", "cases", "bindings", "rules">>
ReadOrder(purpose) ==
    CASE purpose \in {"freeze", "plan"} -> DocumentOrder \o FileOrder
      [] purpose = "bind"   -> <<"directs">> \o DocumentOrder \o FileOrder
      [] purpose = "qveris" -> <<"qveris", "suite">> \o FileOrder

DocumentNames == {DocumentOrder[i] : i \in 1..6} \cup {"directs", "qveris"}

ASSUME DocumentsOK ==
    /\ DOMAIN Documents = DocumentNames
    /\ \A r \in Revisions : DOMAIN r \subseteq DocumentNames
    /\ DocumentNames \cap Files = {}
    /\ MaxCompiles \in Nat

\* The versions of a document there may be in the checkout.
Versions(k) == {Documents[k]} \cup {r[k] : r \in {r \in Revisions : k \in DOMAIN r}}

\* A cell that does not apply has a reason, and the bindings are a list.
ASSUME VersionsOK ==
    /\ Applicable \notin {"provider", "ineligible"}
    /\ \A s \in Versions("suite") : \A i \in 1..Len(s.rules) : s.rules[i].reason # Applicable
    /\ \A d \in Versions("directs") : Len(d) \in Nat

VARIABLES
    docs,      \* the CAP's documents
    purpose,   \* what the program compiles for, "none" when it does not run
    got,       \* what it has read: document or provider file -> content
    results,   \* what each purpose has last been compiled from
    compiles

suiteVars == <<docs, purpose, got, results, compiles>>
vars      == <<registryVars, suiteVars>>

ItemsOf(s)      == {s[i] : i \in 1..Len(s)}
AllDifferent(s) == \A i, j \in 1..Len(s) : s[i] = s[j] => i = j
Nothing         == [k \in {} |-> Torn]

-----------------------------------------------------------------------------
(***************************************************************************)
(* The checks of the documents, each on what has been read so far          *)
(***************************************************************************)
\* BenchmarkSuite.require_agent_protocol.
SuiteValid(s) ==
    /\ AllDifferent(s.cases) /\ AllDifferent(s.paths)
    /\ "direct" \in s.modes
    /\ "agent_trial" \in s.modes => s.tool # NoTool
    /\ \A rule \in ItemsOf(s.rules) :
          /\ rule.case \in ItemsOf(s.cases) /\ rule.path \in ItemsOf(s.paths)
          /\ rule.mode \in s.modes \cup {AnyMode}

\* The case of an id; load_cases refuses two.
CaseOf(g, c) == CHOOSE case \in ItemsOf(g.cases) : case.case = c

\* _resolve_cases: every case of the suite is there and is the suite's CAP's.
CasesResolve(g) ==
    /\ AllDifferent([i \in 1..Len(g.cases) |-> g.cases[i].case])
    /\ \A c \in ItemsOf(g.suite.cases) :
          /\ \E case \in ItemsOf(g.cases) : case.case = c
          /\ CaseOf(g, c).cap = g.suite.cap

\* validate_outcome_rules: the conditions of a case are those of its kind.
RulesMatch(g) ==
    \A c \in ItemsOf(g.suite.cases) :
        CaseOf(g, c).conditions = IF CaseOf(g, c).negative = "yes"
                                  THEN g.rules.negative ELSE g.rules.completion

Records(g) == [f \in DOMAIN g \cap Files |-> g[f]]

\* What a program checks when it has read k; g holds k.
Passes(k, g) ==
    CASE k = "suite"     -> SuiteValid(g.suite)
      [] k = "cap"       -> g.cap.cap = g.suite.cap
      [] k = "contracts" -> g.cap.source = g.contracts
      [] k = "cases"     -> CasesResolve(g)
      [] k = "bindings"  -> AllDifferent([i \in 1..Len(g.bindings) |-> g.bindings[i].path])
      [] k = "rules"     -> RulesMatch(g)
      [] k = "directs"   -> AllDifferent([i \in 1..Len(g.directs) |-> g.directs[i].id])
      [] k = "qveris"    -> TRUE
      [] k \in Files     -> Loads(g[k]) /\ NoDuplicates(Records(g))

\* _resolve_access_paths: a path of the suite is registered, included or authorised
\* by its binding, and an eligible one has the interface of the agent protocol.
Authorised(g) == {b.path : b \in {b \in ItemsOf(g.bindings) : b.authorised = "yes"}}

PathsResolve(g) ==
    \A p \in ItemsOf(g.suite.paths) :
        /\ p \in AllPaths(Records(g))
        /\ p \in Authorised(g) \/ IncludedIn(Records(g), p)
        /\ g.suite.tool # NoTool /\ Entry(Records(g), p).eligible = "yes"
              => Entry(Records(g), p).interface = g.suite.tool

\* validate_provider_bindings.
BindingsMatch(g) ==
    /\ {b.path : b \in ItemsOf(g.bindings)} = ItemsOf(g.suite.paths)
    /\ \A b \in ItemsOf(g.bindings) :
          /\ b.provider = ProviderOf(Records(g), b.path)
          /\ b.interface = Entry(Records(g), b.path).interface

-----------------------------------------------------------------------------
(***************************************************************************)
(* The snapshot and the run plan                                           *)
(***************************************************************************)
\* Mutant of Snapshot: the suite document is identified by its CAP alone.
SnapshotNoRules(g) ==
    [cap |-> g.cap, suite |-> g.suite.cap,
     cases |-> [i \in 1..Len(g.suite.cases) |-> CaseOf(g, g.suite.cases[i])],
     paths |-> [i \in 1..Len(g.suite.paths) |-> Entry(Records(g), g.suite.paths[i])],
     cohort |-> Records(g), bindings |-> g.bindings, outcome |-> g.rules]

\* The frozen snapshot; its digest is the suite's fingerprint.
Snapshot(g) ==
    [cap |-> g.cap, suite |-> g.suite,
     cases |-> [i \in 1..Len(g.suite.cases) |-> CaseOf(g, g.suite.cases[i])],
     paths |-> [i \in 1..Len(g.suite.paths) |-> Entry(Records(g), g.suite.paths[i])],
     cohort |-> Records(g), bindings |-> g.bindings, outcome |-> g.rules]

\* _applicability_reason: the first rule that fits, then the case's providers,
\* then the eligibility of the path.
Reason(g, c, p, m) ==
    LET fits(i) == /\ g.suite.rules[i].case = c /\ g.suite.rules[i].path = p
                   /\ g.suite.rules[i].mode \in {AnyMode, m}
        fitting == {i \in 1..Len(g.suite.rules) : fits(i)}
        only    == CaseOf(g, c).providers
    IN  IF fitting # {}
        THEN g.suite.rules[CHOOSE i \in fitting : \A j \in fitting : i <= j].reason
        ELSE IF only # {} /\ ProviderOf(Records(g), p) \notin only THEN "provider"
        ELSE IF m = "agent_trial" /\ Entry(Records(g), p).eligible = "no"
        THEN "ineligible" ELSE Applicable

\* Mutant of Plan: the eligibility of the path is not asked.
PlanAnyPath(g) ==
    {[case |-> c, input |-> CaseOf(g, c).input, provider |-> ProviderOf(Records(g), p),
      path |-> p, mode |-> m, round |-> r,
      reason |-> IF Reason(g, c, p, m) = "ineligible" THEN Applicable
                 ELSE Reason(g, c, p, m)] :
        c \in ItemsOf(g.suite.cases), p \in ItemsOf(g.suite.paths),
        m \in g.suite.modes, r \in 1..g.suite.rounds}

\* expand_run_plan; a cell without a reason is planned, the others never apply.
Plan(g) ==
    {[case |-> c, input |-> CaseOf(g, c).input, provider |-> ProviderOf(Records(g), p),
      path |-> p, mode |-> m, round |-> r, reason |-> Reason(g, c, p, m)] :
        c \in ItemsOf(g.suite.cases), p \in ItemsOf(g.suite.paths),
        m \in g.suite.modes, r \in 1..g.suite.rounds}

ApplicableCells(g) == {cell \in Plan(g) : cell.reason = Applicable}

\* Mutant of DirectsMatch: only the bound identities are compared.
DirectsMatchIdentities(g) ==
    {<<d.case, d.path>> : d \in ItemsOf(g.directs)} =
       {<<cell.case, cell.path>> : cell \in ApplicableCells(g)}

\* validate_direct_binding_registry: one binding for each applicable pair of case
\* and path, for the provider and over the transport of the path.
DirectsMatch(g) ==
    /\ Cardinality({<<d.case, d.path>> : d \in ItemsOf(g.directs)}) = Len(g.directs)
    /\ {<<d.case, d.path>> : d \in ItemsOf(g.directs)} =
          {<<cell.case, cell.path>> : cell \in ApplicableCells(g)}
    /\ \A d \in ItemsOf(g.directs) :
          /\ d.suite = g.suite.id
          /\ d.provider = ProviderOf(Records(g), d.path)
          /\ d.transport = Entry(Records(g), d.path).transport

\* validate_qveris_direct_binding.
QverisMatches(g) ==
    /\ g.qveris.suite = g.suite.id
    /\ g.qveris.path \in ItemsOf(g.suite.paths)
    /\ g.qveris.path \in AllPaths(Records(g))
    /\ g.qveris.provider = ProviderOf(Records(g), g.qveris.path)
    /\ IncludedIn(Records(g), g.qveris.path)

Compiles(g) == Frozen(Records(g)) /\ PathsResolve(g) /\ BindingsMatch(g)

\* What the program makes of all it has read.
Accepts(g) ==
    CASE purpose \in {"freeze", "plan"} -> Compiles(g)
      [] purpose = "bind"   -> Compiles(g) /\ DirectsMatch(g)
      [] purpose = "qveris" -> Frozen(Records(g)) /\ QverisMatches(g)

-----------------------------------------------------------------------------
(***************************************************************************)
(* The program                                                             *)
(***************************************************************************)
Init ==
    /\ RegistryInit
    /\ docs = Documents
    /\ purpose = "none"
    /\ got = Nothing
    /\ results = [u \in Purposes |-> NoResult]
    /\ compiles = 0

Begin(u) ==
    /\ purpose = "none"
    /\ compiles < MaxCompiles
    /\ compiles' = compiles + 1
    /\ purpose' = u
    /\ UNCHANGED <<docs, got, results>>

NextRead == ReadOrder(purpose)[Cardinality(DOMAIN got) + 1]
AllRead  == Cardinality(DOMAIN got) = Len(ReadOrder(purpose))
Content(k) == IF k \in Files THEN registry[k] ELSE docs[k]
With(k)  == [j \in DOMAIN got \cup {k} |-> IF j = k THEN Content(k) ELSE got[j]]

\* Mutant of Read: a provider file that does not load is passed over.
ReadTolerant ==
    /\ purpose # "none" /\ ~AllRead
    /\ LET k == NextRead IN
          IF k \in Files /\ ~Loads(Content(k))
          THEN got' = [j \in DOMAIN got \cup {k} |->
                         IF j = k THEN [provider |-> k, paths |-> Nothing] ELSE got[j]]
          ELSE Passes(k, With(k)) /\ got' = With(k)
    /\ UNCHANGED <<docs, purpose, results, compiles>>

\* One more document is read and checked.
Read ==
    /\ purpose # "none" /\ ~AllRead
    /\ LET k == NextRead IN Passes(k, With(k)) /\ got' = With(k)
    /\ UNCHANGED <<docs, purpose, results, compiles>>

\* Mutant of Fail: what was read is kept for the next program.
FailKeepsRead ==
    /\ purpose # "none"
    /\ IF AllRead THEN ~Accepts(got) ELSE ~Passes(NextRead, With(NextRead))
    /\ purpose' = "none"
    /\ UNCHANGED <<docs, got, results, compiles>>

Fail ==
    /\ purpose # "none"
    /\ IF AllRead THEN ~Accepts(got) ELSE ~Passes(NextRead, With(NextRead))
    /\ purpose' = "none" /\ got' = Nothing
    /\ UNCHANGED <<docs, results, compiles>>

\* write_bytes empties the output first; bind and qveris have none.
TruncateOutput ==
    /\ purpose \in {"freeze", "plan"}
    /\ AllRead /\ Accepts(got)
    /\ results[purpose] # TornResult
    /\ results' = [results EXCEPT ![purpose] = TornResult]
    /\ UNCHANGED <<docs, purpose, got, compiles>>

\* The output is written; what it holds follows from what was read.
Finish ==
    /\ purpose # "none"
    /\ AllRead /\ Accepts(got)
    /\ purpose \in {"freeze", "plan"} => results[purpose] = TornResult
    /\ results' = [results EXCEPT ![purpose] = got]
    /\ purpose' = "none" /\ got' = Nothing
    /\ UNCHANGED <<docs, compiles>>

\* An author commits other versions of one document or of several.
Revise ==
    /\ changes < MaxChanges
    /\ changes' = changes + 1
    /\ \E r \in Revisions :
          docs' = [k \in DocumentNames |-> IF k \in DOMAIN r THEN r[k] ELSE docs[k]]
    /\ UNCHANGED <<registry, opc, draft, standing, overlapped, purpose, got, results, compiles>>

Next ==
    \/ RegistryNext /\ UNCHANGED suiteVars
    \/ /\ \/ \E u \in Purposes : Begin(u)
          \/ Read \/ Fail \/ TruncateOutput \/ Finish
       /\ UNCHANGED registryVars
    \/ Revise

Spec == Init /\ [][Next]_vars

-----------------------------------------------------------------------------
(***************************************************************************)
(* Properties                                                              *)
(***************************************************************************)
Written(u) == results[u] \notin {NoResult, TornResult}

\* What a program has read is a prefix of what it reads, and every file of a
\* result has been read as a whole.
SuiteTypeOK ==
    /\ DOMAIN registry = Files
    /\ \A f \in Files : registry[f] # Torn => \A p \in PathsIn(registry[f]) :
          registry[f].paths[p].qualification # Undecided
             => registry[f].paths[p].qualification.disposition \in Dispositions
    /\ \A o \in Operators :
          /\ opc[o] \in {"ready", "validated", "loaded", "truncated", "written", "done"}
          /\ opc[o] \in {"loaded", "truncated"} => draft[o] # Torn
    /\ changes \in 0..MaxChanges /\ compiles \in 0..MaxCompiles
    /\ DOMAIN docs = DocumentNames
    /\ purpose \in Purposes \cup {"none"}
    /\ purpose = "none" => got = Nothing
    /\ purpose # "none" =>
          DOMAIN got = {ReadOrder(purpose)[i] : i \in 1..Cardinality(DOMAIN got)}
    /\ \A u \in Purposes : Written(u) =>
          /\ DOMAIN results[u] = ItemsOf(ReadOrder(u))
          /\ \A f \in Files : results[u][f] # Torn

\* docs/provider-qualification-policy.md: an unavailable provider is an explicit
\* exclusion "rather than silent drops".  The cohort a suite is frozen with, or a
\* plan is made of, has every provider of the registry and a terminal decision for
\* each of its access paths, whatever is being written while the registry is read.
CohortIsWhole ==
    \A u \in Purposes : Written(u) =>
        /\ {results[u][f].provider : f \in Files} = {Checkout[f].provider : f \in Files}
        /\ \A f \in Files :
              /\ PathsIn(results[u][f]) # {}
              /\ \A p \in PathsIn(results[u][f]) :
                    results[u][f].paths[p].qualification # Undecided

\* The fingerprint a release pins identifies the plan: two compiles of which an
\* author or an operator changed anything in between either differ in it or agree
\* on every cell, its input, and why it does or does not apply.
FingerprintIdentifiesPlan ==
    \A u, w \in {"freeze", "plan", "bind"} :
        Written(u) /\ Written(w) /\ Snapshot(results[u]) = Snapshot(results[w])
            => Plan(results[u]) = Plan(results[w])

\* The Agent only ever gets the tool of its protocol: the interface is compared
\* when the paths are resolved, for eligible paths only, and eligibility is asked
\* again when the cells are expanded.
AgentCellsUseTheCanonicalTool ==
    \A u \in {"freeze", "plan", "bind"} : Written(u) =>
        \A cell \in ApplicableCells(results[u]) : cell.mode = "agent_trial" =>
            Entry(Records(results[u]), cell.path).interface = results[u].suite.tool

\* A registry of Direct bindings validated against one compile serves every plan
\* with the same fingerprint: for_cell finds one binding for each applicable cell,
\* and it is for the provider and the transport the plan's snapshot registers.
ValidatedBindingsResolve ==
    /\ Written("bind") /\ Written("plan")
    /\ Snapshot(results["bind"]) = Snapshot(results["plan"])
    => \A cell \in ApplicableCells(results["plan"]) :
          LET matches == {i \in 1..Len(results["bind"].directs) :
                             /\ results["bind"].directs[i].case = cell.case
                             /\ results["bind"].directs[i].path = cell.path}
          IN  /\ Cardinality(matches) = 1
              /\ \A i \in matches :
                    /\ results["bind"].directs[i].provider = cell.provider
                    /\ results["bind"].directs[i].transport =
                          Entry(Records(results["plan"]), cell.path).transport
=============================================================================
