---------------------------- MODULE MCLocalProbes ----------------------------
(***************************************************************************)
(* The programs that are run on an engineer's machine: one trial of the    *)
(* agent interface, or probes of both kinds with the article rendered from *)
(* their files.  They share no state: a behaviour is one or the other.     *)
(***************************************************************************)
EXTENDS AgentTrial, ProbeBatch, TLC

VARIABLE program    \* "trial" or "probes"

vars == <<program, trialVars, probeVars>>

MCKindOf == [spy |-> "text", qqq |-> "text", seven |-> "int"]
MCFrozen == [symbol |-> "spy", function |-> "profile"]
MCSchema == [symbol |-> "string"]
MCProposals ==
    {[symbol |-> "spy"], [symbol |-> "qqq"], [symbol |-> "seven"],
     [limit |-> "seven"], [symbol |-> "spy", limit |-> "seven"]}

MCParamType == [symbol |-> "string", limit |-> "integer"]
MCValueKind == [spy |-> "text", qqq |-> "text", seven |-> "int", none |-> "null"]

Positive == [id |-> "positive", control |-> "no"]
Control == [id |-> "control", control |-> "yes"]
Question == [id |-> "question", expected |-> [symbol |-> "spy"], forbidden |-> {"limit"}]

Probe(provider, path, cases) ==
    [provider |-> provider, path |-> path, cases |-> cases]

\* Two fixtures that share a provider, one that probes two paths of it.
MCFixtures ==
    {[program |-> "direct", probes |-> <<Probe("p1", "a", <<Positive>>),
                                         Probe("p2", "b", <<Control>>)>>],
     [program |-> "direct", probes |-> <<Probe("p1", "a", <<Positive>>),
                                         Probe("p1", "c", <<Positive>>)>>],
     [program |-> "fill", probes |-> <<Probe("p1", "a", <<Question, Question>>)>>],
     [program |-> "recovery", probes |-> <<Probe("p1", "a", <<Question>>)>>]}

MCCallAnswers ==
    {[status |-> 200, data |-> "rows"], [status |-> 200, data |-> "rejection"]}

Message(calls, args) ==
    [calls |-> calls, tool |-> "contract", form |-> "object", args |-> args]

MCMessages ==
    {Message(0, <<>>), Message(1, [symbol |-> "spy"]), Message(1, [symbol |-> "qqq"]),
     Message(1, [symbol |-> "spy", limit |-> "seven"])}

Former(provider, case) ==
    [at |-> 1, provider |-> provider, case |-> case, round |-> 1,
     state |-> "passed", raw |-> "no"]

MCEarlier ==
    [direct |-> <<Former("p1", "positive"), Former("p2", "positive")>>,
     fill |-> <<Former("p1", "question")>>,
     recovery |-> <<Former("p1", "question")>>]

Symmetry == Permutations(Runs)

Init == program \in {"trial", "probes"} /\ TrialInit /\ ProbeInit

Next ==
    \/ program = "trial" /\ TrialNext /\ UNCHANGED <<program, probeVars>>
    \/ program = "probes" /\ ProbeNext /\ UNCHANGED <<program, trialVars>>

Spec == Init /\ [][Next]_vars
=============================================================================
