----------------------------- MODULE AgentTrial -----------------------------
(***************************************************************************)
(* One trial of src/qveris_bench/agents: the model is asked once, with one *)
(* tool, and the call it proposes is checked and passed to the invoker.    *)
(* The invoker is the one the repository's tests give it: it compares the  *)
(* proposal with the frozen run (frozen.py) and calls the provider.        *)
(*                                                                         *)
(* A value is known by the JSON kind it parses to.  `elapsed' is the time  *)
(* since the start of the trial, in ticks.                                 *)
(***************************************************************************)
EXTENDS Integers

CONSTANTS
    Canonical,      \* the protocol's canonical_tool
    OtherTool,
    Timeout,        \* timeout_seconds
    MaxElapsed,     \* bound: a tool that is not awaited ends by then
    TokenBudget,    \* token_budget
    Frozen,         \* the frozen parameters: a function of names to values
    Exposed,        \* exposed_parameter_names
    Schema,         \* the declared types: a function of names to types
    Required,       \* the schema's required names
    Closed,         \* "yes": additionalProperties is False
    KindOf,         \* the kind of every value an answer may hold
    Proposals       \* the argument objects the model may propose

ASSUME TrialAssumption ==
    /\ {Timeout, MaxElapsed, TokenBudget} \subseteq Nat \ {0}
    /\ Timeout < MaxElapsed
    /\ Closed \in {"yes", "no"}
    /\ Exposed \subseteq DOMAIN Frozen
    /\ \A p \in Proposals : \A n \in DOMAIN p : p[n] \in DOMAIN KindOf

\* A JSON object maps names to values.
ASSUME ProposalsAreFunctions == \A p \in Proposals : p = [n \in DOMAIN p |-> p[n]]

NoTokens == -1      \* usage absent, negative or not an integer

Arguments ==
    [form : {"object"}, given : Proposals]
        \cup [form : {"notJson", "notObject"}, given : {<<>>}]

\* An answer of the Responses API.
Answers ==
    [calls : 0 .. 2, others : {"reasoning", "message"},
     call : {"whole", "malformed"}, tokens : {NoTokens, TokenBudget, TokenBudget + 1},
     tool : {Canonical, OtherTool}, arguments : Arguments]

NoAnswer ==
    [calls |-> 0, others |-> "reasoning", call |-> "whole", tokens |-> NoTokens,
     tool |-> Canonical, arguments |-> [form |-> "notJson", given |-> <<>>]]

VARIABLES
    invoker,        \* "sync": runs to its end when called; "async": awaited
    step,           \* "asking", "answered", "invoking" or "ended"
    answer,
    elapsed,
    deadline,       \* when wait_for gives the awaited tool up
    invoked,        \* how often the provider was called
    ending          \* how run() ended

trialVars == <<invoker, step, answer, elapsed, deadline, invoked, ending>>

TrialInit ==
    /\ invoker \in {"sync", "async"}
    /\ step = "asking"
    /\ answer = NoAnswer
    /\ elapsed = 0
    /\ deadline = Timeout
    /\ invoked = 0
    /\ ending = "none"

End(how) == step' = "ended" /\ ending' = how

-----------------------------------------------------------------------------
(* The checks of an answer                                                 *)

FitsType(type, kind) ==
    \/ type = "none"
    \/ type = "string" /\ kind = "text"
    \/ type = "number" /\ kind \in {"int", "float"}
    \/ type = "boolean" /\ kind = "bool"

ValidArguments(args) ==
    /\ Required \subseteq DOMAIN args
    /\ Closed = "yes" => DOMAIN args \subseteq DOMAIN Schema
    /\ \A n \in DOMAIN args \cap DOMAIN Schema : FitsType(Schema[n], KindOf[args[n]])

OneFunctionCall(a) == a.others = "reasoning" /\ a.calls = 1 /\ a.call = "whole"

WithinBudget(a) == a.tokens \in 0 .. TokenBudget

Admitted(a) ==
    /\ OneFunctionCall(a)
    /\ WithinBudget(a)
    /\ a.tool = Canonical
    /\ a.arguments.form = "object"
    /\ ValidArguments(a.arguments.given)

Agrees(proposed) ==
    /\ DOMAIN proposed = Exposed
    /\ \A n \in Exposed : proposed[n] = Frozen[n]

-----------------------------------------------------------------------------
(* The trial                                                               *)

\* Time passes while the model or the tool is waited for.  wait_for ends the
\* wait at its deadline; nothing ends a tool that is not awaited.
Tick ==
    /\ \/ step = "asking" /\ elapsed < Timeout
       \/ step = "invoking" /\ invoker = "async" /\ elapsed < deadline
       \/ step = "invoking" /\ invoker = "sync" /\ elapsed < MaxElapsed
    /\ elapsed' = elapsed + 1
    /\ UNCHANGED <<invoker, step, answer, deadline, invoked, ending>>

ModelAnswers ==
    /\ step = "asking"
    /\ answer' \in Answers
    /\ step' = "answered"
    /\ UNCHANGED <<invoker, elapsed, deadline, invoked, ending>>

ModelFails ==
    /\ step = "asking"
    /\ \/ End("raised")
       \/ elapsed = Timeout /\ End("timedOut")
    /\ UNCHANGED <<invoker, answer, elapsed, deadline, invoked>>

\* The invoker is called at most once, with what is left of the time: never
\* less than a moment, so a tool may start when nothing is left.
CheckAnswer ==
    /\ step = "answered"
    /\ IF Admitted(answer)
       THEN /\ step' = "invoking"
            /\ deadline' = IF elapsed < Timeout THEN Timeout ELSE elapsed + 1
            /\ UNCHANGED ending
       ELSE End("refused") /\ UNCHANGED deadline
    /\ UNCHANGED <<invoker, answer, elapsed, invoked>>

Deliver ==
    /\ step = "invoking" /\ invoked = 0
    /\ IF Agrees(answer.arguments.given)
       THEN invoked' = invoked + 1 /\ UNCHANGED <<step, ending>>
       ELSE End("refused") /\ UNCHANGED invoked
    /\ UNCHANGED <<invoker, answer, elapsed, deadline>>

\* Mutant of ToolReturns: the time is not looked at again after the tool ran.
AnyAnswerInTime ==
    /\ step = "invoking" /\ invoked > 0
    /\ End("trace")
    /\ UNCHANGED <<invoker, answer, elapsed, deadline, invoked>>

ToolReturns ==
    /\ step = "invoking" /\ invoked > 0
    /\ End(IF elapsed > Timeout THEN "late" ELSE "trace")
    /\ UNCHANGED <<invoker, answer, elapsed, deadline, invoked>>

ToolFails ==
    /\ step = "invoking"
    /\ \/ invoked > 0 /\ End("raised")
       \/ invoker = "async" /\ elapsed >= deadline /\ End("timedOut")
    /\ UNCHANGED <<invoker, answer, elapsed, deadline, invoked>>

TrialNext ==
    \/ Tick
    \/ ModelAnswers
    \/ ModelFails
    \/ CheckAnswer
    \/ Deliver
    \/ ToolReturns
    \/ ToolFails

-----------------------------------------------------------------------------
(* Whatever the model proposes and however slow it or the tool is, the     *)
(* provider is called at most once, only for one call within the token     *)
(* budget that proposes the frozen values of the exposed parameters, and   *)
(* not at all for a refused answer; a trace is returned only when the tool *)
(* call ended inside the frozen timeout, counted from the start of the     *)
(* trial.  A late answer is dropped though the provider was called         *)
(* (agents/base.py:46-88, frozen.py:10-22).                                *)
TraceFollowsTheProtocol ==
    /\ invoked > 0 =>
           /\ invoked = 1
           /\ answer.tokens \in 0 .. TokenBudget
           /\ answer.calls = 1
           /\ answer.arguments.given = [n \in Exposed |-> Frozen[n]]
    /\ ending = "refused" => invoked = 0
    /\ ending = "trace" => invoked = 1 /\ elapsed <= Timeout
    /\ ending = "late" => invoked = 1 /\ elapsed > Timeout
=============================================================================
