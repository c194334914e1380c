---------------------------- MODULE AgentScoring ----------------------------
(***************************************************************************)
(* How the agent probes grade one message of the model:                    *)
(* src/qveris_bench/agent_trial/param_fill.py and error_recovery.py.  Pure *)
(* functions of the tool contract, the question and the message.           *)
(***************************************************************************)
EXTENDS FiniteSets, Integers

CONSTANTS
    ParamType,      \* the contract's parameters: names to declared types
    RequiredParams, \* the names of those that are required
    ValueKind       \* what a value parses to: "text", "blank", "int", "float",
                    \* "bool", "list", "object", "null" or "empty" (the string "")

ASSUME ContractAssumption == RequiredParams \subseteq DOMAIN ParamType

FailureModes ==
    {"pass", "no_tool_call", "multiple_tools", "wrong_tool", "malformed_arguments",
     "missing_required", "type_invalid", "forbidden_param", "semantics_mismatch"}

\* A declared type that is none of the six is not checked.
TypeValid(type, kind) ==
    CASE type = "string" -> kind = "text"
      [] type = "number" -> kind \in {"int", "float"}
      [] type = "integer" -> kind = "int"
      [] type = "boolean" -> kind = "bool"
      [] type = "array" -> kind = "list"
      [] type = "object" -> kind = "object"
      [] OTHER -> TRUE

RequiredPresent(args) ==
    \A n \in RequiredParams : n \in DOMAIN args /\ ValueKind[args[n]] \notin {"null", "empty"}

ValueValid(args) ==
    \A n \in DOMAIN ParamType \cap DOMAIN args : TypeValid(ParamType[n], ValueKind[args[n]])

NoForbidden(question, args) ==
    /\ DOMAIN args \subseteq DOMAIN ParamType
    /\ question.forbidden \cap DOMAIN args = {}

\* Values are compared after normalize_value: two spellings of a value are one here.
SemanticsMatch(expected, args) ==
    \A n \in DOMAIN expected : n \in DOMAIN args /\ args[n] = expected[n]

\* One call, of the contract's tool, with an object as its arguments.
Callable(message) ==
    message.calls = 1 /\ message.tool = "contract" /\ message.form = "object"

\* evaluate_tool_call: the call passes all five checks.
FillPasses(question, message) ==
    /\ Callable(message)
    /\ RequiredPresent(message.args)
    /\ ValueValid(message.args)
    /\ NoForbidden(question, message.args)
    /\ SemanticsMatch(question.expected, message.args)

\* classify_failure: the first check that does not hold.
FailureMode(question, message) ==
    CASE message.calls = 0 -> "no_tool_call"
      [] message.calls > 1 -> "multiple_tools"
      [] message.tool # "contract" -> "wrong_tool"
      [] message.form # "object" -> "malformed_arguments"
      [] ~RequiredPresent(message.args) -> "missing_required"
      [] ~ValueValid(message.args) -> "type_invalid"
      [] ~NoForbidden(question, message.args) -> "forbidden_param"
      [] ~SemanticsMatch(question.expected, message.args) -> "semantics_mismatch"
      [] OTHER -> "pass"

\* evaluate_recovery: neither the required parameters nor the types are looked
\* at, and whether the message names the error is recorded but not needed.
RecoveryPasses(question, message) ==
    /\ Callable(message)
    /\ SemanticsMatch(question.expected, message.args)
    /\ NoForbidden(question, message.args)
=============================================================================
