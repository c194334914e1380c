-------------------------- MODULE LocalProbeProofs --------------------------
(***************************************************************************)
(* Whatever a model answers and however long it and the tool take, a trial *)
(* follows its protocol: for any schema, frozen parameters, token budget   *)
(* and timeout.  And however many probes run, fail and die, their shared   *)
(* files hold what each of them got: for any fixtures and former lines.    *)
(***************************************************************************)
EXTENDS AgentTrial, ProbeBatch, FiniteSetTheorems, SequenceTheorems, WellFoundedInduction,
        TLAPS

TrialSpec == TrialInit /\ [][TrialNext]_trialVars

\* What an answer has passed before the provider is called.
Cleared == Admitted(answer) /\ Agrees(answer.arguments.given)

TrialInv ==
    /\ elapsed \in Nat
    /\ answer.arguments.given \in Proposals \/ ~Admitted(answer)
    /\ invoked \in {0, 1}
    /\ invoked = 1 => Cleared
    /\ step \in {"asking", "answered"} => invoked = 0
    /\ step = "invoking" => Admitted(answer)
    /\ step # "ended" => ending = "none"
    /\ ending = "refused" => invoked = 0
    /\ ending = "trace" => invoked = 1 /\ elapsed <= Timeout
    /\ ending = "late" => invoked = 1 /\ elapsed > Timeout
-----------------------------------------------------------------------------
\* The answer of an admitted call is one of the proposals.
LEMMA AdmittedIsProposed ==
  ASSUME NEW a \in Answers, Admitted(a)
  PROVE  a.arguments.given \in Proposals
BY DEF Answers, Arguments, Admitted

LEMMA NoAnswerIsRefused == ~Admitted(NoAnswer)
BY DEF NoAnswer, Admitted, OneFunctionCall

LEMMA TrialStarts == TrialInit => TrialInv
BY NoAnswerIsRefused DEF TrialInit, TrialInv

LEMMA TrialKeeps == TrialInv /\ [TrialNext]_trialVars => TrialInv'
<1> SUFFICES ASSUME TrialInv, [TrialNext]_trialVars PROVE TrialInv'
  OBVIOUS
<1> USE DEF TrialInv, Cleared, End
<1>t. Timeout \in Nat
  BY TrialAssumption DEF TrialAssumption
<1>same. answer' = answer =>
           /\ Admitted(answer)' = Admitted(answer)
           /\ Agrees(answer.arguments.given)' = Agrees(answer.arguments.given)
  BY DEF Admitted, Agrees, OneFunctionCall, WithinBudget
<1>1. CASE Tick
  BY <1>1, <1>t, <1>same DEF Tick
<1>2. CASE ModelAnswers
  <2>1. answer' \in Answers /\ (Admitted(answer)' => answer'.arguments.given \in Proposals)
    BY <1>2, AdmittedIsProposed DEF ModelAnswers, Admitted, OneFunctionCall, WithinBudget
  <2> QED
    BY <1>2, <2>1 DEF ModelAnswers
<1>3. CASE ModelFails
  BY <1>3, <1>same DEF ModelFails
<1>4. CASE CheckAnswer
  BY <1>4, <1>same DEF CheckAnswer
<1>5. CASE Deliver
  BY <1>5, <1>same DEF Deliver
<1>6. CASE ToolReturns
  BY <1>6, <1>t, <1>same DEF ToolReturns
<1>7. CASE ToolFails
  BY <1>7, <1>same DEF ToolFails
<1>8. CASE UNCHANGED trialVars
  BY <1>8, <1>same DEF trialVars
<1> QED
  BY <1>1, <1>2, <1>3, <1>4, <1>5, <1>6, <1>7, <1>8 DEF TrialNext

LEMMA TrialInvImplies == TrialInv => TraceFollowsTheProtocol
<1> SUFFICES ASSUME TrialInv PROVE TraceFollowsTheProtocol
  OBVIOUS
<1>1. ASSUME invoked > 0
      PROVE  /\ invoked = 1 /\ answer.tokens \in 0 .. TokenBudget /\ answer.calls = 1
             /\ answer.arguments.given = [n \in Exposed |-> Frozen[n]]
  <2>1. invoked = 1 /\ Cleared
    BY <1>1 DEF TrialInv
  <2>2. answer.tokens \in 0 .. TokenBudget /\ answer.calls = 1
    BY <2>1 DEF Cleared, Admitted, OneFunctionCall, WithinBudget
  <2> DEFINE given == answer.arguments.given
  <2>3. given \in Proposals /\ DOMAIN given = Exposed /\ \A n \in Exposed : given[n] = Frozen[n]
    BY <2>1 DEF TrialInv, Cleared, Agrees
  \* A proposal is a function, so one that agrees is the frozen one.
  <2>4. given = [n \in DOMAIN given |-> given[n]]
    BY <2>3, ProposalsAreFunctions DEF ProposalsAreFunctions
  <2> HIDE DEF given
  <2>5. given = [n \in Exposed |-> Frozen[n]]
    BY <2>3, <2>4
  <2> QED
    BY <2>1, <2>2, <2>5 DEF given
<1> QED
  BY <1>1 DEF TrialInv, TraceFollowsTheProtocol

\* A trial follows its protocol: the provider is called at most once, only for an
\* answer within the budget that proposes the frozen values, never for a refused
\* one, and a trace is only returned in time (agents/base.py:46-88).
THEOREM TrialsFollowTheProtocol == TrialSpec => []TraceFollowsTheProtocol
<1>1. TrialInit => TrialInv
  BY TrialStarts
<1>2. TrialInv /\ [TrialNext]_trialVars => TrialInv'
  BY TrialKeeps
<1>3. TrialInv => TraceFollowsTheProtocol
  BY TrialInvImplies
<1> QED
  BY <1>1, <1>2, <1>3, PTL DEF TrialSpec

-----------------------------------------------------------------------------
(***************************************************************************)
(* The probes: processes and lines                                         *)
(***************************************************************************)
ProbeSpec == ProbeInit /\ [][ProbeNext]_probeVars

IsSeq(s) == Len(s) \in Nat /\ s = [k \in 1 .. Len(s) |-> s[k]]

IsRecord(x) ==
    x = [at |-> x.at, provider |-> x.provider, case |-> x.case, round |-> x.round,
         state |-> x.state, raw |-> x.raw]

IsRun(st) ==
    /\ st = [pc |-> st.pc, fixture |-> st.fixture, keepRaw |-> st.keepRaw,
             results |-> st.results, search |-> st.search, broken |-> st.broken,
             done |-> st.done, at |-> st.at]
    /\ st.results = [i \in DOMAIN st.results |-> st.results[i]]
    /\ \A i \in DOMAIN st.results :
          /\ IsSeq(st.results[i])
          /\ \A j \in DOMAIN st.results[i] : IsRecord(st.results[i][j])

\* A process whose calls are over, and one that has its stamp.
Gathered  == {"keeping", "stamping", "writing", "done", "dead"}
HasStamp  == {"writing", "done", "dead"}

RunOK(r) ==
    /\ IsRun(run[r]) /\ IsFiniteSet(Places(r))
    /\ run[r].pc \in {"idle", "calling", "lost"} \cup Gathered
    /\ run[r].pc \notin {"idle", "lost"} => run[r].fixture.program \in Programs
    /\ IF run[r].pc \in HasStamp THEN run[r].at \in 2 .. stamp ELSE run[r].at = 0
    /\ run[r].done \subseteq Places(r)
    /\ run[r].pc \notin {"keeping"} \cup HasStamp => run[r].done = {}
    /\ run[r].pc = "done" => run[r].done = Places(r)
    /\ run[r].pc = "keeping" => run[r].done \subseteq Raw(r) /\ run[r].keepRaw = "yes"

RunsOK ==
    /\ run = [r \in Runs |-> run[r]]
    /\ stamp \in Nat \ {0}
    /\ \A r \in Runs : RunOK(r)
    /\ \A r, s \in Runs : run[r].pc \in HasStamp /\ run[r].at = run[s].at => r = s

Writer(r, p) == run[r].pc \in HasStamp /\ run[r].fixture.program = p

\* A line is one of the former batch, half a line, or a result of a process.
FilesOK ==
    /\ files = [p \in Programs |-> files[p]]
    /\ \A p \in Programs :
          /\ IsSeq(files[p])
          /\ Len(Earlier[p]) <= Len(files[p])
          /\ \A k \in 1 .. Len(Earlier[p]) : files[p][k] = Earlier[p][k]
          /\ \A k \in 1 .. Len(files[p]) : k > Len(Earlier[p]) =>
                \/ files[p][k] = Torn
                \/ \E r \in Runs : /\ Writer(r, p)
                                   /\ \E x \in run[r].done : files[p][k] = Line(r, x)

\* The lines of one process, by provider, and the results it has written.
LinesOf(lines, at, y)  == {k \in DOMAIN lines : lines[k].at = at /\ lines[k].provider = y}
LinesPassed(lines, at, y) == {k \in LinesOf(lines, at, y) : lines[k].state = "passed"}
DoneOf(r, y)     == {x \in run[r].done : Result(r, x).provider = y}
DonePassed(r, y) == {x \in DoneOf(r, y) : Result(r, x).state = "passed"}

Unbroken(lines) == \A k \in DOMAIN lines : lines[k] # Torn

\* In a file without half lines a process has as many lines as it has written.
Counted(r, p) ==
    \A y : /\ Cardinality(LinesOf(files[p], run[r].at, y)) = Cardinality(DoneOf(r, y))
           /\ Cardinality(LinesPassed(files[p], run[r].at, y)) = Cardinality(DonePassed(r, y))

CountsOK == \A r \in Runs, p \in Programs :
    Writer(r, p) /\ Unbroken(files[p]) => Counted(r, p)

\* The places whose raw answers have been kept.
KeptBy(r) == IF run[r].pc = "keeping" THEN run[r].done ELSE Raw(r)

KeepsRaw(r) == run[r].keepRaw = "yes" /\ run[r].pc \in Gathered

\* The file `id` has the answer that s got at the place x.
HoldsAnswer(id, s, x) ==
    /\ s \in Runs /\ run[s].keepRaw = "yes" /\ run[s].pc \in Gathered \cup {"lost"}
    /\ run[s].pc \in Gathered => x \in KeptBy(s) /\ EvidenceId(Result(s, x)) = id

RawOK ==
    /\ \A r \in Runs : KeepsRaw(r) => \A x, y \in KeptBy(r) :
          /\ EvidenceId(Result(r, x)) \in DOMAIN rawFiles
          /\ EvidenceId(Result(r, x)) = EvidenceId(Result(r, y)) => x = y
    /\ \A id \in DOMAIN rawFiles : HoldsAnswer(id, rawFiles[id][1], rawFiles[id][2])

ProbeInv == RunsOK /\ FilesOK /\ CountsOK /\ RawOK
-----------------------------------------------------------------------------
(***************************************************************************)
(* Steps that write nothing                                                *)
(***************************************************************************)
LEMMA AppendIsSeq ==
    ASSUME NEW s, NEW e, IsSeq(s)
    PROVE  /\ IsSeq(Append(s, e)) /\ DOMAIN s = 1 .. Len(s)
           /\ Len(Append(s, e)) = Len(s) + 1 /\ DOMAIN Append(s, e) = 1 .. Len(s) + 1
           /\ \A k \in 1 .. Len(s) : Append(s, e)[k] = s[k]
           /\ Append(s, e)[Len(s) + 1] = e
<1> DEFINE T == {s[k] : k \in 1 .. Len(s)} \cup {e}
           t == Append(s, e)
<1>1. s \in Seq(T) /\ DOMAIN s = 1 .. Len(s)
  BY DEF IsSeq
<1>2. e \in T
  OBVIOUS
<1>3. /\ t \in Seq(T) /\ Len(t) = Len(s) + 1
      /\ \A k \in 1 .. Len(s) : t[k] = s[k]
      /\ t[Len(s) + 1] = e
  <2> HIDE DEF T
  <2> QED BY <1>1, <1>2, AppendProperties
<1>4. IsSeq(t) /\ DOMAIN t = 1 .. Len(t)
  <2> HIDE DEF T, t
  <2>1. t \in [1 .. Len(t) -> T] /\ Len(t) \in Nat
    BY <1>3, LenProperties
  <2> QED BY <2>1 DEF IsSeq
<1> QED BY <1>1, <1>3, <1>4

LEMMA EmptyIsSeq == IsSeq(<<>>) /\ DOMAIN <<>> = {}
  BY DEF IsSeq

LEMMA PlaceIn ==
    ASSUME NEW r, NEW x
    PROVE  x \in Places(r) <=> \E i \in DOMAIN run[r].results :
                                  \E j \in DOMAIN run[r].results[i] : x = <<i, j>>
  BY DEF Places

LEMMA ResultIsRecord ==
    ASSUME NEW r, RunOK(r), NEW x \in Places(r)
    PROVE  /\ IsRecord(Result(r, x)) /\ IsRecord(Line(r, x))
           /\ Line(r, x).at = run[r].at
           /\ Line(r, x).provider = Result(r, x).provider
           /\ Line(r, x).state = Result(r, x).state
           /\ Line(r, x).raw = Result(r, x).raw
           /\ EvidenceId(Line(r, x)) = EvidenceId(Result(r, x))
<1>1. PICK i \in DOMAIN run[r].results :
                \E j \in DOMAIN run[r].results[i] : x = <<i, j>>
  BY PlaceIn
<1>2. IsRecord(Result(r, x))
  BY <1>1 DEF RunOK, IsRun, Result
<1>3. PICK z : z = Result(r, x)
  OBVIOUS
<1>4. Line(r, x) = [z EXCEPT !.at = run[r].at] /\ IsRecord(z)
  BY <1>2, <1>3 DEF Line
<1>5. /\ IsRecord(Line(r, x)) /\ Line(r, x).at = run[r].at
      /\ Line(r, x).provider = z.provider /\ Line(r, x).state = z.state
      /\ Line(r, x).raw = z.raw /\ Line(r, x).case = z.case /\ Line(r, x).round = z.round
  BY <1>4 DEF IsRecord
<1> QED BY <1>2, <1>3, <1>5 DEF EvidenceId

\* Nobody but r moves.
OnlyRun(r) ==
    /\ run' = [s \in Runs |-> run'[s]]
    /\ \A s \in Runs \ {r} : run'[s] = run[s]

LEMMA OthersAreAsBefore ==
    ASSUME NEW s, run'[s] = run[s]
    PROVE  /\ Places(s)' = Places(s) /\ Raw(s)' = Raw(s) /\ KeptBy(s)' = KeptBy(s)
           /\ KeepsRaw(s)' = KeepsRaw(s)
           /\ \A x : Result(s, x)' = Result(s, x) /\ Line(s, x)' = Line(s, x)
           /\ \A p : Writer(s, p)' = Writer(s, p)
           /\ \A y : DoneOf(s, y)' = DoneOf(s, y) /\ DonePassed(s, y)' = DonePassed(s, y)
<1>1. Places(s)' = Places(s) /\ \A x : Result(s, x)' = Result(s, x)
  BY DEF Places, Result
<1>2. Raw(s)' = Raw(s)
  BY <1>1 DEF Raw
<1>3. KeptBy(s)' = KeptBy(s) /\ KeepsRaw(s)' = KeepsRaw(s)
  BY <1>2 DEF KeptBy, KeepsRaw
<1>4. \A x : Line(s, x)' = Line(s, x)
  BY <1>1 DEF Line
<1>5. \A p : Writer(s, p)' = Writer(s, p)
  BY DEF Writer
<1>6. \A y : DoneOf(s, y)' = DoneOf(s, y) /\ DonePassed(s, y)' = DonePassed(s, y)
  BY <1>1 DEF DoneOf, DonePassed
<1> QED BY <1>1, <1>2, <1>3, <1>4, <1>5, <1>6

LEMMA OthersStayOK ==
    ASSUME NEW s, run'[s] = run[s], RunOK(s), stamp' \in Nat, stamp \in Nat, stamp <= stamp'
    PROVE  RunOK(s)'
  BY OthersAreAsBefore DEF RunOK

\* A step of a process that has no stamp and gets none changes no file.
LEMMA QuietKeeps ==
    ASSUME ProbeInv, NEW r \in Runs, OnlyRun(r), UNCHANGED <<files, rawFiles, stamp>>,
           run[r].pc \notin HasStamp, run'[r].pc \notin HasStamp, RunOK(r)',
           run[r].pc = "idle" \/ run'[r].keepRaw = run[r].keepRaw,
           run[r].pc \in Gathered \cup {"lost"} => run'[r].pc \in Gathered \cup {"lost"},
           KeepsRaw(r)' => \/ KeptBy(r)' = {} /\ run[r].pc \notin Gathered \cup {"lost"}
                           \/ /\ KeepsRaw(r) /\ KeptBy(r)' = KeptBy(r)
                              /\ \A x : Result(r, x)' = Result(r, x)
    PROVE  ProbeInv'
<1> USE DEF ProbeInv
<1>1. \A s \in Runs : RunOK(s)'
  <2>1. ASSUME NEW s \in Runs, s # r PROVE RunOK(s)'
    <3>1. run'[s] = run[s] /\ RunOK(s)
      BY <2>1 DEF OnlyRun, RunsOK
    <3>2. stamp' \in Nat /\ stamp \in Nat /\ stamp <= stamp'
      BY DEF RunsOK
    <3> QED BY <3>1, <3>2, OthersStayOK
  <2> QED BY <2>1
<1>2. run[r].at = 0 /\ run'[r].at = 0
  BY DEF RunsOK, RunOK
<1>3. \A s, t \in Runs : run'[s].pc \in HasStamp /\ run'[s].at = run'[t].at => s = t
  <2> SUFFICES ASSUME NEW s \in Runs, NEW t \in Runs,
                      run'[s].pc \in HasStamp, run'[s].at = run'[t].at
               PROVE  s = t
    OBVIOUS
  <2>1. s # r /\ run'[s] = run[s] /\ RunOK(s)
    BY DEF OnlyRun, RunsOK
  <2>2. run[s].at \in 2 .. stamp
    BY <2>1 DEF RunOK
  <2>3. t # r
    BY <1>2, <2>1, <2>2 DEF RunsOK
  <2> QED BY <2>1, <2>3 DEF OnlyRun, RunsOK
<1>4. RunsOK'
  BY <1>1, <1>3 DEF OnlyRun, RunsOK
<1>5. \A s \in Runs : \A p : Writer(s, p)' => Writer(s, p) /\ s # r /\ run'[s] = run[s]
  BY DEF Writer, OnlyRun
<1>6. \A s \in Runs : \A p : Writer(s, p) => Writer(s, p)' /\ s # r /\ run'[s] = run[s]
  BY DEF Writer, OnlyRun
<1>7. FilesOK'
  <2> SUFFICES ASSUME NEW p \in Programs, NEW k \in 1 .. Len(files[p]), k > Len(Earlier[p]),
                      NEW s \in Runs, Writer(s, p), NEW x \in run[s].done,
                      files[p][k] = Line(s, x)
               PROVE  Writer(s, p)' /\ x \in run'[s].done /\ files[p][k] = Line(s, x)'
    BY DEF FilesOK
  <2> QED BY <1>6, OthersAreAsBefore
<1>8. CountsOK'
  <2> SUFFICES ASSUME NEW s \in Runs, NEW p \in Programs, Writer(s, p)', Unbroken(files[p])
               PROVE  Counted(s, p)'
    BY DEF CountsOK
  <2>1. Counted(s, p) /\ run'[s] = run[s]
    BY <1>5 DEF CountsOK
  <2> QED BY <2>1, OthersAreAsBefore DEF Counted
<1>9. RawOK'
  <2>1. ASSUME NEW s \in Runs, KeepsRaw(s)', NEW x \in KeptBy(s)', NEW y \in KeptBy(s)'
        PROVE  /\ EvidenceId(Result(s, x)') \in DOMAIN rawFiles
               /\ EvidenceId(Result(s, x)') = EvidenceId(Result(s, y)') => x = y
    <3>1. CASE s = r
      BY <2>1, <3>1 DEF RawOK
    <3>2. CASE s # r
      <4>1. run'[s] = run[s]
        BY <3>2 DEF OnlyRun
      <4> QED BY <2>1, <4>1, OthersAreAsBefore DEF RawOK
    <3> QED BY <3>1, <3>2
  <2>2. ASSUME NEW id \in DOMAIN rawFiles
        PROVE  HoldsAnswer(id, rawFiles[id][1], rawFiles[id][2])'
    <3>1. PICK s, x : s = rawFiles[id][1] /\ x = rawFiles[id][2]
      OBVIOUS
    <3>2. HoldsAnswer(id, s, x)
      BY <2>2, <3>1 DEF RawOK
    <3>3. HoldsAnswer(id, s, x)'
      <4>1. CASE s = r
        <5>1. run[r].pc # "idle"
          BY <3>2, <4>1 DEF HoldsAnswer, Gathered
        <5> QED BY <3>2, <4>1, <5>1 DEF HoldsAnswer, KeepsRaw
      <4>2. CASE s # r
        <5>1. run'[s] = run[s]
          BY <3>2, <4>2 DEF OnlyRun, HoldsAnswer
        <5> QED BY <3>2, <5>1, OthersAreAsBefore DEF HoldsAnswer
      <4> QED BY <4>1, <4>2
    <3> QED BY <3>1, <3>3
  <2> QED BY <2>1, <2>2 DEF RawOK, EvidenceId
<1> QED BY <1>4, <1>7, <1>8, <1>9
-----------------------------------------------------------------------------
(***************************************************************************)
(* The calls                                                               *)
(***************************************************************************)
\* A process that has kept and written nothing.
Fresh(r) ==
    /\ run[r].pc \in {"idle", "calling"}
    /\ run[r].done = {} /\ run[r].at = 0

\* How a step of a process that makes its calls leaves it.
LEMMA CallingKeeps ==
    ASSUME ProbeInv, NEW r \in Runs, Fresh(r), NEW st,
           run' = [run EXCEPT ![r] = st], UNCHANGED <<files, rawFiles, stamp>>,
           IsRun(st), IsFiniteSet(Places(r)'), st.done = {}, st.at = 0,
           st.pc \in {"calling", "lost", "keeping", "stamping"},
           st.pc # "lost" => st.fixture.program \in Programs,
           run[r].pc = "idle" \/ st.keepRaw = run[r].keepRaw,
           st.pc = "keeping" => st.keepRaw = "yes",
           st.pc = "stamping" => st.keepRaw # "yes"
    PROVE  ProbeInv'
<1>1. OnlyRun(r) /\ run'[r] = st
  BY DEF ProbeInv, RunsOK, OnlyRun
<1>2. RunOK(r)'
  BY <1>1 DEF RunOK, HasStamp, Gathered
<1>3. KeepsRaw(r)' => KeptBy(r)' = {}
  BY <1>1 DEF KeepsRaw, KeptBy, Gathered
<1> QED BY <1>1, <1>2, <1>3, QuietKeeps DEF Fresh, HasStamp, Gathered

LEMMA RunsAreRuns ==
    ASSUME ProbeInv, NEW r \in Runs
    PROVE  /\ IsRun(run[r]) /\ IsFiniteSet(Places(r)) /\ RunOK(r)
           /\ run[r].pc \in {"idle", "calling"} => Fresh(r)
  BY DEF ProbeInv, RunsOK, RunOK, Fresh, HasStamp, Gathered

LEMMA LostRun ==
    ASSUME ProbeInv, NEW r \in Runs, run' = Lost(r)
    PROVE  /\ OnlyRun(r) /\ IsRun(run'[r]) /\ Places(r)' = {}
           /\ run'[r].pc = "lost" /\ run'[r].keepRaw = run[r].keepRaw
           /\ run'[r].done = {} /\ run'[r].at = 0
<1>1. PICK st : st = [NotStarted EXCEPT !.pc = "lost", !.keepRaw = run[r].keepRaw]
  OBVIOUS
<1>2. PICK k : k = run[r].keepRaw
  OBVIOUS
<1>3. run' = [run EXCEPT ![r] = st]
  BY <1>1 DEF Lost
<1>4. OnlyRun(r) /\ run'[r] = st
  BY <1>3 DEF ProbeInv, RunsOK, OnlyRun
<1>5. /\ st.pc = "lost" /\ st.keepRaw = k /\ st.done = {} /\ st.at = 0
      /\ st.results = <<>>
      /\ st = [pc |-> st.pc, fixture |-> st.fixture, keepRaw |-> st.keepRaw,
               results |-> st.results, search |-> st.search, broken |-> st.broken,
               done |-> st.done, at |-> st.at]
  BY <1>1, <1>2 DEF NotStarted
<1>6. <<>> = [i \in DOMAIN <<>> |-> <<>>[i]]
  BY EmptyIsSeq DEF IsSeq
<1>7. IsRun(st)
  BY <1>5, <1>6, EmptyIsSeq DEF IsRun
<1> QED BY <1>2, <1>4, <1>5, <1>7, EmptyIsSeq DEF Places

LEMMA LostKeeps ==
    ASSUME ProbeInv, NEW r \in Runs, run' = Lost(r), UNCHANGED <<files, rawFiles, stamp>>,
           run[r].pc \notin {"idle", "writing", "done", "dead"}
    PROVE  ProbeInv'
<1>1. RunOK(r)'
  BY LostRun, FS_EmptySet DEF RunOK, HasStamp, Gathered
<1>2. ~KeepsRaw(r)'
  BY LostRun DEF KeepsRaw, Gathered
<1> QED BY <1>1, <1>2, LostRun, QuietKeeps DEF HasStamp, Gathered

LEMMA StartKeeps ==
    ASSUME ProbeInv, NEW r \in Runs, NEW f \in Fixtures, NEW keep \in {"yes", "no"},
           Start(r, f, keep)
    PROVE  ProbeInv'
<1>1. PICK ps : ps = [i \in 1 .. Len(f.probes) |-> <<>>]
  OBVIOUS
<1>2. PICK st : st = [NotStarted EXCEPT !.pc = "calling", !.fixture = f, !.keepRaw = keep,
                        !.results = ps, !.search = [i \in 1 .. Len(f.probes) |-> "none"]]
  OBVIOUS
<1>3. run' = [run EXCEPT ![r] = st] /\ UNCHANGED <<files, rawFiles, stamp>>
  BY <1>1, <1>2 DEF Start
<1>4. /\ st.pc = "calling" /\ st.fixture = f /\ st.keepRaw = keep /\ st.results = ps
      /\ st.done = {} /\ st.at = 0
      /\ st = [pc |-> st.pc, fixture |-> st.fixture, keepRaw |-> st.keepRaw,
               results |-> st.results, search |-> st.search, broken |-> st.broken,
               done |-> st.done, at |-> st.at]
  BY <1>2 DEF NotStarted
<1>5. IsRun(st)
  BY <1>1, <1>4, EmptyIsSeq DEF IsRun
<1>6. run'[r] = st
  BY <1>3 DEF ProbeInv, RunsOK
<1>7. Places(r)' = {}
  BY <1>1, <1>4, <1>6, EmptyIsSeq DEF Places
<1>8. run[r].pc = "idle" /\ Fresh(r)
  BY RunsAreRuns DEF Start
<1>9. f.program \in Programs
  BY ProbeAssumption DEF ProbeAssumption
<1> QED BY <1>3, <1>4, <1>5, <1>7, <1>8, <1>9, FS_EmptySet, CallingKeeps

\* One more result of thread i.
OneMore(r, i, rec, s) ==
    /\ s.results = [run[r].results EXCEPT ![i] = Append(@, rec)]
    /\ s = [pc |-> "calling", fixture |-> run[r].fixture, keepRaw |-> run[r].keepRaw,
             results |-> s.results, search |-> s.search, broken |-> run[r].broken,
             done |-> run[r].done, at |-> run[r].at]

LEMMA AnswerKeeps ==
    ASSUME ProbeInv, NEW r \in Runs, run[r].pc = "calling", NEW i \in Threads(r),
           NEW rec, IsRecord(rec), NEW s,
           run' = [run EXCEPT ![r] = s], UNCHANGED <<files, rawFiles, stamp>>,
           OneMore(r, i, rec, s)
    PROVE  ProbeInv'
<1> USE DEF OneMore
<1> DEFINE old == run[r].results
           n == Len(old[i]) + 1
<1>1. Fresh(r) /\ IsRun(run[r]) /\ RunOK(r) /\ IsFiniteSet(Places(r))
  BY RunsAreRuns
<1>2. run'[r] = s
  BY DEF ProbeInv, RunsOK
<1>3. CASE i \in DOMAIN old
  <2>1. IsSeq(old[i])
    BY <1>1, <1>3 DEF IsRun
  <2>2. /\ DOMAIN s.results = DOMAIN old
        /\ \A j \in DOMAIN old \ {i} : s.results[j] = old[j]
        /\ s.results[i] = Append(old[i], rec)
    BY <1>1, <1>3 DEF IsRun
  <2>3. /\ IsSeq(s.results[i]) /\ n \in Nat /\ DOMAIN old[i] = 1 .. n - 1
        /\ DOMAIN s.results[i] = 1 .. n /\ s.results[i][n] = rec
        /\ \A k \in 1 .. n - 1 : s.results[i][k] = old[i][k]
    BY <2>1, <2>2, AppendIsSeq DEF IsSeq
  <2>4. \A j \in DOMAIN s.results :
           /\ IsSeq(s.results[j])
           /\ \A k \in DOMAIN s.results[j] : IsRecord(s.results[j][k])
    <3> SUFFICES ASSUME NEW j \in DOMAIN s.results
                 PROVE  /\ IsSeq(s.results[j])
                        /\ \A k \in DOMAIN s.results[j] : IsRecord(s.results[j][k])
      OBVIOUS
    <3>1. CASE j # i
      BY <1>1, <2>2, <3>1 DEF IsRun
    <3>2. CASE j = i
      <4> SUFFICES ASSUME NEW k \in 1 .. n PROVE IsRecord(s.results[i][k])
        BY <2>3, <3>2
      <4>1. CASE k = n
        BY <2>3, <4>1
      <4>2. CASE k # n
        <5>1. k \in DOMAIN old[i] /\ s.results[i][k] = old[i][k]
          BY <2>3, <4>2
        <5> QED BY <1>1, <1>3, <5>1 DEF IsRun
      <4> QED BY <4>1, <4>2
    <3> QED BY <3>1, <3>2
  <2>5. IsRun(s)
    <3>1. s.results = [j \in DOMAIN s.results |-> s.results[j]]
      BY <1>1, <1>3
    <3>2. s = [pc |-> s.pc, fixture |-> s.fixture, keepRaw |-> s.keepRaw,
               results |-> s.results, search |-> s.search, broken |-> s.broken,
               done |-> s.done, at |-> s.at]
      OBVIOUS
    <3> QED BY <2>4, <3>1, <3>2 DEF IsRun
  <2>6. Places(r)' = Places(r) \cup {<<i, n>>}
    <3>1. \A x : x \in Places(r) <=> \E j \in DOMAIN old : \E k \in DOMAIN old[j] : x = <<j, k>>
      BY PlaceIn
    <3>2. \A x : x \in Places(r)' <=>
                   \E j \in DOMAIN s.results : \E k \in DOMAIN s.results[j] : x = <<j, k>>
      BY <1>2 DEF Places
    <3> HIDE DEF old, n
    <3> QED BY <1>3, <2>2, <2>3, <3>1, <3>2
  <2>7. IsFiniteSet(Places(r)')
    BY <1>1, <2>6, FS_AddElement
  <2>8. /\ s.pc = "calling" /\ s.done = {} /\ s.at = 0 /\ s.keepRaw = run[r].keepRaw
        /\ s.fixture.program \in Programs
    BY <1>1 DEF Fresh, RunOK
  <2> QED BY <1>1, <2>5, <2>7, <2>8, CallingKeeps
<1>4. CASE i \notin DOMAIN old
  <2>1. s.results = old
    BY <1>1, <1>4 DEF IsRun
  <2>2. IsRun(s)
    BY <1>1, <2>1 DEF IsRun
  <2>3. Places(r)' = Places(r)
    BY <1>2, <2>1 DEF Places
  <2>4. /\ s.pc = "calling" /\ s.done = {} /\ s.at = 0 /\ s.keepRaw = run[r].keepRaw
        /\ s.fixture.program \in Programs
    BY <1>1 DEF Fresh, RunOK
  <2> QED BY <1>1, <2>2, <2>3, <2>4, CallingKeeps
<1> QED BY <1>3, <1>4

LEMMA RecordOf ==
    ASSUME NEW r, NEW i, NEW state, NEW raw
    PROVE  IsRecord(Record(r, i, state, raw))
  BY DEF Record, IsRecord

\* An answer that also says what became of the search.
LEMMA SearchedAnswerKeeps ==
    ASSUME ProbeInv, NEW r \in Runs, run[r].pc = "calling", NEW i \in Threads(r),
           NEW state, NEW raw, NEW word,
           run' = [run EXCEPT ![r].search[i] = word,
                              ![r].results[i] = Append(@, Record(r, i, state, raw))],
           UNCHANGED <<files, rawFiles, stamp>>
    PROVE  ProbeInv'
<1>1. PICK rec : rec = Record(r, i, state, raw)
  OBVIOUS
<1>2. PICK old : old = run[r]
  OBVIOUS
<1>3. PICK found : found = [old.search EXCEPT ![i] = word]
  OBVIOUS
<1>4. PICK res : res = [old.results EXCEPT ![i] = Append(@, rec)]
  OBVIOUS
<1>5. IsRun(old) /\ old.pc = "calling"
  BY <1>2, RunsAreRuns
<1>6. PICK s : s = [[old EXCEPT !.search = found] EXCEPT !.results = res]
  OBVIOUS
<1>7. s = [pc |-> "calling", fixture |-> old.fixture, keepRaw |-> old.keepRaw,
           results |-> res, search |-> found, broken |-> old.broken,
           done |-> old.done, at |-> old.at]
  BY <1>5, <1>6 DEF IsRun
<1>8. run' = [run EXCEPT ![r] = s]
  BY <1>1, <1>2, <1>3, <1>4, <1>5, <1>6 DEF ProbeInv, RunsOK, IsRun
<1>9. IsRecord(rec)
  BY <1>1, RecordOf
<1>10. ProbeInv'
  <2>1. s.results = [run[r].results EXCEPT ![i] = Append(@, rec)]
    BY <1>2, <1>4, <1>7
  <2>2. s = [pc |-> "calling", fixture |-> run[r].fixture, keepRaw |-> run[r].keepRaw,
             results |-> s.results, search |-> s.search, broken |-> run[r].broken,
             done |-> run[r].done, at |-> run[r].at]
    BY <1>2, <1>7
  <2>3. OneMore(r, i, rec, s)
    BY <2>1, <2>2 DEF OneMore
  <2> QED BY <1>8, <1>9, <2>3, AnswerKeeps
<1> QED BY <1>10

LEMMA SearchFailsKeeps ==
    ASSUME ProbeInv, NEW r \in Runs, NEW i \in Threads(r), SearchFails(r, i)
    PROVE  ProbeInv'
  BY SearchedAnswerKeeps DEF SearchFails, DirectTurn

LEMMA CallFailsKeeps ==
    ASSUME ProbeInv, NEW r \in Runs, NEW i \in Threads(r), CallFails(r, i)
    PROVE  ProbeInv'
  BY SearchedAnswerKeeps DEF CallFails, DirectTurn

LEMMA ToolSaysKeeps ==
    ASSUME ProbeInv, NEW r \in Runs, NEW i \in Threads(r), NEW a, ToolSays(r, i, a)
    PROVE  ProbeInv'
<1>1. PICK state : state = CellState(NextCell(r, i).case, a)
  OBVIOUS
<1> QED BY <1>1, SearchedAnswerKeeps DEF ToolSays, DirectTurn

LEMMA ModelSaysKeeps ==
    ASSUME ProbeInv, NEW r \in Runs, NEW i \in Threads(r), NEW m, ModelSays(r, i, m)
    PROVE  ProbeInv'
<1>1. PICK rec : /\ rec = Record(r, i, IF MessagePasses(run[r].fixture.program,
                                                         NextCell(r, i).case, m)
                                       THEN "passed" ELSE "failed", "no")
                 /\ IsRecord(rec)
  BY RecordOf
<1>2. /\ run' = [run EXCEPT ![r].results[i] = Append(@, rec)]
      /\ UNCHANGED <<files, rawFiles, stamp>> /\ run[r].pc = "calling"
  BY <1>1 DEF ModelSays, ModelTurn, Put
<1>3. PICK old : old = run[r]
  OBVIOUS
<1>4. PICK res : res = [old.results EXCEPT ![i] = Append(@, rec)]
  OBVIOUS
<1>5. IsRun(old) /\ old.pc = "calling"
  BY <1>2, <1>3, RunsAreRuns
<1>6. PICK s : s = [old EXCEPT !.results = res]
  OBVIOUS
<1>7. s = [pc |-> "calling", fixture |-> old.fixture, keepRaw |-> old.keepRaw,
           results |-> res, search |-> old.search, broken |-> old.broken,
           done |-> old.done, at |-> old.at]
  BY <1>5, <1>6 DEF IsRun
<1>8. run' = [run EXCEPT ![r] = s]
  BY <1>2, <1>3, <1>4, <1>5, <1>6 DEF ProbeInv, RunsOK, IsRun
<1>9. ProbeInv'
  <2>1. s.results = [run[r].results EXCEPT ![i] = Append(@, rec)]
    BY <1>3, <1>4, <1>7
  <2>2. s = [pc |-> "calling", fixture |-> run[r].fixture, keepRaw |-> run[r].keepRaw,
             results |-> s.results, search |-> s.search, broken |-> run[r].broken,
             done |-> run[r].done, at |-> run[r].at]
    BY <1>3, <1>7
  <2>3. OneMore(r, i, rec, s)
    BY <2>1, <2>2 DEF OneMore
  <2> QED BY <1>1, <1>2, <1>8, <2>3, AnswerKeeps
<1> QED BY <1>9

\* A change of other fields than the results.
LEMMA SameResultsKeep ==
    ASSUME ProbeInv, NEW r \in Runs, run[r].pc = "calling", NEW s,
           run' = [run EXCEPT ![r] = s], UNCHANGED <<files, rawFiles, stamp>>,
           s = [pc |-> s.pc, fixture |-> run[r].fixture, keepRaw |-> run[r].keepRaw,
                results |-> run[r].results, search |-> s.search, broken |-> s.broken,
                done |-> run[r].done, at |-> run[r].at],
           s.pc \in {"calling", "keeping", "stamping"},
           s.pc = "keeping" => run[r].keepRaw = "yes",
           s.pc = "stamping" => run[r].keepRaw # "yes"
    PROVE  ProbeInv'
<1>1. Fresh(r) /\ IsRun(run[r]) /\ RunOK(r) /\ IsFiniteSet(Places(r))
  BY RunsAreRuns
<1>2. run'[r] = s
  BY DEF ProbeInv, RunsOK
<1>3. IsRun(s)
  BY <1>1 DEF IsRun
<1>4. Places(r)' = Places(r)
  BY <1>2 DEF Places
<1>5. /\ s.done = {} /\ s.at = 0 /\ s.keepRaw = run[r].keepRaw
      /\ s.fixture.program \in Programs
  BY <1>1 DEF Fresh, RunOK
<1> QED BY <1>1, <1>3, <1>4, <1>5, CallingKeeps

LEMMA CallEscapesKeeps ==
    ASSUME ProbeInv, NEW r \in Runs, NEW i \in Threads(r), CallEscapes(r, i)
    PROVE  ProbeInv'
<1>1. PICK old : old = run[r]
  OBVIOUS
<1>2. PICK s : s = [old EXCEPT !.broken = @ \cup {i}]
  OBVIOUS
<1>3. IsRun(old) /\ old.pc = "calling"
  BY <1>1, RunsAreRuns DEF CallEscapes, DirectTurn
<1>4. s = [pc |-> "calling", fixture |-> old.fixture, keepRaw |-> old.keepRaw,
           results |-> old.results, search |-> old.search, broken |-> s.broken,
           done |-> old.done, at |-> old.at]
  BY <1>2, <1>3 DEF IsRun
<1>5. run' = [run EXCEPT ![r] = s] /\ UNCHANGED <<files, rawFiles, stamp>>
  BY <1>1, <1>2 DEF CallEscapes
<1> QED BY <1>1, <1>3, <1>4, <1>5, SameResultsKeep

LEMMA GatewayFailsKeeps ==
    ASSUME ProbeInv, NEW r \in Runs, NEW i \in Threads(r), GatewayFails(r, i)
    PROVE  ProbeInv'
  BY LostKeeps DEF GatewayFails, ModelTurn

LEMMA GatherKeeps ==
    ASSUME ProbeInv, NEW r \in Runs, Gather(r)
    PROVE  ProbeInv'
<1>1. run[r].pc = "calling" /\ UNCHANGED <<files, rawFiles, stamp>>
  BY DEF Gather
<1>2. CASE run[r].broken # {}
  BY <1>1, <1>2, LostKeeps DEF Gather
<1>3. CASE run[r].broken = {}
  <2>1. PICK old : old = run[r]
    OBVIOUS
  <2>2. PICK to : to = IF old.keepRaw = "yes" THEN "keeping" ELSE "stamping"
    OBVIOUS
  <2>3. PICK s : s = [[old EXCEPT !.search = <<>>] EXCEPT !.pc = to]
    OBVIOUS
  <2>4. IsRun(old) /\ old.pc = "calling"
    BY <1>1, <2>1, RunsAreRuns
  <2>5. s = [pc |-> to, fixture |-> old.fixture, keepRaw |-> old.keepRaw,
             results |-> old.results, search |-> s.search, broken |-> s.broken,
             done |-> old.done, at |-> old.at]
    BY <2>3, <2>4 DEF IsRun
  <2>6. run' = [run EXCEPT ![r] = s]
    BY <1>3, <2>1, <2>2, <2>3, <2>4 DEF Gather, ProbeInv, RunsOK, IsRun
  <2> QED BY <1>1, <2>1, <2>2, <2>5, <2>6, SameResultsKeep
<1> QED BY <1>2, <1>3
-----------------------------------------------------------------------------
(***************************************************************************)
(* The files                                                               *)
(***************************************************************************)
\* A step of r towards another statement, more results handled or another stamp.
Advances(r, pc, done, at) ==
    \E st : /\ run' = [run EXCEPT ![r] = st]
            /\ st = [pc |-> pc, fixture |-> run[r].fixture, keepRaw |-> run[r].keepRaw,
                     results |-> run[r].results, search |-> run[r].search,
                     broken |-> run[r].broken, done |-> done, at |-> at]

LEMMA AdvanceIs ==
    ASSUME ProbeInv, NEW r \in Runs, NEW pc, NEW done, NEW at, Advances(r, pc, done, at)
    PROVE  /\ OnlyRun(r) /\ IsRun(run'[r]) /\ IsFiniteSet(Places(r)')
           /\ run'[r].pc = pc /\ run'[r].done = done /\ run'[r].at = at
           /\ run'[r].fixture = run[r].fixture /\ run'[r].keepRaw = run[r].keepRaw
           /\ Places(r)' = Places(r) /\ Raw(r)' = Raw(r)
           /\ \A x : Result(r, x)' = Result(r, x)
<1>1. PICK st :
        /\ run' = [run EXCEPT ![r] = st]
        /\ st = [pc |-> pc, fixture |-> run[r].fixture, keepRaw |-> run[r].keepRaw,
                 results |-> run[r].results, search |-> run[r].search,
                 broken |-> run[r].broken, done |-> done, at |-> at]
  BY DEF Advances
<1>2. OnlyRun(r) /\ run'[r] = st
  BY <1>1 DEF ProbeInv, RunsOK, OnlyRun
<1>3. IsRun(st)
  <2>1. st.results = run[r].results /\ IsRun(run[r])
    BY <1>1, RunsAreRuns
  <2>2. st = [pc |-> st.pc, fixture |-> st.fixture, keepRaw |-> st.keepRaw,
              results |-> st.results, search |-> st.search, broken |-> st.broken,
              done |-> st.done, at |-> st.at]
    BY <1>1
  <2> QED BY <2>1, <2>2 DEF IsRun
<1>4. Places(r)' = Places(r) /\ \A x : Result(r, x)' = Result(r, x)
  BY <1>1, <1>2 DEF Places, Result
<1>5. Raw(r)' = Raw(r)
  BY <1>4 DEF Raw
<1> QED BY <1>1, <1>2, <1>3, <1>4, <1>5, RunsAreRuns

LEMMA EveryStepAdvances ==
    ASSUME ProbeInv, NEW r \in Runs
    PROVE  /\ \A pc, done : run' = [run EXCEPT ![r].pc = pc, ![r].done = done]
                              => Advances(r, pc, done, run[r].at)
           /\ \A pc, at : run' = [run EXCEPT ![r].pc = pc, ![r].at = at]
                              => Advances(r, pc, run[r].done, at)
           /\ \A pc : run' = [run EXCEPT ![r].pc = pc]
                              => Advances(r, pc, run[r].done, run[r].at)
           /\ \A x : run' = [run EXCEPT ![r].done = @ \cup {x}]
                              => Advances(r, run[r].pc, run[r].done \cup {x}, run[r].at)
<1>1. PICK old : old = run[r]
  OBVIOUS
<1>2. IsRun(old) /\ run = [s \in Runs |-> run[s]]
  BY <1>1, RunsAreRuns DEF ProbeInv, RunsOK
<1>3. ASSUME NEW pc, NEW done, run' = [run EXCEPT ![r].pc = pc, ![r].done = done]
      PROVE  Advances(r, pc, done, old.at)
  <2>1. PICK st : st = [[old EXCEPT !.pc = pc] EXCEPT !.done = done]
    OBVIOUS
  <2>2. st = [pc |-> pc, fixture |-> old.fixture, keepRaw |-> old.keepRaw,
              results |-> old.results, search |-> old.search, broken |-> old.broken,
              done |-> done, at |-> old.at]
    BY <1>2, <2>1 DEF IsRun
  <2>3. run' = [run EXCEPT ![r] = st]
    BY <1>1, <1>2, <1>3, <2>1 DEF IsRun
  <2> QED BY <1>1, <2>2, <2>3 DEF Advances
<1>4. ASSUME NEW pc, NEW at, run' = [run EXCEPT ![r].pc = pc, ![r].at = at]
      PROVE  Advances(r, pc, old.done, at)
  <2>1. PICK st : st = [[old EXCEPT !.pc = pc] EXCEPT !.at = at]
    OBVIOUS
  <2>2. st = [pc |-> pc, fixture |-> old.fixture, keepRaw |-> old.keepRaw,
              results |-> old.results, search |-> old.search, broken |-> old.broken,
              done |-> old.done, at |-> at]
    BY <1>2, <2>1 DEF IsRun
  <2>3. run' = [run EXCEPT ![r] = st]
    BY <1>1, <1>2, <1>4, <2>1 DEF IsRun
  <2> QED BY <1>1, <2>2, <2>3 DEF Advances
<1>5. ASSUME NEW pc, run' = [run EXCEPT ![r].pc = pc]
      PROVE  Advances(r, pc, old.done, old.at)
  <2>1. PICK st : st = [old EXCEPT !.pc = pc]
    OBVIOUS
  <2>2. st = [pc |-> pc, fixture |-> old.fixture, keepRaw |-> old.keepRaw,
              results |-> old.results, search |-> old.search, broken |-> old.broken,
              done |-> old.done, at |-> old.at]
    BY <1>2, <2>1 DEF IsRun
  <2>3. run' = [run EXCEPT ![r] = st]
    BY <1>1, <1>2, <1>5, <2>1 DEF IsRun
  <2> QED BY <1>1, <2>2, <2>3 DEF Advances
<1>6. ASSUME NEW x, run' = [run EXCEPT ![r].done = @ \cup {x}]
      PROVE  Advances(r, old.pc, old.done \cup {x}, old.at)
  <2>1. PICK more : more = old.done \cup {x}
    OBVIOUS
  <2>2. PICK st : st = [old EXCEPT !.done = more]
    OBVIOUS
  <2>3. st = [pc |-> old.pc, fixture |-> old.fixture, keepRaw |-> old.keepRaw,
              results |-> old.results, search |-> old.search, broken |-> old.broken,
              done |-> more, at |-> old.at]
    BY <1>2, <2>2 DEF IsRun
  <2>4. run' = [run EXCEPT ![r] = st]
    BY <1>1, <1>2, <1>6, <2>1, <2>2 DEF IsRun
  <2> QED BY <1>1, <2>1, <2>3, <2>4 DEF Advances
<1> QED BY <1>1, <1>3, <1>4, <1>5, <1>6

LEMMA KeepRawKeeps ==
    ASSUME ProbeInv, NEW r \in Runs, KeepRaw(r)
    PROVE  ProbeInv'
<1> USE DEF ProbeInv
<1>1. /\ RunOK(r) /\ run[r].pc = "keeping" /\ run[r].keepRaw = "yes" /\ run[r].at = 0
      /\ run[r].done \subseteq Raw(r) /\ run[r].fixture.program \in Programs
      /\ KeepsRaw(r) /\ KeptBy(r) = run[r].done /\ UNCHANGED <<files, stamp>>
  BY DEF KeepRaw, RunsOK, RunOK, KeepsRaw, KeptBy, Gathered, HasStamp
<1>2. CASE /\ Raw(r) \subseteq run[r].done
           /\ run' = [run EXCEPT ![r].pc = "stamping", ![r].done = {}]
           /\ UNCHANGED rawFiles
  <2>1. Advances(r, "stamping", {}, 0)
    BY <1>1, <1>2, EveryStepAdvances
  <2>2. RunOK(r)'
    BY <1>1, <2>1, AdvanceIs DEF RunOK, HasStamp, Gathered
  <2>3. /\ OnlyRun(r) /\ run'[r].pc = "stamping" /\ run'[r].keepRaw = "yes"
        /\ Raw(r)' = Raw(r) /\ \A x : Result(r, x)' = Result(r, x)
    BY <1>1, <2>1, AdvanceIs
  <2>4. KeptBy(r)' = KeptBy(r)
    <3>1. run[r].done = Raw(r)
      BY <1>1, <1>2
    <3> QED BY <1>1, <2>3, <3>1 DEF KeptBy
  <2> QED BY <1>1, <1>2, <2>2, <2>3, <2>4, QuietKeeps DEF HasStamp, Gathered
<1>3. CASE run' = Lost(r) /\ UNCHANGED rawFiles
  BY <1>1, <1>3, LostKeeps
<1>4. ASSUME NEW x \in Raw(r) \ run[r].done, NEW id, id = EvidenceId(Result(r, x)),
             id \notin {EvidenceId(Result(r, y)) : y \in run[r].done},
             run' = [run EXCEPT ![r].done = @ \cup {x}],
             rawFiles' = [other \in {id} \cup DOMAIN rawFiles |->
                            IF other = id THEN <<r, x>> ELSE rawFiles[other]]
      PROVE  ProbeInv'
  <2>1. Advances(r, "keeping", run[r].done \cup {x}, 0)
    BY <1>1, <1>4, EveryStepAdvances
  <2>2. /\ OnlyRun(r) /\ run'[r].pc = "keeping" /\ run'[r].done = run[r].done \cup {x}
        /\ run'[r].at = 0 /\ run'[r].keepRaw = "yes" /\ Raw(r)' = Raw(r)
        /\ \A y : Result(r, y)' = Result(r, y)
    BY <1>1, <2>1, AdvanceIs
  <2>3. RunOK(r)'
    <3>1. run[r].done \cup {x} \subseteq Places(r)
      BY <1>1, <1>4 DEF Raw
    <3>2. run'[r].done \subseteq Raw(r)' /\ run'[r].done \subseteq Places(r)'
      BY <1>1, <1>4, <2>1, <3>1, AdvanceIs
    <3>3. /\ IsRun(run'[r]) /\ IsFiniteSet(Places(r)') /\ run'[r].fixture = run[r].fixture
      BY <2>1, AdvanceIs
    <3> QED BY <1>1, <2>2, <3>2, <3>3 DEF RunOK, HasStamp, Gathered
  <2>4. /\ DOMAIN rawFiles' = DOMAIN rawFiles \cup {id}
        /\ rawFiles'[id] = <<r, x>>
        /\ \A other \in DOMAIN rawFiles \ {id} : rawFiles'[other] = rawFiles[other]
    BY <1>4
  <2>5. \A s \in Runs \ {r} : run'[s] = run[s] /\ RunOK(s)
    BY <2>2 DEF OnlyRun, RunsOK
  <2>6. stamp' \in Nat /\ stamp \in Nat /\ stamp <= stamp'
    BY <1>1 DEF RunsOK
  <2>7. \A s \in Runs : RunOK(s)'
    BY <2>3, <2>5, <2>6, OthersStayOK
  <2>8. \A s \in Runs : run'[s].at = run[s].at /\ run'[s].pc = run[s].pc
                        /\ run'[s].keepRaw = run[s].keepRaw
    BY <1>1, <2>2, <2>5
  <2>9. RunsOK'
    BY <1>1, <2>2, <2>7, <2>8 DEF RunsOK, OnlyRun
  <2>10. \A s \in Runs, p \in Programs :
            Writer(s, p)' = Writer(s, p) /\ (Writer(s, p) => s # r /\ run'[s] = run[s])
    BY <1>1, <2>2, <2>5, OthersAreAsBefore DEF Writer, HasStamp
  <2>11. FilesOK'
    <3> SUFFICES ASSUME NEW p \in Programs, NEW k \in 1 .. Len(files[p]), k > Len(Earlier[p]),
                        NEW s \in Runs, Writer(s, p), NEW y \in run[s].done,
                        files[p][k] = Line(s, y)
                 PROVE  Writer(s, p)' /\ y \in run'[s].done /\ files[p][k] = Line(s, y)'
      BY <1>1 DEF FilesOK
    <3> QED BY <2>10, OthersAreAsBefore
  <2>12. CountsOK'
    <3> SUFFICES ASSUME NEW s \in Runs, NEW p \in Programs, Writer(s, p)',
                        Unbroken(files[p])
                 PROVE  Counted(s, p)'
      BY <1>1 DEF CountsOK
    <3>1. Counted(s, p) /\ run'[s] = run[s]
      BY <2>10 DEF CountsOK
    <3> QED BY <1>1, <3>1, OthersAreAsBefore DEF Counted
  <2>13. KeepsRaw(r)' /\ KeptBy(r)' = KeptBy(r) \cup {x}
    BY <1>1, <2>2 DEF KeepsRaw, KeptBy, Gathered
  <2>14. ASSUME NEW s \in Runs, KeepsRaw(s)', NEW y \in KeptBy(s)', NEW z \in KeptBy(s)'
         PROVE  /\ EvidenceId(Result(s, y)') \in DOMAIN rawFiles'
                /\ EvidenceId(Result(s, y)') = EvidenceId(Result(s, z)') => y = z
    <3>1. CASE s = r
      <4>1. \A u \in KeptBy(r) : EvidenceId(Result(r, u)) \in DOMAIN rawFiles
                                 /\ EvidenceId(Result(r, u)) # id
        BY <1>1, <1>4 DEF RawOK
      <4>2. Result(s, y)' = Result(r, y) /\ Result(s, z)' = Result(r, z)
        BY <2>2, <3>1
      <4>3. y \in KeptBy(r) \cup {x} /\ z \in KeptBy(r) \cup {x}
        BY <2>13, <2>14, <3>1
      <4>4. y \in KeptBy(r) /\ z \in KeptBy(r) =>
               (EvidenceId(Result(r, y)) = EvidenceId(Result(r, z)) => y = z)
        BY <1>1 DEF RawOK
      <4> QED BY <1>4, <2>4, <4>1, <4>2, <4>3, <4>4
    <3>2. CASE s # r
      <4>1. run'[s] = run[s]
        BY <2>5, <3>2
      <4> QED BY <2>4, <2>14, <4>1, OthersAreAsBefore DEF RawOK
    <3> QED BY <3>1, <3>2
  <2>15. ASSUME NEW other \in DOMAIN rawFiles'
         PROVE  HoldsAnswer(other, rawFiles[other][1], rawFiles[other][2])'
    <3>1. CASE other = id
      <4>1. rawFiles'[other][1] = r /\ rawFiles'[other][2] = x
        BY <2>4, <3>1
      <4>2. x \in KeptBy(r)' /\ EvidenceId(Result(r, x)') = id
        BY <1>4, <2>2, <2>13
      <4>3. run'[r].keepRaw = "yes" /\ run'[r].pc \in Gathered
        BY <2>2 DEF Gathered
      <4>4. HoldsAnswer(id, r, x)'
        BY <4>2, <4>3 DEF HoldsAnswer, EvidenceId
      <4> QED BY <3>1, <4>1, <4>4
    <3>2. CASE other # id
      <4>1. PICK s, y : s = rawFiles[other][1] /\ y = rawFiles[other][2]
        OBVIOUS
      <4>2. other \in DOMAIN rawFiles /\ rawFiles'[other][1] = s /\ rawFiles'[other][2] = y
        BY <2>4, <2>15, <3>2, <4>1
      <4>3. HoldsAnswer(other, s, y)
        BY <4>1, <4>2 DEF RawOK
      <4>4. s \in Runs /\ (y \in KeptBy(s) => y \in KeptBy(s)')
        BY <2>5, <2>13, <4>3, OthersAreAsBefore DEF HoldsAnswer
      <4>5. Result(s, y)' = Result(s, y)
        BY <2>2, <2>5, <4>4, OthersAreAsBefore
      <4>6. HoldsAnswer(other, s, y)'
        BY <2>8, <4>3, <4>4, <4>5 DEF HoldsAnswer, EvidenceId
      <4> QED BY <4>2, <4>6
    <3> QED BY <3>1, <3>2
  <2>16. RawOK'
    BY <2>14, <2>15 DEF RawOK, EvidenceId
  <2> QED BY <2>9, <2>11, <2>12, <2>16
<1>5. \/ /\ Raw(r) \subseteq run[r].done
         /\ run' = [run EXCEPT ![r].pc = "stamping", ![r].done = {}]
         /\ UNCHANGED rawFiles
      \/ run' = Lost(r) /\ UNCHANGED rawFiles
      \/ \E x \in Raw(r) \ run[r].done : \E id :
            /\ id = EvidenceId(Result(r, x))
            /\ id \notin {EvidenceId(Result(r, y)) : y \in run[r].done}
            /\ run' = [run EXCEPT ![r].done = @ \cup {x}]
            /\ rawFiles' = [other \in {id} \cup DOMAIN rawFiles |->
                            IF other = id THEN <<r, x>> ELSE rawFiles[other]]
  BY DEF KeepRaw
<1>6. ASSUME NEW x \in Raw(r) \ run[r].done,
             \E id : /\ id = EvidenceId(Result(r, x))
                     /\ id \notin {EvidenceId(Result(r, y)) : y \in run[r].done}
                     /\ run' = [run EXCEPT ![r].done = @ \cup {x}]
                     /\ rawFiles' = [other \in {id} \cup DOMAIN rawFiles |->
                                     IF other = id THEN <<r, x>> ELSE rawFiles[other]]
      PROVE  ProbeInv'
  BY ONLY <1>6, <1>4
<1> HIDE DEF ProbeInv
<1> QED BY ONLY <1>2, <1>3, <1>5, <1>6, Zenon

\* The raw answers are as they were when no process keeps or loses one.
LEMMA RawStays ==
    ASSUME RawOK, UNCHANGED rawFiles,
           \A s \in Runs : /\ KeptBy(s)' = KeptBy(s) /\ \A x : Result(s, x)' = Result(s, x)
                           /\ run'[s].keepRaw = run[s].keepRaw
                           /\ run'[s].pc \in Gathered <=> run[s].pc \in Gathered
                           /\ run[s].pc = "lost" => run'[s].pc = "lost"
    PROVE  RawOK'
<1>1. \A s \in Runs : KeepsRaw(s)' <=> KeepsRaw(s)
  BY DEF KeepsRaw
<1>2. \A s \in Runs : KeepsRaw(s)' => \A x, y \in KeptBy(s)' :
         /\ EvidenceId(Result(s, x))' \in DOMAIN rawFiles
         /\ EvidenceId(Result(s, x))' = EvidenceId(Result(s, y))' => x = y
  BY <1>1 DEF RawOK, EvidenceId
<1>3. \A id, s, x : HoldsAnswer(id, s, x) => HoldsAnswer(id, s, x)'
  BY DEF HoldsAnswer, EvidenceId
<1> QED BY <1>2, <1>3 DEF RawOK

LEMMA LinesHaveStamps ==
    ASSUME RunsOK, FilesOK, NEW p \in Programs, NEW k \in DOMAIN files[p], files[p][k] # Torn
    PROVE  /\ files[p][k].at \in 1 .. stamp
           /\ k \in 1 .. Len(files[p])
           /\ k <= Len(Earlier[p]) => files[p][k].at = 1 /\ files[p][k] = Earlier[p][k]
           /\ k > Len(Earlier[p]) => \E r \in Runs :
                 /\ Writer(r, p) /\ files[p][k].at = run[r].at /\ run[r].at >= 2
                 /\ \E x \in run[r].done : x \in Places(r) /\ files[p][k] = Line(r, x)
<1>1. k \in 1 .. Len(files[p]) /\ Len(files[p]) \in Nat /\ stamp \in Nat \ {0}
  BY AppendIsSeq DEF FilesOK, RunsOK, IsSeq
<1>2. Len(Earlier[p]) \in Nat /\ DOMAIN Earlier[p] = 1 .. Len(Earlier[p])
  BY ProbeAssumption DEF ProbeAssumption
<1>3. CASE k <= Len(Earlier[p])
  <2>1. k \in 1 .. Len(Earlier[p])
    BY <1>1, <1>2, <1>3
  <2>2. \A j \in DOMAIN Earlier[p] : Earlier[p][j].at = 1
    BY ProbeAssumption DEF ProbeAssumption
  <2>3. Earlier[p][k].at = 1
    BY <1>2, <2>1, <2>2
  <2> QED BY <1>1, <1>2, <1>3, <2>1, <2>3 DEF FilesOK
<1>4. CASE k > Len(Earlier[p])
  <2>1. PICK r \in Runs : Writer(r, p) /\ \E x \in run[r].done : files[p][k] = Line(r, x)
    BY <1>1, <1>4 DEF FilesOK
  <2>2. PICK x \in run[r].done : files[p][k] = Line(r, x)
    BY <2>1
  <2>3. RunOK(r) /\ x \in Places(r) /\ run[r].at \in 2 .. stamp
    BY <2>1, <2>2 DEF RunsOK, RunOK, Writer
  <2>4. files[p][k].at = run[r].at
    BY <2>2, <2>3, ResultIsRecord
  <2> QED BY <1>1, <1>2, <1>4, <2>1, <2>2, <2>3, <2>4
<1> QED BY <1>1, <1>2, <1>3, <1>4

LEMMA StampKeeps ==
    ASSUME ProbeInv, NEW r \in Runs, Stamp(r)
    PROVE  ProbeInv'
<1> USE DEF ProbeInv
<1>1. /\ RunOK(r) /\ run[r].pc = "stamping" /\ run[r].done = {} /\ run[r].at = 0
      /\ stamp \in Nat \ {0} /\ stamp' = stamp + 1 /\ UNCHANGED <<files, rawFiles>>
      /\ run[r].fixture.program \in Programs
  BY DEF Stamp, RunsOK, RunOK, HasStamp, Gathered
<1>2. Advances(r, "writing", {}, stamp + 1)
  BY <1>1, EveryStepAdvances DEF Stamp
<1>3. /\ OnlyRun(r) /\ run'[r].pc = "writing" /\ run'[r].done = {} /\ run'[r].at = stamp + 1
      /\ run'[r].fixture = run[r].fixture /\ run'[r].keepRaw = run[r].keepRaw
      /\ Raw(r)' = Raw(r) /\ \A x : Result(r, x)' = Result(r, x)
  BY <1>2, AdvanceIs
<1>4. RunOK(r)'
  <2>1. run'[r].at \in 2 .. stamp'
    BY <1>1, <1>3
  <2> QED BY <1>1, <1>2, <1>3, <2>1, AdvanceIs DEF RunOK, HasStamp, Gathered
<1>5. \A s \in Runs \ {r} : run'[s] = run[s] /\ RunOK(s)
  BY <1>3 DEF OnlyRun, RunsOK
<1>6. stamp' \in Nat /\ stamp \in Nat /\ stamp <= stamp'
  BY <1>1
<1>7. \A s \in Runs : RunOK(s)'
  BY <1>4, <1>5, <1>6, OthersStayOK
<1>8. \A s \in Runs \ {r} : run'[s].at \in 0 .. stamp
  <2> SUFFICES ASSUME NEW s \in Runs \ {r} PROVE run[s].at \in 0 .. stamp
    BY <1>5
  <2> QED BY <1>1, <1>5 DEF RunOK
<1>9. \A s, t \in Runs : run'[s].pc \in HasStamp /\ run'[s].at = run'[t].at => s = t
  <2> SUFFICES ASSUME NEW s \in Runs, NEW t \in Runs, run'[s].pc \in HasStamp,
                      run'[s].at = run'[t].at
               PROVE  s = t
    OBVIOUS
  <2>1. s = r <=> t = r
    BY <1>1, <1>3, <1>8
  <2>2. s # r /\ t # r => s = t
    BY <1>5 DEF RunsOK
  <2> QED BY <2>1, <2>2
<1>10. RunsOK'
  BY <1>3, <1>6, <1>7, <1>9, <1>1 DEF RunsOK, OnlyRun
<1>11. \A s \in Runs : s # r => \A p : Writer(s, p)' = Writer(s, p)
  BY <1>5, OthersAreAsBefore
<1>12. FilesOK'
  <2> SUFFICES ASSUME NEW p \in Programs, NEW k \in 1 .. Len(files[p]), k > Len(Earlier[p]),
                      NEW s \in Runs, Writer(s, p), NEW x \in run[s].done,
                      files[p][k] = Line(s, x)
               PROVE  Writer(s, p)' /\ x \in run'[s].done /\ files[p][k] = Line(s, x)'
    BY <1>1 DEF FilesOK
  <2>1. s # r
    BY <1>1
  <2> QED BY <1>5, <1>11, <2>1, OthersAreAsBefore
<1>13. CountsOK'
  <2> SUFFICES ASSUME NEW s \in Runs, NEW p \in Programs, Writer(s, p)', Unbroken(files[p])
               PROVE  Counted(s, p)'
    BY <1>1 DEF CountsOK
  <2>1. CASE s # r
    <3>1. Counted(s, p) /\ run'[s] = run[s]
      BY <1>5, <1>11, <2>1 DEF CountsOK
    <3> QED BY <1>1, <3>1, OthersAreAsBefore DEF Counted
  <2>2. CASE s = r
    <3>1. \A k \in DOMAIN files[p] : files[p][k].at # stamp + 1
      BY <1>1, LinesHaveStamps DEF Unbroken
    <3>2. \A y : /\ LinesOf(files[p], stamp + 1, y) = {}
                 /\ LinesPassed(files[p], stamp + 1, y) = {}
      BY <3>1 DEF LinesOf, LinesPassed
    <3>3. \A y : DoneOf(r, y)' = {} /\ DonePassed(r, y)' = {}
      BY <1>3 DEF DoneOf, DonePassed
    <3> QED BY <1>1, <1>3, <2>2, <3>2, <3>3 DEF Counted
  <2> QED BY <2>1, <2>2
<1>14. RawOK'
  <2>1. KeptBy(r)' = KeptBy(r) /\ (run'[r].pc \in Gathered <=> run[r].pc \in Gathered)
    BY <1>1, <1>3 DEF KeptBy, Gathered
  <2>2. \A s \in Runs : /\ KeptBy(s)' = KeptBy(s) /\ \A x : Result(s, x)' = Result(s, x)
                        /\ run'[s].keepRaw = run[s].keepRaw
                        /\ run'[s].pc \in Gathered <=> run[s].pc \in Gathered
                        /\ run[s].pc = "lost" => run'[s].pc = "lost"
    BY <1>1, <1>3, <1>5, <2>1, OthersAreAsBefore
  <2> QED BY <1>1, <2>2, RawStays
<1> QED BY <1>10, <1>12, <1>13, <1>14

\* The file p with one line more, or as it was if its last line is a half one.
OneLineMore(p, line, more) ==
    /\ files' = [q \in Programs |-> files'[q]] /\ files'[p] = more
    /\ \A q \in Programs \ {p} : files'[q] = files[q]
    /\ IsSeq(more) /\ DOMAIN files[p] = 1 .. Len(files[p]) /\ Len(files[p]) \in Nat
    /\ \/ more = files[p] /\ ~Unbroken(files[p])
       \/ /\ Len(more) = Len(files[p]) + 1 /\ DOMAIN more = 1 .. Len(files[p]) + 1
          /\ \A k \in 1 .. Len(files[p]) : more[k] = files[p][k]
          /\ more[Len(files[p]) + 1] = line

LEMMA AppendedIs ==
    ASSUME ProbeInv, NEW p \in Programs, NEW line, NEW more, more = Appended(files[p], line),
           files' = [files EXCEPT ![p] = more]
    PROVE  OneLineMore(p, line, more)
<1> USE DEF OneLineMore
<1>1. PICK lines : lines = files[p] /\ IsSeq(lines)
  BY DEF ProbeInv, FilesOK
<1>2. DOMAIN lines = 1 .. Len(lines) /\ Len(lines) \in Nat
  BY <1>1, AppendIsSeq DEF IsSeq
<1>3. CASE lines # <<>> /\ lines[Len(lines)] = Torn
  <2>1. Len(lines) # 0
    BY <1>1, <1>2, <1>3, EmptyIsSeq DEF IsSeq
  <2>2. more = lines /\ ~Unbroken(lines)
    BY <1>1, <1>2, <1>3, <2>1 DEF Appended, Unbroken
  <2> QED BY <1>1, <1>2, <2>2 DEF ProbeInv, FilesOK
<1>4. CASE ~(lines # <<>> /\ lines[Len(lines)] = Torn)
  <2>1. more = Append(lines, line)
    BY <1>1, <1>4 DEF Appended
  <2>2. /\ IsSeq(more) /\ Len(more) = Len(lines) + 1 /\ DOMAIN more = 1 .. Len(lines) + 1
        /\ \A k \in 1 .. Len(lines) : more[k] = lines[k]
        /\ more[Len(lines) + 1] = line
    BY <1>1, <2>1, AppendIsSeq
  <2>3. /\ files' = [q \in Programs |-> files'[q]] /\ files'[p] = more
        /\ \A q \in Programs \ {p} : files'[q] = files[q]
    BY DEF ProbeInv, FilesOK
  <2> QED BY <1>1, <1>2, <2>2, <2>3
<1> QED BY <1>3, <1>4

\* Torn is no result.
LEMMA LinesAreWhole ==
    ASSUME ProbeInv, NEW r \in Runs, NEW x \in Places(r), run[r].pc \in HasStamp
    PROVE  /\ Line(r, x) # Torn /\ Line(r, x).at = run[r].at
           /\ run[r].at \in 2 .. stamp /\ stamp \in Nat
<1>1. RunOK(r) /\ stamp \in Nat /\ run[r].at \in 2 .. stamp
  BY DEF ProbeInv, RunsOK, RunOK
<1>2. Line(r, x).at = run[r].at
  BY <1>1, ResultIsRecord
<1>3. Torn.at = -1
  BY DEF Torn
<1> QED BY <1>1, <1>2, <1>3

\* The lines of a process in a file whose line n + 1 is new.
LineAdded(lines, more, n, at, y) ==
    /\ IsFiniteSet(LinesOf(lines, at, y)) /\ IsFiniteSet(LinesPassed(lines, at, y))
    /\ n + 1 \notin LinesOf(lines, at, y) /\ n + 1 \notin LinesPassed(lines, at, y)
    /\ LinesOf(more, at, y) = IF more[n + 1].at = at /\ more[n + 1].provider = y
                              THEN LinesOf(lines, at, y) \cup {n + 1}
                              ELSE LinesOf(lines, at, y)
    /\ LinesPassed(more, at, y) = IF /\ more[n + 1].at = at
                                     /\ more[n + 1].provider = y
                                     /\ more[n + 1].state = "passed"
                                  THEN LinesPassed(lines, at, y) \cup {n + 1}
                                  ELSE LinesPassed(lines, at, y)

LEMMA OneMoreLine ==
    ASSUME NEW lines, NEW more, NEW n \in Nat, DOMAIN lines = 1 .. n, DOMAIN more = 1 .. n + 1,
           \A k \in 1 .. n : more[k] = lines[k], NEW at, NEW y
    PROVE  LineAdded(lines, more, n, at, y)
<1>1. IsFiniteSet(1 .. n)
  BY FS_Interval
<1>2. /\ LinesOf(lines, at, y) \in SUBSET (1 .. n)
      /\ LinesPassed(lines, at, y) \in SUBSET (1 .. n)
  BY DEF LinesOf, LinesPassed
<1>3. IsFiniteSet(LinesOf(lines, at, y)) /\ IsFiniteSet(LinesPassed(lines, at, y))
  BY <1>1, <1>2, FS_Subset
<1>4. n + 1 \notin 1 .. n /\ 1 .. n + 1 = 1 .. n \cup {n + 1}
  OBVIOUS
<1>5. LinesOf(more, at, y) = IF more[n + 1].at = at /\ more[n + 1].provider = y
                             THEN LinesOf(lines, at, y) \cup {n + 1}
                             ELSE LinesOf(lines, at, y)
  BY <1>4 DEF LinesOf
<1>6. LinesPassed(more, at, y) = IF /\ more[n + 1].at = at
                                    /\ more[n + 1].provider = y
                                    /\ more[n + 1].state = "passed"
                                 THEN LinesPassed(lines, at, y) \cup {n + 1}
                                 ELSE LinesPassed(lines, at, y)
  <2>1. \A k : k \in LinesPassed(more, at, y) <=>
                 /\ k \in 1 .. n + 1 /\ more[k].at = at /\ more[k].provider = y
                 /\ more[k].state = "passed"
    BY DEF LinesPassed, LinesOf
  <2>2. \A k : k \in LinesPassed(lines, at, y) <=>
                 /\ k \in 1 .. n /\ more[k].at = at /\ more[k].provider = y
                 /\ more[k].state = "passed"
    BY DEF LinesPassed, LinesOf
  <2> QED BY <1>4, <2>1, <2>2
<1> QED BY <1>2, <1>3, <1>4, <1>5, <1>6 DEF LineAdded

\* A writer goes on: to the next line, to its end or to its death.
GoesOn(r, done) ==
    /\ RunsOK' /\ RawOK' /\ OnlyRun(r)
    /\ run'[r].done = done /\ run'[r].at = run[r].at
    /\ \A s \in Runs, p \in Programs : Writer(s, p)' = Writer(s, p)
    /\ \A s \in Runs : \A x : Result(s, x)' = Result(s, x) /\ Line(s, x)' = Line(s, x)
    /\ \A s \in Runs : run[s].done \subseteq run'[s].done
    /\ \A s \in Runs \ {r} : run'[s] = run[s]

LEMMA WriterIs ==
    ASSUME ProbeInv, NEW r \in Runs, run[r].pc = "writing", NEW pc \in HasStamp, NEW done,
           Advances(r, pc, done, run[r].at), run[r].done \subseteq done,
           done \subseteq Places(r), pc = "done" => done = Places(r),
           UNCHANGED <<rawFiles, stamp>>
    PROVE  GoesOn(r, done)
<1> USE DEF ProbeInv
<1>1. RunOK(r) /\ stamp \in Nat /\ stamp' = stamp /\ run[r].fixture.program \in Programs
  BY DEF RunsOK, RunOK
<1>2. /\ OnlyRun(r) /\ run'[r].pc = pc /\ run'[r].done = done /\ run'[r].at = run[r].at
      /\ run'[r].fixture = run[r].fixture /\ run'[r].keepRaw = run[r].keepRaw
      /\ Raw(r)' = Raw(r) /\ Places(r)' = Places(r) /\ \A x : Result(r, x)' = Result(r, x)
      /\ IsRun(run'[r]) /\ IsFiniteSet(Places(r)')
  BY AdvanceIs
<1>3. pc \in Gathered /\ pc # "keeping" /\ pc \notin {"idle", "lost"} /\ run[r].pc \in Gathered
  BY DEF HasStamp, Gathered
<1>4. run'[r].at \in 2 .. stamp'
  BY <1>1, <1>2 DEF RunOK, HasStamp
<1>5. RunOK(r)'
  BY <1>1, <1>2, <1>3, <1>4 DEF RunOK
<1>6. \A s \in Runs \ {r} : run'[s] = run[s] /\ RunOK(s)
  BY <1>2 DEF OnlyRun, RunsOK
<1>7. stamp' \in Nat /\ stamp <= stamp'
  BY <1>1
<1>8. \A s \in Runs : RunOK(s)'
  BY <1>1, <1>5, <1>6, <1>7, OthersStayOK
<1>9. \A s \in Runs : run'[s].at = run[s].at /\ (run'[s].pc \in HasStamp <=> run[s].pc \in HasStamp)
  BY <1>2, <1>6 DEF HasStamp
<1>10. RunsOK'
  BY <1>1, <1>2, <1>8, <1>9 DEF RunsOK, OnlyRun
<1>11. \A s \in Runs, p \in Programs : Writer(s, p)' = Writer(s, p)
  BY <1>2, <1>6, <1>9 DEF Writer
<1>12. \A s \in Runs : \A x : Result(s, x)' = Result(s, x) /\ Line(s, x)' = Line(s, x)
  BY <1>2, <1>6, OthersAreAsBefore DEF Line
<1>13. KeptBy(r)' = KeptBy(r)
  BY <1>2, <1>3 DEF KeptBy
<1>14. \A s \in Runs : /\ KeptBy(s)' = KeptBy(s) /\ \A x : Result(s, x)' = Result(s, x)
                       /\ run'[s].keepRaw = run[s].keepRaw
                       /\ run'[s].pc \in Gathered <=> run[s].pc \in Gathered
                       /\ run[s].pc = "lost" => run'[s].pc = "lost"
  BY <1>2, <1>3, <1>6, <1>12, <1>13, OthersAreAsBefore
<1>15. RawOK'
  BY <1>14, RawStays
<1> QED BY <1>2, <1>6, <1>10, <1>11, <1>12, <1>15 DEF GoesOn

\* Nothing is written.
LEMMA WriterEnds ==
    ASSUME ProbeInv, NEW r \in Runs, run[r].pc = "writing", NEW pc \in HasStamp,
           run' = [run EXCEPT ![r].pc = pc], pc = "done" => Places(r) \subseteq run[r].done,
           UNCHANGED <<files, rawFiles, stamp>>
    PROVE  ProbeInv'
<1>1. Advances(r, pc, run[r].done, run[r].at)
  BY EveryStepAdvances
<1>2. run[r].done \subseteq Places(r)
  BY RunsAreRuns DEF RunOK
<1>3. /\ RunsOK' /\ RawOK' /\ OnlyRun(r)
      /\ run'[r].done = run[r].done /\ run'[r].at = run[r].at
      /\ \A s \in Runs, p \in Programs : Writer(s, p)' = Writer(s, p)
      /\ \A s \in Runs : \A x : Result(s, x)' = Result(s, x) /\ Line(s, x)' = Line(s, x)
      /\ \A s \in Runs \ {r} : run'[s] = run[s]
  <2>1. run[r].done \subseteq run[r].done /\ (pc = "done" => run[r].done = Places(r))
    BY <1>2
  <2>2. GoesOn(r, run[r].done)
    BY <1>1, <1>2, <2>1, WriterIs
  <2> QED BY <2>2 DEF GoesOn
<1>4. \A s \in Runs : run'[s].done = run[s].done /\ run'[s].at = run[s].at
  BY <1>3
<1>5. FilesOK'
  BY <1>3, <1>4 DEF ProbeInv, FilesOK
<1>6. \A s \in Runs : \A y : DoneOf(s, y)' = DoneOf(s, y) /\ DonePassed(s, y)' = DonePassed(s, y)
  BY <1>3, <1>4 DEF DoneOf, DonePassed
<1>7. CountsOK'
  BY <1>3, <1>4, <1>6 DEF ProbeInv, CountsOK, Counted
<1> QED BY <1>3, <1>5, <1>7 DEF ProbeInv

\* A line is written, or melts into the half line before it.
LEMMA WriterWrites ==
    ASSUME ProbeInv, NEW r \in Runs, run[r].pc = "writing", NEW x \in Places(r),
           x \notin run[r].done, run' = [run EXCEPT ![r].done = @ \cup {x}],
           files' = [files EXCEPT ![run[r].fixture.program] = Appended(@, Line(r, x))],
           UNCHANGED <<rawFiles, stamp>>
    PROVE  ProbeInv'
<1>1. PICK p : p = run[r].fixture.program
  OBVIOUS
<1>2. PICK line : line = Line(r, x)
  OBVIOUS
<1>3. PICK more : more = Appended(files[p], line)
  OBVIOUS
<1>4. RunOK(r) /\ p \in Programs /\ Writer(r, p) /\ run[r].done \subseteq Places(r)
  BY <1>1, RunsAreRuns DEF RunOK, Writer, HasStamp
<1>5. Advances(r, "writing", run[r].done \cup {x}, run[r].at)
  BY EveryStepAdvances
<1>6. /\ RunsOK' /\ RawOK' /\ OnlyRun(r)
      /\ run'[r].done = run[r].done \cup {x} /\ run'[r].at = run[r].at
      /\ \A s \in Runs, q \in Programs : Writer(s, q)' = Writer(s, q)
      /\ \A s \in Runs : \A z : Result(s, z)' = Result(s, z) /\ Line(s, z)' = Line(s, z)
      /\ \A s \in Runs : run[s].done \subseteq run'[s].done
      /\ \A s \in Runs \ {r} : run'[s] = run[s]
  <2>1. PICK done : done = run[r].done \cup {x}
    OBVIOUS
  <2>2. /\ run[r].done \subseteq done /\ done \subseteq Places(r)
        /\ Advances(r, "writing", done, run[r].at) /\ "writing" \in HasStamp
    BY <1>4, <1>5, <2>1 DEF HasStamp
  <2>3. GoesOn(r, done)
    BY <2>2, WriterIs
  <2> QED BY <2>1, <2>3 DEF GoesOn
<1>7. files' = [files EXCEPT ![p] = more]
  BY <1>1, <1>2, <1>3
<1>8. /\ files' = [q \in Programs |-> files'[q]] /\ files'[p] = more
      /\ \A q \in Programs \ {p} : files'[q] = files[q]
      /\ IsSeq(more) /\ DOMAIN files[p] = 1 .. Len(files[p]) /\ Len(files[p]) \in Nat
      /\ \/ more = files[p] /\ ~Unbroken(files[p])
         \/ /\ Len(more) = Len(files[p]) + 1 /\ DOMAIN more = 1 .. Len(files[p]) + 1
            /\ \A k \in 1 .. Len(files[p]) : more[k] = files[p][k]
            /\ more[Len(files[p]) + 1] = line
  <2>1. OneLineMore(p, line, more)
    BY <1>3, <1>4, <1>7, AppendedIs
  <2> QED BY <2>1 DEF OneLineMore
<1>9. IsRecord(Result(r, x)) /\ line.at = run[r].at
      /\ line.provider = Result(r, x).provider /\ line.state = Result(r, x).state
  BY <1>2, <1>4, ResultIsRecord
<1>10. ASSUME NEW q \in Programs PROVE
       /\ IsSeq(files'[q]) /\ Len(Earlier[q]) <= Len(files'[q])
       /\ \A k \in 1 .. Len(Earlier[q]) : files'[q][k] = Earlier[q][k]
       /\ \A k \in 1 .. Len(files'[q]) : k > Len(Earlier[q]) =>
             \/ files'[q][k] = Torn
             \/ \E s \in Runs : /\ Writer(s, q)'
                                /\ \E z \in run'[s].done : files'[q][k] = Line(s, z)'
  <2>1. /\ IsSeq(files[q]) /\ Len(Earlier[q]) <= Len(files[q])
        /\ \A k \in 1 .. Len(Earlier[q]) : files[q][k] = Earlier[q][k]
    BY DEF ProbeInv, FilesOK
  <2>2. \A k \in 1 .. Len(files[q]) : k > Len(Earlier[q]) =>
           \/ files[q][k] = Torn
           \/ \E s \in Runs : /\ Writer(s, q)'
                              /\ \E z \in run'[s].done : files[q][k] = Line(s, z)'
    BY <1>6 DEF ProbeInv, FilesOK
  <2>3. Len(Earlier[q]) \in Nat
    BY ProbeAssumption DEF ProbeAssumption
  <2>4. CASE files'[q] = files[q]
    BY <2>1, <2>2, <2>4
  <2>5. CASE files'[q] # files[q]
    <3>1. q = p
      BY <1>8, <2>5
    <3> DEFINE n == Len(files[p])
    <3>2. /\ n \in Nat /\ Len(more) = n + 1 /\ \A k \in 1 .. n : more[k] = files[p][k]
          /\ more[n + 1] = line /\ IsSeq(more) /\ files'[q] = more
      BY <1>8, <2>5, <3>1
    <3>3. Writer(r, p)' /\ x \in run'[r].done /\ more[n + 1] = Line(r, x)'
      BY <1>2, <1>4, <1>6, <3>2
    <3> HIDE DEF n
    <3>4. \A k \in 1 .. n + 1 : k \in 1 .. n \/ k = n + 1
      BY <3>2
    <3>5. \A k \in 1 .. n + 1 : k > Len(Earlier[q]) =>
             \/ more[k] = Torn
             \/ \E s \in Runs : /\ Writer(s, q)'
                                /\ \E z \in run'[s].done : more[k] = Line(s, z)'
      BY <2>2, <3>1, <3>2, <3>3, <3>4 DEF n
    <3>6. /\ Len(Earlier[q]) <= n + 1
          /\ \A k \in 1 .. Len(Earlier[q]) : more[k] = Earlier[q][k]
      BY <2>1, <2>3, <3>1, <3>2 DEF n
    <3> QED BY <3>2, <3>5, <3>6
  <2> QED BY <2>4, <2>5
<1>11. FilesOK'
  BY <1>8, <1>10 DEF FilesOK
<1>12. CountsOK'
  <2> SUFFICES ASSUME NEW s \in Runs, NEW q \in Programs, Writer(s, q)', Unbroken(files'[q])
               PROVE  Counted(s, q)'
    BY DEF CountsOK
  <2>1. Writer(s, q) /\ run'[s].at = run[s].at
    BY <1>6
  <2>2. CASE q # p
    <3>1. files'[q] = files[q] /\ s # r /\ Counted(s, q)
      BY <1>1, <1>8, <2>1, <2>2 DEF Writer, ProbeInv, CountsOK
    <3>2. run'[s] = run[s]
      BY <1>6, <3>1
    <3> QED BY <3>1, <3>2, OthersAreAsBefore DEF Counted
  <2>3. CASE q = p
    <3> DEFINE n == Len(files[p])
    <3>1. more # files[p] \/ Unbroken(files[p])
      BY <1>8, <2>3
    <3>2. /\ n \in Nat /\ DOMAIN files[p] = 1 .. n /\ DOMAIN more = 1 .. n + 1
          /\ more[n + 1] = line /\ \A k \in 1 .. n : more[k] = files[p][k]
      BY <1>8, <3>1
    <3>3. Unbroken(files[p]) /\ files'[q] = more
      BY <1>8, <2>3, <3>2 DEF Unbroken
    <3>4. Counted(s, p)
      BY <2>1, <2>3, <3>3 DEF ProbeInv, CountsOK
    <3> HIDE DEF n
    <3>5. CASE s # r
      <4>1. line.at # run[s].at
        BY <1>4, <1>9, <2>1, <3>5 DEF ProbeInv, RunsOK, Writer
      <4>2. \A y : /\ LinesOf(more, run[s].at, y) = LinesOf(files[p], run[s].at, y)
                   /\ LinesPassed(more, run[s].at, y) = LinesPassed(files[p], run[s].at, y)
        BY <3>2, <4>1, OneMoreLine DEF LineAdded
      <4>3. run'[s] = run[s]
        BY <1>6, <3>5
      <4> QED BY <2>3, <3>3, <3>4, <4>2, <4>3, OthersAreAsBefore DEF Counted
    <3>6. CASE s = r
      <4> SUFFICES ASSUME NEW y
                   PROVE  /\ Cardinality(LinesOf(more, run[r].at, y)) = Cardinality(DoneOf(r, y)')
                          /\ Cardinality(LinesPassed(more, run[r].at, y))
                                = Cardinality(DonePassed(r, y)')
        BY <1>6, <2>3, <3>3, <3>6 DEF Counted
      <4>1. /\ Cardinality(LinesOf(files[p], run[r].at, y)) = Cardinality(DoneOf(r, y))
            /\ Cardinality(LinesPassed(files[p], run[r].at, y)) = Cardinality(DonePassed(r, y))
        BY <3>4, <3>6 DEF Counted
      <4>2. /\ IsFiniteSet(DoneOf(r, y)) /\ IsFiniteSet(DonePassed(r, y))
            /\ x \notin DoneOf(r, y) /\ x \notin DonePassed(r, y)
        <5>1. DoneOf(r, y) \in SUBSET Places(r) /\ DonePassed(r, y) \in SUBSET Places(r)
          BY <1>4 DEF DoneOf, DonePassed
        <5> QED BY <5>1, RunsAreRuns, FS_Subset DEF DoneOf, DonePassed
      <4>3. /\ DoneOf(r, y)' = IF line.provider = y THEN DoneOf(r, y) \cup {x}
                               ELSE DoneOf(r, y)
            /\ DonePassed(r, y)' = IF line.provider = y /\ line.state = "passed"
                                   THEN DonePassed(r, y) \cup {x} ELSE DonePassed(r, y)
        <5>1. \A z : Result(r, z)' = Result(r, z)
          BY <1>6
        <5>2. DoneOf(r, y)' = IF line.provider = y THEN DoneOf(r, y) \cup {x} ELSE DoneOf(r, y)
          BY <1>6, <1>9, <5>1 DEF DoneOf
        <5> QED BY <1>6, <1>9, <5>1, <5>2 DEF DonePassed, DoneOf
      <4>4. /\ IsFiniteSet(LinesOf(files[p], run[r].at, y))
            /\ IsFiniteSet(LinesPassed(files[p], run[r].at, y))
            /\ n + 1 \notin LinesOf(files[p], run[r].at, y)
            /\ n + 1 \notin LinesPassed(files[p], run[r].at, y)
            /\ LinesOf(more, run[r].at, y) =
                  IF line.provider = y THEN LinesOf(files[p], run[r].at, y) \cup {n + 1}
                  ELSE LinesOf(files[p], run[r].at, y)
            /\ LinesPassed(more, run[r].at, y) =
                  IF line.provider = y /\ line.state = "passed"
                  THEN LinesPassed(files[p], run[r].at, y) \cup {n + 1}
                  ELSE LinesPassed(files[p], run[r].at, y)
        <5>1. PICK a, lines, z : a = run[r].at /\ lines = files[p] /\ z = more[n + 1]
          OBVIOUS
        <5>2. /\ IsFiniteSet(LinesOf(lines, a, y)) /\ IsFiniteSet(LinesPassed(lines, a, y))
              /\ n + 1 \notin LinesOf(lines, a, y) /\ n + 1 \notin LinesPassed(lines, a, y)
              /\ LinesOf(more, a, y) = IF z.at = a /\ z.provider = y
                                       THEN LinesOf(lines, a, y) \cup {n + 1}
                                       ELSE LinesOf(lines, a, y)
              /\ LinesPassed(more, a, y) = IF z.at = a /\ z.provider = y /\ z.state = "passed"
                                           THEN LinesPassed(lines, a, y) \cup {n + 1}
                                           ELSE LinesPassed(lines, a, y)
          <6>1. LineAdded(lines, more, n, a, y)
            BY <3>2, <5>1, OneMoreLine
          <6> QED BY <5>1, <6>1 DEF LineAdded
        <5>3. z = line /\ z.at = a
          BY <1>9, <3>2, <5>1
        <5> QED BY <5>1, <5>2, <5>3
      <4>5. Cardinality(LinesOf(more, run[r].at, y)) = Cardinality(DoneOf(r, y)')
        <5>1. CASE line.provider = y
          <6>1. PICK D, L : D = DoneOf(r, y) /\ L = LinesOf(files[p], run[r].at, y)
            OBVIOUS
          <6>2. /\ IsFiniteSet(D) /\ x \notin D /\ IsFiniteSet(L) /\ n + 1 \notin L
                /\ Cardinality(D) = Cardinality(L)
            BY <4>1, <4>2, <4>4, <6>1
          <6>3. /\ Cardinality(D \cup {x}) = Cardinality(D) + 1
                /\ Cardinality(L \cup {n + 1}) = Cardinality(L) + 1
            BY <6>2, FS_AddElement
          <6>4. DoneOf(r, y)' = D \cup {x} /\ LinesOf(more, run[r].at, y) = L \cup {n + 1}
            BY <4>3, <4>4, <5>1, <6>1
          <6> QED BY <6>2, <6>3, <6>4
        <5>2. CASE line.provider # y
          BY <4>1, <4>3, <4>4, <5>2
        <5> QED BY <5>1, <5>2
      <4>6. Cardinality(LinesPassed(more, run[r].at, y)) = Cardinality(DonePassed(r, y)')
        <5>1. CASE line.provider = y /\ line.state = "passed"
          <6>1. PICK D, L : D = DonePassed(r, y) /\ L = LinesPassed(files[p], run[r].at, y)
            OBVIOUS
          <6>2. /\ IsFiniteSet(D) /\ x \notin D /\ IsFiniteSet(L) /\ n + 1 \notin L
                /\ Cardinality(D) = Cardinality(L)
            BY <4>1, <4>2, <4>4, <6>1
          <6>3. /\ Cardinality(D \cup {x}) = Cardinality(D) + 1
                /\ Cardinality(L \cup {n + 1}) = Cardinality(L) + 1
            BY <6>2, FS_AddElement
          <6>4. DonePassed(r, y)' = D \cup {x} /\ LinesPassed(more, run[r].at, y) = L \cup {n + 1}
            BY <4>3, <4>4, <5>1, <6>1
          <6> QED BY <6>2, <6>3, <6>4
        <5>2. CASE ~(line.provider = y /\ line.state = "passed")
          BY <4>1, <4>3, <4>4, <5>2
        <5> QED BY <5>1, <5>2
      <4> QED BY <4>5, <4>6
    <3> QED BY <3>5, <3>6
  <2> QED BY <2>2, <2>3
<1> QED BY <1>6, <1>11, <1>12 DEF ProbeInv

LEMMA WriteLineKeeps ==
    ASSUME ProbeInv, NEW r \in Runs, WriteLine(r)
    PROVE  ProbeInv'
<1>1. run[r].pc = "writing" /\ UNCHANGED <<rawFiles, stamp>>
  BY DEF WriteLine
<1>2. CASE /\ Places(r) \subseteq run[r].done
           /\ run' = [run EXCEPT ![r].pc = "done"]
           /\ UNCHANGED files
  BY <1>1, <1>2, WriterEnds DEF HasStamp
<1>3. ASSUME NEW x \in Places(r) \ run[r].done, run' = [run EXCEPT ![r].done = @ \cup {x}],
             files' = [files EXCEPT ![run[r].fixture.program] = Appended(@, Line(r, x))]
      PROVE  ProbeInv'
  BY <1>1, <1>3, WriterWrites
<1> QED BY <1>2, <1>3 DEF WriteLine

\* A process that dies while it writes leaves half a line, or none.
LEMMA HalfLineKeeps ==
    ASSUME ProbeInv, NEW r \in Runs, run[r].pc = "writing",
           run' = [run EXCEPT ![r].pc = "dead"],
           files' = [files EXCEPT ![run[r].fixture.program] = Appended(@, Torn)],
           UNCHANGED <<rawFiles, stamp>>
    PROVE  ProbeInv'
<1>1. PICK p : p = run[r].fixture.program
  OBVIOUS
<1>2. PICK more : more = Appended(files[p], Torn)
  OBVIOUS
<1>3. RunOK(r) /\ p \in Programs
  BY <1>1, RunsAreRuns DEF RunOK
<1>4. /\ RunsOK' /\ RawOK' /\ OnlyRun(r)
      /\ run'[r].done = run[r].done /\ run'[r].at = run[r].at
      /\ \A s \in Runs, q \in Programs : Writer(s, q)' = Writer(s, q)
      /\ \A s \in Runs : \A x : Result(s, x)' = Result(s, x) /\ Line(s, x)' = Line(s, x)
      /\ \A s \in Runs \ {r} : run'[s] = run[s]
  <2>1. Advances(r, "dead", run[r].done, run[r].at)
    BY EveryStepAdvances
  <2>2. run[r].done \subseteq run[r].done /\ run[r].done \subseteq Places(r) /\ "dead" \in HasStamp
    BY <1>3 DEF RunOK, HasStamp
  <2>3. GoesOn(r, run[r].done)
    BY <2>1, <2>2, WriterIs
  <2> QED BY <2>3 DEF GoesOn
<1>5. files' = [files EXCEPT ![p] = more]
  BY <1>1, <1>2
<1>6. /\ files' = [q \in Programs |-> files'[q]] /\ files'[p] = more
      /\ \A q \in Programs \ {p} : files'[q] = files[q]
      /\ IsSeq(more) /\ DOMAIN files[p] = 1 .. Len(files[p]) /\ Len(files[p]) \in Nat
      /\ \/ more = files[p] /\ ~Unbroken(files[p])
         \/ /\ Len(more) = Len(files[p]) + 1 /\ DOMAIN more = 1 .. Len(files[p]) + 1
            /\ \A k \in 1 .. Len(files[p]) : more[k] = files[p][k]
            /\ more[Len(files[p]) + 1] = Torn
  <2>1. OneLineMore(p, Torn, more)
    BY <1>2, <1>3, <1>5, AppendedIs
  <2> QED BY <2>1 DEF OneLineMore
<1>7. \A s \in Runs : run'[s].done = run[s].done /\ run'[s].at = run[s].at
  BY <1>4
<1>8. ASSUME NEW q \in Programs PROVE
       /\ IsSeq(files'[q]) /\ Len(Earlier[q]) <= Len(files'[q])
       /\ \A k \in 1 .. Len(Earlier[q]) : files'[q][k] = Earlier[q][k]
       /\ \A k \in 1 .. Len(files'[q]) : k > Len(Earlier[q]) =>
             \/ files'[q][k] = Torn
             \/ \E s \in Runs : /\ Writer(s, q)'
                                /\ \E z \in run'[s].done : files'[q][k] = Line(s, z)'
  <2>1. /\ IsSeq(files[q]) /\ Len(Earlier[q]) <= Len(files[q])
        /\ \A k \in 1 .. Len(Earlier[q]) : files[q][k] = Earlier[q][k]
    BY DEF ProbeInv, FilesOK
  <2>2. \A k \in 1 .. Len(files[q]) : k > Len(Earlier[q]) =>
           \/ files[q][k] = Torn
           \/ \E s \in Runs : /\ Writer(s, q)'
                              /\ \E z \in run'[s].done : files[q][k] = Line(s, z)'
    BY <1>4, <1>7 DEF ProbeInv, FilesOK
  <2>3. Len(Earlier[q]) \in Nat
    BY ProbeAssumption DEF ProbeAssumption
  <2>4. CASE files'[q] = files[q]
    BY <2>1, <2>2, <2>4
  <2>5. CASE files'[q] # files[q]
    <3>1. q = p
      BY <1>6, <2>5
    <3> DEFINE n == Len(files[p])
    <3>2. /\ n \in Nat /\ Len(more) = n + 1 /\ \A k \in 1 .. n : more[k] = files[p][k]
          /\ more[n + 1] = Torn /\ IsSeq(more) /\ files'[q] = more
      BY <1>6, <2>5, <3>1
    <3> HIDE DEF n
    <3>3. \A k \in 1 .. n + 1 : k \in 1 .. n \/ k = n + 1
      BY <3>2
    <3>4. \A k \in 1 .. n + 1 : k > Len(Earlier[q]) =>
             \/ more[k] = Torn
             \/ \E s \in Runs : /\ Writer(s, q)'
                                /\ \E z \in run'[s].done : more[k] = Line(s, z)'
      BY <2>2, <3>1, <3>2, <3>3 DEF n
    <3>5. /\ Len(Earlier[q]) <= n + 1
          /\ \A k \in 1 .. Len(Earlier[q]) : more[k] = Earlier[q][k]
      BY <2>1, <2>3, <3>1, <3>2 DEF n
    <3> QED BY <3>2, <3>4, <3>5
  <2> QED BY <2>4, <2>5
<1>9. FilesOK'
  BY <1>6, <1>8 DEF FilesOK
<1>10. CountsOK'
  <2> SUFFICES ASSUME NEW s \in Runs, NEW q \in Programs, Writer(s, q)', Unbroken(files'[q])
               PROVE  Counted(s, q)'
    BY DEF CountsOK
  <2>1. ~Unbroken(more)
    <3>1. CASE more = files[p] /\ ~Unbroken(files[p])
      BY <3>1
    <3>2. CASE /\ Len(more) = Len(files[p]) + 1 /\ DOMAIN more = 1 .. Len(files[p]) + 1
               /\ more[Len(files[p]) + 1] = Torn
      BY <1>6, <3>2 DEF Unbroken
    <3> QED BY <1>6, <3>1, <3>2
  <2>2. q # p /\ files'[q] = files[q]
    BY <1>6, <2>1
  <2>3. Counted(s, q)
    BY <1>4, <2>2 DEF ProbeInv, CountsOK
  <2>4. \A y : DoneOf(s, y)' = DoneOf(s, y) /\ DonePassed(s, y)' = DonePassed(s, y)
    BY <1>4, <1>7 DEF DoneOf, DonePassed
  <2> QED BY <1>7, <2>2, <2>3, <2>4 DEF Counted
<1> QED BY <1>4, <1>9, <1>10 DEF ProbeInv

LEMMA DieKeeps ==
    ASSUME ProbeInv, NEW r \in Runs, Die(r)
    PROVE  ProbeInv'
<1>1. CASE run[r].pc = "writing"
  BY <1>1, WriterEnds, HalfLineKeeps DEF Die, HasStamp
<1>2. CASE run[r].pc # "writing"
  BY <1>2, LostKeeps DEF Die
<1> QED BY <1>1, <1>2

LEMMA ProbeStarts == ProbeInit => ProbeInv
<1> SUFFICES ASSUME ProbeInit PROVE ProbeInv
  OBVIOUS
<1>1. PICK st : st = NotStarted
  OBVIOUS
<1>2. run = [r \in Runs |-> st] /\ stamp = 1 /\ files = Earlier /\ rawFiles = <<>>
  BY <1>1 DEF ProbeInit
<1>3. /\ st.pc = "idle" /\ st.results = <<>> /\ st.done = {} /\ st.at = 0
      /\ st = [pc |-> st.pc, fixture |-> st.fixture, keepRaw |-> st.keepRaw,
               results |-> st.results, search |-> st.search, broken |-> st.broken,
               done |-> st.done, at |-> st.at]
  BY <1>1 DEF NotStarted
<1>4. IsRun(st)
  <2>1. <<>> = [i \in DOMAIN <<>> |-> <<>>[i]]
    BY EmptyIsSeq DEF IsSeq
  <2> QED BY <1>3, <2>1, EmptyIsSeq DEF IsRun
<1>5. \A r \in Runs : run[r] = st /\ Places(r) = {}
  BY <1>2, <1>3, EmptyIsSeq DEF Places
<1>6. \A r \in Runs : RunOK(r)
  BY <1>2, <1>3, <1>4, <1>5, FS_EmptySet DEF RunOK, HasStamp, Gathered
<1>7. RunsOK
  BY <1>2, <1>3, <1>5, <1>6 DEF RunsOK, HasStamp
<1>8. FilesOK
  <2>0. Earlier = [p \in Programs |-> Earlier[p]]
    BY ProbeAssumption DEF ProbeAssumption
  <2>1. files = [p \in Programs |-> files[p]]
    BY <1>2, <2>0
  <2>2. \A p \in Programs : Earlier[p] \in Seq({Earlier[p][k] : k \in DOMAIN Earlier[p]})
    BY ProbeAssumption DEF ProbeAssumption
  <2>3. ASSUME NEW p \in Programs PROVE IsSeq(Earlier[p])
    <3>1. PICK S : Earlier[p] \in Seq(S)
      BY <2>2
    <3> QED BY <3>1, LenProperties DEF IsSeq
  <2> QED BY <1>2, <2>1, <2>3 DEF FilesOK, IsSeq
<1>9. CountsOK
  BY <1>3, <1>5 DEF CountsOK, Writer, HasStamp
<1>10. RawOK
  BY <1>2, <1>3, <1>5, EmptyIsSeq DEF RawOK, KeepsRaw, Gathered
<1> QED BY <1>7, <1>8, <1>9, <1>10 DEF ProbeInv

LEMMA ProbeKeeps == ProbeInv /\ [ProbeNext]_probeVars => ProbeInv'
<1> SUFFICES ASSUME ProbeInv, [ProbeNext]_probeVars PROVE ProbeInv'
  OBVIOUS
<1>1. ASSUME NEW r \in Runs, NEW f \in Fixtures, NEW keepRaw \in {"yes", "no"},
             Start(r, f, keepRaw)
      PROVE  ProbeInv'
  BY <1>1, StartKeeps
<1>2. ASSUME NEW r \in Runs, NEW i \in Threads(r), SearchFails(r, i) PROVE ProbeInv'
  BY <1>2, SearchFailsKeeps
<1>3. ASSUME NEW r \in Runs, NEW i \in Threads(r), CallFails(r, i) PROVE ProbeInv'
  BY <1>3, CallFailsKeeps
<1>4. ASSUME NEW r \in Runs, NEW i \in Threads(r), NEW a \in CallAnswers, ToolSays(r, i, a)
      PROVE  ProbeInv'
  BY <1>4, ToolSaysKeeps
<1>5. ASSUME NEW r \in Runs, NEW i \in Threads(r), CallEscapes(r, i) PROVE ProbeInv'
  BY <1>5, CallEscapesKeeps
<1>6. ASSUME NEW r \in Runs, NEW i \in Threads(r), NEW m \in Messages, ModelSays(r, i, m)
      PROVE  ProbeInv'
  BY <1>6, ModelSaysKeeps
<1>7. ASSUME NEW r \in Runs, NEW i \in Threads(r), GatewayFails(r, i) PROVE ProbeInv'
  BY <1>7, GatewayFailsKeeps
<1>8. ASSUME NEW r \in Runs, Gather(r) PROVE ProbeInv'
  BY <1>8, GatherKeeps
<1>9. ASSUME NEW r \in Runs, KeepRaw(r) PROVE ProbeInv'
  BY <1>9, KeepRawKeeps
<1>10. ASSUME NEW r \in Runs, Stamp(r) PROVE ProbeInv'
  BY <1>10, StampKeeps
<1>11. ASSUME NEW r \in Runs, WriteLine(r) PROVE ProbeInv'
  BY <1>11, WriteLineKeeps
<1>12. ASSUME NEW r \in Runs, Die(r) PROVE ProbeInv'
  BY <1>12, DieKeeps
<1>13. CASE UNCHANGED probeVars
  <2>1. UNCHANGED <<run, files, rawFiles, stamp>>
    BY <1>13 DEF probeVars
  <2>2. \A r : Places(r)' = Places(r) /\ \A x : Result(r, x)' = Result(r, x)
    BY <2>1 DEF Places, Result
  <2>3. \A r : Raw(r)' = Raw(r) /\ KeptBy(r)' = KeptBy(r) /\ KeepsRaw(r)' = KeepsRaw(r)
    BY <2>1, <2>2 DEF Raw, KeptBy, KeepsRaw
  <2>4. RunsOK'
    BY <2>1, <2>2, <2>3 DEF ProbeInv, RunsOK, RunOK
  <2>5. FilesOK'
    BY <2>1, <2>2 DEF ProbeInv, FilesOK, Writer, Line
  <2>6. CountsOK'
    BY <2>1, <2>2 DEF ProbeInv, CountsOK, Writer, Counted, DoneOf, DonePassed
  <2>7. RawOK'
    BY <2>1, <2>2, <2>3, RawStays DEF ProbeInv
  <2> QED BY <2>4, <2>5, <2>6, <2>7 DEF ProbeInv
<1> QED BY <1>1, <1>2, <1>3, <1>4, <1>5, <1>6, <1>7, <1>8, <1>9, <1>10, <1>11, <1>12, <1>13
        DEF ProbeNext

\* What is true of every state: stamps are given once, a line is what one process got,
\* a file without half lines has each result once, a raw answer kept is still there.
THEOREM ProbeInvariance == ProbeSpec => []ProbeInv
<1> QED BY ProbeStarts, ProbeKeeps, PTL DEF ProbeSpec

-----------------------------------------------------------------------------
(***************************************************************************)
(* What the renderer counts                                                *)
(***************************************************************************)
LEMMA LeastNumber ==
    ASSUME NEW T, T \subseteq Nat, T # {}
    PROVE  \E x \in T : \A y \in T : x <= y
<1>1. PICK x \in T : \A y \in T : <<y, x>> \notin OpToRel(<, Nat)
  BY NatLessThanWellFounded, WFMin
<1>2. \A y \in T : ~(y < x)
  BY <1>1 DEF OpToRel
<1> QED BY <1>2

LEMMA GreatestNumber ==
    ASSUME NEW top \in Nat, NEW T, T \subseteq 1 .. top, T # {}
    PROVE  \E x \in T : \A y \in T : y <= x
<1> DEFINE Below == {top - x : x \in T}
<1>1. Below \subseteq Nat /\ Below # {}
  <2>1. \A x \in T : x \in 1 .. top /\ top - x \in Nat
    OBVIOUS
  <2> QED BY <2>1
<1>2. PICK b \in Below : \A c \in Below : b <= c
  <2> HIDE DEF Below
  <2> QED BY <1>1, LeastNumber
<1>3. PICK x \in T : b = top - x
  OBVIOUS
<1>4. ASSUME NEW y \in T PROVE y <= x
  <2>1. top - x <= top - y
    BY <1>2, <1>3
  <2> QED BY <2>1
<1> QED BY <1>4

\* The newest batch of a file that can be read is that of one stamp.
LEMMA LatestIs ==
    ASSUME ProbeInv, NEW p \in Programs, Readable(files[p])
    PROVE  \E m \in 1 .. stamp : /\ LatestBatch(files[p]) = BatchOf(files[p], m)
                                 /\ \E k \in DOMAIN files[p] : files[p][k].at = m
                                 /\ \A k \in DOMAIN files[p] : files[p][k].at <= m
<1> DEFINE Stamps == {files[p][k].at : k \in DOMAIN files[p]}
<1>1. stamp \in Nat
  BY DEF ProbeInv, RunsOK
<1>2. \A k \in DOMAIN files[p] : files[p][k].at \in 1 .. stamp
  BY LinesHaveStamps DEF ProbeInv, Readable
<1>3. Stamps \subseteq 1 .. stamp
  BY <1>2
<1>4. Stamps # {}
  <2>1. IsSeq(files[p])
    BY DEF ProbeInv, FilesOK
  <2>2. DOMAIN files[p] # {}
    BY <2>1, EmptyIsSeq DEF Readable, IsSeq
  <2> QED BY <2>2
<1>5. \E m \in Stamps : \A y \in Stamps : y <= m
  <2> HIDE DEF Stamps
  <2> QED BY <1>1, <1>3, <1>4, GreatestNumber
<1> DEFINE m == CHOOSE at \in Stamps : \A k \in DOMAIN files[p] : files[p][k].at <= at
<1>6. m \in Stamps /\ \A k \in DOMAIN files[p] : files[p][k].at <= m
  BY <1>5
<1>7. LatestBatch(files[p]) = BatchOf(files[p], m)
  BY DEF LatestBatch
<1> HIDE DEF m
<1> QED BY <1>3, <1>6, <1>7

LEMMA BatchIs ==
    ASSUME NEW lines, NEW at
    PROVE  /\ DOMAIN BatchOf(lines, at) = {k \in DOMAIN lines : lines[k].at = at}
           /\ \A k \in DOMAIN BatchOf(lines, at) : BatchOf(lines, at)[k] = lines[k]
           /\ \A y : Of(BatchOf(lines, at), y) = LinesOf(lines, at, y)
           /\ \A y : Passed(BatchOf(lines, at), y) = LinesPassed(lines, at, y)
<1>1. /\ DOMAIN BatchOf(lines, at) = {k \in DOMAIN lines : lines[k].at = at}
      /\ \A k \in DOMAIN BatchOf(lines, at) : BatchOf(lines, at)[k] = lines[k]
  BY DEF BatchOf
<1>2. ASSUME NEW y PROVE Of(BatchOf(lines, at), y) = LinesOf(lines, at, y)
  BY <1>1 DEF Of, LinesOf
<1>3. ASSUME NEW y PROVE Passed(BatchOf(lines, at), y) = LinesPassed(lines, at, y)
  BY <1>1, <1>2 DEF Passed, LinesPassed, LinesOf
<1> QED BY <1>1, <1>2, <1>3

LEMMA ResultsAre ==
    ASSUME NEW r
    PROVE  /\ DOMAIN Results(r) = Places(r)
           /\ \A y : Of(Results(r), y) = {x \in Places(r) : Result(r, x).provider = y}
           /\ \A y : Passed(Results(r), y) =
                        {x \in Of(Results(r), y) : Result(r, x).state = "passed"}
<1>1. DOMAIN Results(r) = Places(r) /\ \A x \in Places(r) : Results(r)[x] = Result(r, x)
  BY DEF Results
<1>2. \A y : Of(Results(r), y) = {x \in Places(r) : Result(r, x).provider = y}
  BY <1>1 DEF Of
<1>3. ASSUME NEW y
      PROVE  Passed(Results(r), y) = {x \in Of(Results(r), y) : Result(r, x).state = "passed"}
  BY <1>1, <1>2 DEF Passed
<1> QED BY <1>1, <1>2, <1>3

LEMMA FiguresAre ==
    ASSUME NEW records
    PROVE  /\ DOMAIN Figures(records) = {records[k].provider : k \in DOMAIN records}
           /\ \A y : y \in DOMAIN Figures(records) <=> Of(records, y) # {}
           /\ \A y \in DOMAIN Figures(records) :
                 Figures(records)[y] = [passed |-> Cardinality(Passed(records, y)),
                                        total |-> Cardinality(Of(records, y))]
           /\ Figures(records) = [y \in DOMAIN Figures(records) |-> Figures(records)[y]]
  BY DEF Figures, Of

\* A batch of the process r counts what r has written of its results.
LEMMA BatchOfRun ==
    ASSUME ProbeInv, NEW r \in Runs, NEW p \in Programs, Writer(r, p), Unbroken(files[p]),
           NEW batch, batch = BatchOf(files[p], run[r].at), NEW all, all = Results(r), NEW y
    PROVE  /\ Cardinality(Of(batch, y)) <= Cardinality(Of(all, y))
           /\ Cardinality(Passed(batch, y)) <= Cardinality(Passed(all, y))
           /\ Of(batch, y) # {} => Of(all, y) # {}
           /\ run[r].pc = "done" =>
                 /\ Of(batch, y) # {} <=> Of(all, y) # {}
                 /\ Cardinality(Of(batch, y)) = Cardinality(Of(all, y))
                 /\ Cardinality(Passed(batch, y)) = Cardinality(Passed(all, y))
<1>1. /\ Cardinality(Of(batch, y)) = Cardinality(DoneOf(r, y))
      /\ Cardinality(Passed(batch, y)) = Cardinality(DonePassed(r, y))
  <2>1. /\ Of(batch, y) = LinesOf(files[p], run[r].at, y)
        /\ Passed(batch, y) = LinesPassed(files[p], run[r].at, y)
    BY BatchIs
  <2>2. Counted(r, p)
    BY DEF ProbeInv, CountsOK
  <2> QED BY <2>1, <2>2 DEF Counted
<1>2. /\ run[r].done \subseteq Places(r) /\ IsFiniteSet(Places(r))
      /\ run[r].pc = "done" => run[r].done = Places(r)
  BY DEF ProbeInv, RunsOK, RunOK
<1>3. /\ Of(all, y) = {x \in Places(r) : Result(r, x).provider = y}
      /\ Passed(all, y) = {x \in Of(all, y) : Result(r, x).state = "passed"}
  BY ResultsAre
<1>4. /\ Of(all, y) \subseteq Places(r) /\ Passed(all, y) \subseteq Of(all, y)
      /\ DoneOf(r, y) \subseteq Of(all, y) /\ DonePassed(r, y) \subseteq Passed(all, y)
      /\ run[r].pc = "done" => /\ DoneOf(r, y) = Of(all, y)
                               /\ DonePassed(r, y) = Passed(all, y)
  BY <1>2, <1>3 DEF DoneOf, DonePassed
<1>5. IsFiniteSet(Of(all, y)) /\ IsFiniteSet(Passed(all, y)) /\ IsFiniteSet(DoneOf(r, y))
  BY <1>2, <1>4, FS_Subset
<1>6. /\ Cardinality(DoneOf(r, y)) <= Cardinality(Of(all, y))
      /\ Cardinality(DonePassed(r, y)) <= Cardinality(Passed(all, y))
  BY <1>4, <1>5, FS_Subset
<1>7. IsFiniteSet(Of(batch, y))
  <2>0. Of(batch, y) = LinesOf(files[p], run[r].at, y)
    BY BatchIs
  <2>1. Of(batch, y) \subseteq DOMAIN files[p]
    BY <2>0 DEF LinesOf
  <2>2. DOMAIN files[p] = 1 .. Len(files[p]) /\ Len(files[p]) \in Nat
    BY AppendIsSeq DEF ProbeInv, FilesOK, IsSeq
  <2>3. IsFiniteSet(1 .. Len(files[p]))
    BY <2>2, FS_Interval
  <2> QED BY <2>1, <2>2, <2>3, FS_Subset
<1>8. Of(batch, y) # {} <=> DoneOf(r, y) # {}
  BY <1>1, <1>5, <1>7, FS_EmptySet
<1> QED BY <1>1, <1>4, <1>6, <1>8

LEMMA OneRunIsCounted ==
    ASSUME ProbeInv, NEW r \in Runs, NEW p \in Programs, Writer(r, p), Unbroken(files[p]),
           NEW batch, batch = BatchOf(files[p], run[r].at), NEW rows, rows = Figures(batch),
           NEW all, all = Figures(Results(r))
    PROVE  /\ \A k \in DOMAIN batch : batch[k].at = run[r].at
           /\ DOMAIN rows \subseteq DOMAIN all
           /\ \A x \in DOMAIN rows : /\ rows[x].total <= all[x].total
                                    /\ rows[x].passed <= all[x].passed
           /\ run[r].pc = "done" => rows = all
<1>1. PICK records : records = Results(r)
  OBVIOUS
<1>2. /\ \A y : y \in DOMAIN rows <=> Of(batch, y) # {}
      /\ \A y \in DOMAIN rows : rows[y] = [passed |-> Cardinality(Passed(batch, y)),
                                           total |-> Cardinality(Of(batch, y))]
      /\ rows = [y \in DOMAIN rows |-> rows[y]]
  BY FiguresAre
<1>3. /\ \A y : y \in DOMAIN all <=> Of(records, y) # {}
      /\ \A y \in DOMAIN all : all[y] = [passed |-> Cardinality(Passed(records, y)),
                                         total |-> Cardinality(Of(records, y))]
      /\ all = [y \in DOMAIN all |-> all[y]]
  BY <1>1, FiguresAre
<1>4. ASSUME NEW k \in DOMAIN batch PROVE batch[k].at = run[r].at
  <2>1. k \in {j \in DOMAIN files[p] : files[p][j].at = run[r].at}
    BY BatchIs
  <2>2. batch[k] = files[p][k]
    BY BatchIs
  <2> QED BY <2>1, <2>2
<1>5. \A y : /\ Cardinality(Of(batch, y)) <= Cardinality(Of(records, y))
             /\ Cardinality(Passed(batch, y)) <= Cardinality(Passed(records, y))
             /\ Of(batch, y) # {} => Of(records, y) # {}
  BY <1>1, BatchOfRun
<1>6. ASSUME run[r].pc = "done"
      PROVE  \A y : /\ Of(batch, y) # {} <=> Of(records, y) # {}
                    /\ Cardinality(Of(batch, y)) = Cardinality(Of(records, y))
                    /\ Cardinality(Passed(batch, y)) = Cardinality(Passed(records, y))
  BY <1>1, <1>6, BatchOfRun
<1>7. DOMAIN rows \subseteq DOMAIN all
  BY <1>2, <1>3, <1>5
<1>8. ASSUME NEW x \in DOMAIN rows
      PROVE  rows[x].total <= all[x].total /\ rows[x].passed <= all[x].passed
  <2>0. rows[x] = [passed |-> Cardinality(Passed(batch, x)), total |-> Cardinality(Of(batch, x))]
    BY <1>2, <1>8, Zenon
  <2>1. /\ rows[x].total = Cardinality(Of(batch, x))
        /\ rows[x].passed = Cardinality(Passed(batch, x))
    BY <2>0
  <2>2. x \in DOMAIN all
    BY <1>7, <1>8
  <2>3. /\ all[x].total = Cardinality(Of(records, x))
        /\ all[x].passed = Cardinality(Passed(records, x))
    BY <1>3, <2>2
  <2> QED BY <1>5, <2>1, <2>3
<1>9. ASSUME run[r].pc = "done" PROVE rows = all
  <2>1. DOMAIN rows = DOMAIN all
    BY <1>2, <1>3, <1>6, <1>9
  <2>2. \A y \in DOMAIN rows : rows[y] = all[y]
    BY <1>2, <1>3, <1>6, <1>9, <2>1
  <2> QED BY <1>2, <1>3, <2>1, <2>2
<1> QED BY <1>4, <1>7, <1>8, <1>9

\* Before any process has written, the newest batch is the former one.
LEMMA FormerIsCounted ==
    ASSUME ProbeInv, NEW p \in Programs, Readable(files[p]),
           \A k \in DOMAIN files[p] : files[p][k].at <= 1
    PROVE  BatchOf(files[p], 1) = Earlier[p]
<1>1. PICK lines : lines = files[p] /\ IsSeq(lines)
  BY DEF ProbeInv, FilesOK
<1>2. DOMAIN lines = 1 .. Len(lines) /\ Len(lines) \in Nat
  BY <1>1, AppendIsSeq DEF IsSeq
<1>3. PICK former : former = Earlier[p]
  OBVIOUS
<1>4. /\ former \in Seq({former[k] : k \in DOMAIN former})
      /\ \A k \in DOMAIN former : former[k].at = 1
  BY <1>3, ProbeAssumption DEF ProbeAssumption
<1>5. IsSeq(former) /\ DOMAIN former = 1 .. Len(former) /\ Len(former) \in Nat
  <2>1. PICK S : former \in Seq(S)
    BY <1>4
  <2> QED BY <2>1, LenProperties DEF IsSeq
<1>6. /\ Len(former) <= Len(lines)
      /\ \A k \in 1 .. Len(former) : lines[k] = former[k]
  BY <1>1, <1>3 DEF ProbeInv, FilesOK
<1>7. ASSUME NEW k \in 1 .. Len(lines) PROVE k <= Len(former)
  <2>1. k \in DOMAIN files[p] /\ files[p][k] # Torn /\ files[p][k].at <= 1
    BY <1>1, <1>2 DEF Readable
  <2>2. ASSUME k > Len(former) PROVE FALSE
    <3>1. PICK r \in Runs : /\ Writer(r, p) /\ files[p][k].at = run[r].at
                            /\ run[r].at >= 2
      BY <1>3, <2>1, <2>2, LinesHaveStamps DEF ProbeInv
    <3>2. run[r].at \in Nat
      BY <3>1 DEF ProbeInv, RunsOK, RunOK, Writer
    <3> QED BY <2>1, <3>1, <3>2
  <2> QED BY <1>5, <2>2
<1>8. Len(lines) = Len(former)
  <2>1. CASE Len(lines) = 0
    BY <1>2, <1>5, <1>6, <2>1
  <2>2. CASE Len(lines) # 0
    <3>1. Len(lines) \in 1 .. Len(lines)
      BY <1>2, <2>2
    <3>2. Len(lines) <= Len(former)
      BY <1>7, <3>1
    <3>3. \A a, b \in Nat : a <= b /\ b <= a => a = b
      OBVIOUS
    <3> QED BY <1>2, <1>5, <1>6, <3>2, <3>3
  <2> QED BY <2>1, <2>2
<1>9. lines = former
  BY <1>1, <1>5, <1>6, <1>8 DEF IsSeq
<1>10. BatchOf(lines, 1) = [k \in DOMAIN former |-> former[k]]
  BY <1>4, <1>9 DEF BatchOf
<1> QED BY <1>1, <1>3, <1>5, <1>10 DEF IsSeq

LEMMA FiguresFollow == ProbeInv => FiguresAreOfOneRun
<1> SUFFICES ASSUME ProbeInv, NEW p \in Programs, Readable(files[p])
             PROVE  LET batch == LatestBatch(files[p])
                        rows == Figures(batch) IN
                    \/ rows = Figures(Earlier[p]) /\ \A k \in DOMAIN batch : batch[k].at = 1
                    \/ \E r \in Runs :
                          LET all == Figures(Results(r)) IN
                          /\ run[r].fixture.program = p
                          /\ \A k \in DOMAIN batch : batch[k].at = run[r].at
                          /\ DOMAIN rows \subseteq DOMAIN all
                          /\ \A x \in DOMAIN rows : /\ rows[x].total <= all[x].total
                                                   /\ rows[x].passed <= all[x].passed
                          /\ run[r].pc = "done" => rows = all
  BY DEF FiguresAreOfOneRun
<1>1. PICK m \in 1 .. stamp : /\ LatestBatch(files[p]) = BatchOf(files[p], m)
                              /\ \E k \in DOMAIN files[p] : files[p][k].at = m
                              /\ \A k \in DOMAIN files[p] : files[p][k].at <= m
  BY LatestIs
<1>2. PICK batch : batch = BatchOf(files[p], m)
  OBVIOUS
<1>3. CASE m = 1
  <2>1. batch = Earlier[p]
    BY <1>1, <1>2, <1>3, FormerIsCounted
  <2>2. ASSUME NEW k \in DOMAIN batch PROVE batch[k].at = 1
    <3>1. k \in {j \in DOMAIN files[p] : files[p][j].at = m}
      BY <1>2 DEF BatchOf
    <3>2. batch[k] = files[p][k]
      BY <1>2, BatchIs
    <3> QED BY <1>3, <3>1, <3>2
  <2> QED BY <1>1, <1>2, <2>1, <2>2
<1>4. CASE m # 1
  <2>1. PICK k \in DOMAIN files[p] : files[p][k].at = m
    BY <1>1
  <2>2. files[p][k] # Torn /\ Unbroken(files[p])
    BY DEF Readable, Unbroken
  <2>4. PICK r \in Runs : Writer(r, p) /\ m = run[r].at
    <3>1. Len(Earlier[p]) \in Nat /\ k \in 1 .. Len(files[p])
      BY <2>2, LinesHaveStamps, ProbeAssumption DEF ProbeInv, ProbeAssumption
    <3>2. k > Len(Earlier[p])
      BY <1>4, <2>1, <2>2, <3>1, LinesHaveStamps DEF ProbeInv
    <3> QED BY <2>1, <2>2, <3>2, LinesHaveStamps DEF ProbeInv
  <2>5. PICK rows : rows = Figures(batch)
    OBVIOUS
  <2>6. PICK all : all = Figures(Results(r))
    OBVIOUS
  <2>7. /\ \A j \in DOMAIN batch : batch[j].at = run[r].at
        /\ DOMAIN rows \subseteq DOMAIN all
        /\ \A x \in DOMAIN rows : /\ rows[x].total <= all[x].total
                                 /\ rows[x].passed <= all[x].passed
        /\ run[r].pc = "done" => rows = all
    BY <1>2, <2>2, <2>4, <2>5, <2>6, OneRunIsCounted
  <2>8. run[r].fixture.program = p
    BY <2>4 DEF Writer
  <2> QED BY <1>1, <1>2, <2>5, <2>6, <2>7, <2>8
<1> QED BY <1>3, <1>4

\* A page counts one batch: whatever probes run at the same time, die or leave a half
\* line, a file that can be read has of a finished run every cell once, and of any
\* other no more than it has (render_guide_article.py:101-113, 236-287).
THEOREM FiguresComeFromOneRun == ProbeSpec => []FiguresAreOfOneRun
<1> QED BY ProbeInvariance, FiguresFollow, PTL

LEMMA RawFollows == ProbeInv => RawBacksTheRecords
<1> SUFFICES ASSUME ProbeInv, NEW r \in Runs, NEW k \in DOMAIN files["direct"],
                    NEW line, line = files["direct"][k], NEW id, id = EvidenceId(line),
                    line.raw = "yes", line.at = run[r].at, run[r].keepRaw = "yes"
             PROVE  /\ id \in DOMAIN rawFiles
                    /\ IF rawFiles[id][1] = r THEN Line(r, rawFiles[id][2]) = line
                                              ELSE run[rawFiles[id][1]].keepRaw = "yes"
  BY DEF RawBacksTheRecords
<1>1. "direct" \in Programs
  BY DEF Programs
<1>2. line # Torn
  <2>1. Torn.raw = "no"
    BY DEF Torn
  <2> QED BY <2>1
<1>3. RunOK(r) /\ stamp \in Nat
  BY DEF ProbeInv, RunsOK
<1>4. run[r].at = 0 \/ run[r].at >= 2
  BY <1>3 DEF RunOK
<1>5. /\ line.at \in 1 .. stamp /\ k \in 1 .. Len(files["direct"])
      /\ k <= Len(Earlier["direct"]) => line.at = 1
      /\ k > Len(Earlier["direct"]) => \E s \in Runs :
            /\ Writer(s, "direct") /\ line.at = run[s].at /\ run[s].at >= 2
            /\ \E x \in run[s].done : x \in Places(s) /\ line = Line(s, x)
  BY <1>1, <1>2, LinesHaveStamps DEF ProbeInv
<1>6. k > Len(Earlier["direct"])
  <2>1. Len(Earlier["direct"]) \in Nat
    BY <1>1, ProbeAssumption DEF ProbeAssumption
  <2> QED BY <1>4, <1>5, <2>1
<1>7. PICK s \in Runs : /\ Writer(s, "direct") /\ line.at = run[s].at
                        /\ \E x \in run[s].done : x \in Places(s) /\ line = Line(s, x)
  BY <1>5, <1>6
<1>8. s = r
  BY <1>7 DEF ProbeInv, RunsOK, Writer
<1>9. PICK x \in Places(r) : line = Line(r, x)
  BY <1>7, <1>8
<1>10. run[r].pc \in HasStamp /\ KeepsRaw(r) /\ KeptBy(r) = Raw(r)
  BY <1>7, <1>8 DEF Writer, HasStamp, KeepsRaw, KeptBy, Gathered
<1>11. Result(r, x).raw = "yes" /\ id = EvidenceId(Result(r, x))
  BY <1>3, <1>9, ResultIsRecord
<1>12. x \in KeptBy(r)
  BY <1>10, <1>11 DEF Raw
<1>13. id \in DOMAIN rawFiles
  BY <1>10, <1>11, <1>12 DEF ProbeInv, RawOK
<1>14. HoldsAnswer(id, rawFiles[id][1], rawFiles[id][2])
  BY <1>13 DEF ProbeInv, RawOK
<1>15. ASSUME rawFiles[id][1] = r PROVE rawFiles[id][2] = x
  <2>1. rawFiles[id][2] \in KeptBy(r) /\ EvidenceId(Result(r, rawFiles[id][2])) = id
    BY <1>10, <1>14, <1>15 DEF HoldsAnswer, KeepsRaw
  <2> QED BY <1>10, <1>11, <1>12, <2>1 DEF ProbeInv, RawOK
<1>16. run[rawFiles[id][1]].keepRaw = "yes"
  BY <1>14 DEF HoldsAnswer
<1> QED BY <1>9, <1>13, <1>15, <1>16

\* A line that names a raw answer has it on disk, its own unless another run that
\* keeps answers took the name (cap_direct_test_probe.py:357-372, 410-436).
THEOREM RawAnswersBackRecords == ProbeSpec => []RawBacksTheRecords
<1> QED BY ProbeInvariance, RawFollows, PTL
=============================================================================
