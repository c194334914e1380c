----------------------------- MODULE ProbeBatch -----------------------------
(***************************************************************************)
(* The probe scripts and the article skeleton rendered from their files:   *)
(* scripts/cap_direct_test_probe.py (a thread per supplier),               *)
(* scripts/agent_*_probe.py (one call after the other) and                 *)
(* scripts/render_guide_article.py, which takes the newest batch of every  *)
(* file.  A probe writes nothing before all its calls are made; then the   *)
(* direct probe writes the raw answers, each to a file of its own, and     *)
(* every probe appends one line per cell to a file it shares with the      *)
(* probes of other fixtures.                                               *)
(***************************************************************************)
EXTENDS AgentScoring, Sequences

CONSTANTS
    Runs,           \* probe processes, each started at most once
    Fixtures,       \* [program, probes]; a probe is [provider, path, cases]
    Rounds,
    CallAnswers,    \* [status, data] an executed tool may answer with
    Messages,       \* what a model may answer
    MaxCuts,        \* bound: processes that die
    Earlier         \* Earlier[p]: the lines a former batch of p left

Programs == {"direct", "fill", "recovery"}

ASSUME ProbeAssumption ==
    /\ Rounds \in Nat \ {0} /\ MaxCuts \in Nat
    /\ \A f \in Fixtures : f.program \in Programs
    /\ Earlier = [p \in Programs |-> Earlier[p]]
    /\ \A p \in Programs :
          /\ Earlier[p] \in Seq({Earlier[p][k] : k \in DOMAIN Earlier[p]})
          /\ \A k \in DOMAIN Earlier[p] : Earlier[p][k].at = 1

VARIABLES
    run,            \* Runs -> the state of a process
    files,          \* Programs -> the lines of the program's evidence file
    rawFiles,       \* evidence id -> the run and the place whose answer the file holds
    stamp,          \* recorded_at of the last batch begun
    cuts            \* processes that died

probeVars == <<run, files, rawFiles, stamp, cuts>>

NotStarted ==
    [pc |-> "idle", fixture |-> CHOOSE f \in Fixtures : TRUE, keepRaw |-> "no",
     results |-> <<>>, search |-> <<>>, broken |-> {}, done |-> {}, at |-> 0]

ProbeInit ==
    /\ run = [r \in Runs |-> NotStarted]
    /\ files = Earlier
    /\ rawFiles = <<>>
    /\ stamp = 1
    /\ cuts = 0

-----------------------------------------------------------------------------
(* Grading                                                                 *)

\* _negative_ok: an answer that says no, and no rows.
NegativeOk(answer) ==
    /\ answer.status \in {200, 204, 404} \/ answer.status >= 1000
    /\ answer.data = "rejection"

\* evaluate_cell.  Status 0 stands for an answer without a status.
CellState(case, answer) ==
    CASE answer.status = 0 -> "n_a"
      [] case.control = "yes" /\ NegativeOk(answer) -> "passed"
      [] answer.status \notin {200, 204} -> "n_a"
      [] case.control = "yes" -> "failed"
      [] OTHER -> IF answer.data = "rows" THEN "passed" ELSE "failed"

MessagePasses(program, question, message) ==
    IF program = "fill" THEN FillPasses(question, message)
                        ELSE RecoveryPasses(question, message)

\* The cells of a probe, in the order they are called.
Cells(probe) ==
    [k \in 1 .. Len(probe.cases) * Rounds |->
        [case |-> probe.cases[((k - 1) \div Rounds) + 1],
         round |-> ((k - 1) % Rounds) + 1]]

Threads(r) == 1 .. Len(run[r].fixture.probes)

NextCell(r, i) == Cells(run[r].fixture.probes[i])[Len(run[r].results[i]) + 1]

Called(r, i) == Len(run[r].results[i]) = Len(Cells(run[r].fixture.probes[i]))

\* The results, by thread and number of the call.
Places(r) == UNION {{i} \X DOMAIN run[r].results[i] : i \in DOMAIN run[r].results}

Result(r, x) == run[r].results[x[1]][x[2]]

Results(r) == [x \in Places(r) |-> Result(r, x)]

\* The place whose turn it is: the results of one supplier after those of another.
IsNext(x, places) ==
    \A y \in places \ {x} : x[1] < y[1] \/ (x[1] = y[1] /\ x[2] < y[2])

Record(r, i, state, raw) ==
    [at |-> 0, provider |-> run[r].fixture.probes[i].provider,
     case |-> NextCell(r, i).case.id, round |-> NextCell(r, i).round,
     state |-> state, raw |-> raw]

Put(r, i, record) == run' = [run EXCEPT ![r].results[i] = Append(@, record)]

\* What a process that wrote nothing leaves of its answers.
Lost(r) == [run EXCEPT ![r] = [NotStarted EXCEPT !.pc = "lost", !.keepRaw = run[r].keepRaw]]

-----------------------------------------------------------------------------
(* The calls                                                               *)

\* Bound: one process at a time makes its calls, which are seen by no other;
\* what processes share, they touch after their calls.
Start(r, fixture, keepRaw) ==
    /\ run[r].pc = "idle"
    /\ \A s \in Runs : run[s].pc # "calling"
    /\ keepRaw = "yes" => fixture.program = "direct"
    /\ LET none(x) == [i \in 1 .. Len(fixture.probes) |-> x] IN
       run' = [run EXCEPT ![r] =
                  [NotStarted EXCEPT !.pc = "calling", !.fixture = fixture,
                                     !.keepRaw = keepRaw, !.results = none(<<>>),
                                     !.search = none("none")]]
    /\ UNCHANGED <<files, rawFiles, stamp, cuts>>

DirectTurn(r, i) ==
    /\ run[r].pc = "calling" /\ run[r].fixture.program = "direct"
    /\ i \notin run[r].broken /\ ~Called(r, i)

\* The search of a supplier's tool is made once; its failure is remembered and
\* answers every later cell of the tool.
SearchFails(r, i) ==
    /\ DirectTurn(r, i) /\ run[r].search[i] # "found"
    /\ run' = [run EXCEPT ![r].search[i] = "failed",
                          ![r].results[i] = Append(@, Record(r, i, "n_a", "no"))]
    /\ UNCHANGED <<files, rawFiles, stamp, cuts>>

CallFails(r, i) ==
    /\ DirectTurn(r, i) /\ run[r].search[i] # "failed"
    /\ run' = [run EXCEPT ![r].search[i] = "found",
                          ![r].results[i] = Append(@, Record(r, i, "n_a", "no"))]
    /\ UNCHANGED <<files, rawFiles, stamp, cuts>>

ToolSays(r, i, answer) ==
    /\ DirectTurn(r, i) /\ run[r].search[i] # "failed"
    /\ LET state == CellState(NextCell(r, i).case, answer) IN
       run' = [run EXCEPT ![r].search[i] = "found",
                          ![r].results[i] = Append(@, Record(r, i, state, "yes"))]
    /\ UNCHANGED <<files, rawFiles, stamp, cuts>>

\* Only an HTTP status and a timeout are caught: a refused connection or a body
\* that is not JSON ends the thread.
CallEscapes(r, i) ==
    /\ DirectTurn(r, i) /\ run[r].search[i] # "failed"
    /\ run' = [run EXCEPT ![r].broken = @ \cup {i}]
    /\ UNCHANGED <<files, rawFiles, stamp, cuts>>

ModelTurn(r, i) ==
    /\ run[r].pc = "calling" /\ run[r].fixture.program # "direct"
    /\ ~Called(r, i) /\ \A j \in 1 .. i - 1 : Called(r, j)

ModelSays(r, i, message) ==
    /\ ModelTurn(r, i)
    /\ LET question == NextCell(r, i).case IN
       Put(r, i, Record(r, i,
                        IF MessagePasses(run[r].fixture.program, question, message)
                        THEN "passed" ELSE "failed", "no"))
    /\ UNCHANGED <<files, rawFiles, stamp, cuts>>

\* Any failure of the model's gateway ends the script: earlier answers are lost.
GatewayFails(r, i) ==
    /\ ModelTurn(r, i)
    /\ run' = Lost(r)
    /\ UNCHANGED <<files, rawFiles, stamp, cuts>>

\* Mutant of Gather: the answers are stamped before the raw ones are kept.
GatherUnkept(r) ==
    /\ run[r].pc = "calling"
    /\ \A i \in Threads(r) : Called(r, i) \/ i \in run[r].broken
    /\ run' = IF run[r].broken # {} THEN Lost(r)
              ELSE [run EXCEPT ![r].search = <<>>, ![r].pc = "stamping"]
    /\ UNCHANGED <<files, rawFiles, stamp, cuts>>

\* The pool hands the results over when every thread has ended, in the order of
\* the suppliers; one broken thread loses the results of all.
Gather(r) ==
    /\ run[r].pc = "calling"
    /\ \A i \in Threads(r) : Called(r, i) \/ i \in run[r].broken
    /\ run' = IF run[r].broken # {} THEN Lost(r)
              ELSE [run EXCEPT ![r].search = <<>>,
                               ![r].pc = IF run[r].keepRaw = "yes" THEN "keeping"
                                         ELSE "stamping"]
    /\ UNCHANGED <<files, rawFiles, stamp, cuts>>

-----------------------------------------------------------------------------
(* The files                                                               *)

EvidenceId(record) == <<record.provider, record.case, record.round>>

Raw(r) == {x \in Places(r) : Result(r, x).raw = "yes"}

\* write_private_raw_evidence, a file at a time.  The name leaves the access
\* path out: two probes of one provider and case stop the script half-way.
KeepRaw(r) ==
    /\ run[r].pc = "keeping"
    /\ \/ /\ Raw(r) \subseteq run[r].done
          /\ run' = [run EXCEPT ![r].pc = "stamping", ![r].done = {}]
          /\ UNCHANGED rawFiles
       \/ \E x \in Raw(r) \ run[r].done :
          LET id == EvidenceId(Result(r, x)) IN
          /\ IsNext(x, Raw(r) \ run[r].done)
          /\ IF id \in {EvidenceId(Result(r, y)) : y \in run[r].done}
             THEN run' = Lost(r) /\ UNCHANGED rawFiles
             ELSE /\ run' = [run EXCEPT ![r].done = @ \cup {x}]
                  /\ rawFiles' = [other \in {id} \cup DOMAIN rawFiles |->
                                     IF other = id THEN <<r, x>> ELSE rawFiles[other]]
    /\ UNCHANGED <<files, stamp, cuts>>

Stamp(r) ==
    /\ run[r].pc = "stamping"
    /\ stamp' = stamp + 1
    /\ run' = [run EXCEPT ![r].pc = "writing", ![r].at = stamp + 1]
    /\ UNCHANGED <<files, rawFiles, cuts>>

Torn == [at |-> -1, provider |-> "", case |-> "", round |-> 0,
         state |-> "torn", raw |-> "no"]

\* A line written after a torn one becomes a part of it.
Appended(lines, line) ==
    IF lines # <<>> /\ lines[Len(lines)] = Torn THEN lines ELSE Append(lines, line)

Line(r, x) == [Result(r, x) EXCEPT !.at = run[r].at]

WriteLine(r) ==
    /\ run[r].pc = "writing"
    /\ \/ /\ Places(r) \subseteq run[r].done
          /\ run' = [run EXCEPT ![r].pc = "done"]
          /\ UNCHANGED files
       \/ \E x \in Places(r) \ run[r].done :
          /\ IsNext(x, Places(r) \ run[r].done)
          /\ run' = [run EXCEPT ![r].done = @ \cup {x}]
          /\ files' = [files EXCEPT ![run[r].fixture.program] = Appended(@, Line(r, x))]
    /\ UNCHANGED <<rawFiles, stamp, cuts>>

\* The process is killed; the line it was writing may be left in pieces.
Die(r) ==
    /\ cuts < MaxCuts /\ run[r].pc \notin {"idle", "lost", "done", "dead"}
    /\ cuts' = cuts + 1
    /\ run' = IF run[r].pc = "writing" THEN [run EXCEPT ![r].pc = "dead"] ELSE Lost(r)
    /\ \/ UNCHANGED files
       \/ /\ run[r].pc = "writing" /\ ~(Places(r) \subseteq run[r].done)
          /\ files' = [files EXCEPT ![run[r].fixture.program] = Appended(@, Torn)]
    /\ UNCHANGED <<rawFiles, stamp>>

-----------------------------------------------------------------------------
(* The renderer reads the files and changes none of them: the figures of a *)
(* page are a function of the lines at the time it reads them.             *)

\* Mutant of LatestBatch: the lines of every batch.
AllBatches(lines) == lines

BatchOf(lines, at) == [k \in {k \in DOMAIN lines : lines[k].at = at} |-> lines[k]]

LatestBatch(lines) ==
    BatchOf(lines, CHOOSE at \in {lines[k].at : k \in DOMAIN lines} :
                       \A k \in DOMAIN lines : lines[k].at <= at)

\* The records of one provider, in any function to records, and those that passed.
Of(records, p)     == {k \in DOMAIN records : records[k].provider = p}
Passed(records, p) == {k \in Of(records, p) : records[k].state = "passed"}

Figures(records) ==
    [p \in {records[k].provider : k \in DOMAIN records} |->
        [passed |-> Cardinality(Passed(records, p)), total |-> Cardinality(Of(records, p))]]

\* load_jsonl refuses a missing or empty file and one with a broken line.
Readable(lines) == lines # <<>> /\ \A k \in DOMAIN lines : lines[k] # Torn

ProbeNext ==
    \/ \E r \in Runs, f \in Fixtures, keepRaw \in {"yes", "no"} : Start(r, f, keepRaw)
    \/ \E r \in Runs : \E i \in Threads(r) :
          \/ SearchFails(r, i)
          \/ CallFails(r, i)
          \/ \E a \in CallAnswers : ToolSays(r, i, a)
          \/ CallEscapes(r, i)
          \/ \E m \in Messages : ModelSays(r, i, m)
          \/ GatewayFails(r, i)
    \/ \E r \in Runs :
          \/ Gather(r)
          \/ KeepRaw(r)
          \/ Stamp(r)
          \/ WriteLine(r)
          \/ Die(r)

-----------------------------------------------------------------------------
(* The figures of a page come from one batch of each file: of a run whose  *)
(* lines are all written when the file is read they count every cell of    *)
(* that run once, of another never more than it has.  Probes that run at   *)
(* the same time share the file, and a probe that is killed, cannot reach  *)
(* the gateway or leaves a broken line must not change what is counted     *)
(* (render_guide_article.py:34-52, 101-113, 236-287).                      *)
FiguresAreOfOneRun ==
    \A p \in Programs : Readable(files[p]) =>
        LET batch == LatestBatch(files[p])
            rows == Figures(batch) IN
        \/ rows = Figures(Earlier[p]) /\ \A k \in DOMAIN batch : batch[k].at = 1
        \/ \E r \in Runs :
              LET all == Figures(Results(r)) IN
              /\ run[r].fixture.program = p
              /\ \A k \in DOMAIN batch : batch[k].at = run[r].at
              /\ DOMAIN rows \subseteq DOMAIN all
              /\ \A x \in DOMAIN rows : /\ rows[x].total <= all[x].total
                                       /\ rows[x].passed <= all[x].passed
              /\ run[r].pc = "done" => rows = all

(* A line that names a raw answer is only written when the answer is on    *)
(* disk under the name of its provider, case and round; and what is there  *)
(* is this answer unless another run that keeps its answers took the name  *)
(* (cap_direct_test_probe.py:357-372, 410-436).                            *)
RawBacksTheRecords ==
    \A r \in Runs, k \in DOMAIN files["direct"] :
        LET line == files["direct"][k]
            id   == EvidenceId(line) IN
        line.raw = "yes" /\ line.at = run[r].at /\ run[r].keepRaw = "yes" =>
            /\ id \in DOMAIN rawFiles
            /\ IF rawFiles[id][1] = r THEN Line(r, rawFiles[id][2]) = line
                                      ELSE run[rawFiles[id][1]].keepRaw = "yes"
=============================================================================
