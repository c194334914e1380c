------------------------------- MODULE GatewayJob -------------------------------
(***************************************************************************)
(* A live workflow run of the government-bond or the corporate-actions CAP: *)
(* one job per cell of the frozen matrix executes tests/e2e/test_live_*.py, *)
(* which asks the QVeris gateway for a tool                                *)
(* (execution/qveris.py), executes it, keeps every response under a name   *)
(* that binds its digest (evidence/store.py), lets the CAP judge the       *)
(* answer and uploads what it has kept.  Jobs run on machines of their own *)
(* and share nothing, so they are taken one after the other, in any order. *)
(* A digest is what it is the digest of.                                   *)
(***************************************************************************)
EXTENDS CapEvaluation, FiniteSets

CONSTANTS
    Cells,          \* the applicable cells of the matrix
    Caps,           \* "bond", "action": whose workflow it is
    CaseOf(_, _),   \* the frozen case of a cell, per CAP
    Commits,        \* what a commit holds: [suite, registry]
    Registries,     \* registry -> cell -> [tool, parameters, subject, identity]
    Searches,       \* what a search may answer: [http, id, tools]
    Answers(_, _),  \* what an execute call may answer a cell, per CAP
    NoResult,       \* an execute answer without a result object
    Torn,           \* a file that has been truncated and not yet filled
    NoJob,
    MaxIncidents    \* bound: lost calls, cancelled jobs and whatever else is unusual

ASSUME GatewayOK ==
    /\ Caps \subseteq {"bond", "action"}
    /\ Commits # {} /\ IsFiniteSet(Cells)
    /\ \A c \in Commits : DOMAIN Registries[c.registry] = Cells
    /\ MaxIncidents \in Nat

\* Statuses and dates are numbers and a row has a date and a symbol, whatever else an
\* answer holds.
ASSUME AnswersOK ==
    \A c \in Caps, cell \in Cells :
        /\ CaseOf(c, cell).first \in Int /\ CaseOf(c, cell).last \in Int
        /\ \A doc \in Answers(c, cell) :
              /\ doc.http \in Nat
              /\ doc.result # NoResult =>
                    /\ doc.result.status \in Nat /\ Len(doc.result.rows) \in Nat
                    /\ \A i \in 1..Len(doc.result.rows) :
                          /\ {"date", "symbol"} \subseteq DOMAIN doc.result.rows[i]
                          /\ doc.result.rows[i].date \in Int \cup {Absent}

VARIABLES
    cap,
    incidents,  \* how many there have been
    run,        \* the latest run: [id, event, commit, attempt, passed]
    todo,       \* its cells whose job has not started in this attempt
    job,        \* the job that runs
    artifacts,  \* what GitHub keeps: [run, attempt, name, entries]
    executed    \* history: every execute call the gateway has answered

gatewayVars == <<cap, run, todo, job, artifacts, executed>>

Incident == incidents < MaxIncidents /\ incidents' = incidents + 1
Usual    == UNCHANGED incidents

Evaluate(c, case, identity, p) ==
    IF c = "bond" THEN EvaluateBond(case, identity, p) ELSE EvaluateAction(case, identity, p)

\* ArtifactRecord: a file named after what it is and the digest of its content.
File(of, content)      == [of |-> of, digest |-> content, content |-> content]
TornFile(of, content)  == [of |-> of, digest |-> content, content |-> Torn]
Row(name, entries)     == [run |-> run.id, attempt |-> run.attempt,
                           name |-> name, entries |-> entries]

\* validate_*_request_identities: the parameters name the instrument as the vendor
\* does, and the identity is the case's.
IdentityBound(c, case, b) ==
    /\ b.subject = b.identity.vendor
    /\ b.identity.canonical = case.symbol
    /\ IF c = "bond" THEN b.identity.aliases = case.aliases
       ELSE b.identity.vendor.code = b.identity.canonical.code

Binding(cell) == Registries[run.commit.registry][cell]

\* The status the benchmark makes up for an answer it cannot use.
ProtocolError == [status |-> 520, rejects |-> "no"]

\* Mutant of PayloadOf: the relayed result is used whatever the gateway said.
PayloadOfAny(doc) == IF doc.result # NoResult THEN doc.result ELSE ProtocolError

\* What a job, and later the builder, hands to the CAP: the gateway's own error
\* or the result it relays.
PayloadOf(doc) ==
    IF doc.http >= 400 THEN [status |-> doc.http, rejects |-> doc.refuses]
    ELSE IF doc.result # NoResult THEN doc.result ELSE ProtocolError

\* The corporate-actions job raises on an answer without a result.
Readable(doc) ==
    \/ cap = "bond"
    \/ doc.json = "object" /\ (doc.http >= 400 \/ doc.result # NoResult)

-----------------------------------------------------------------------------
(***************************************************************************)
(* The run                                                                 *)
(***************************************************************************)
NewRun(id, commit, event) ==
    [id |-> id, event |-> event, commit |-> commit, attempt |-> 1, passed |-> {}]

Launch ==
    /\ job = NoJob /\ todo = {}
    /\ \/ \E commit \in Commits, event \in {"workflow_dispatch", "pull_request"} :
             /\ run' = NewRun(run.id + 1, commit, event)
             /\ IF run.id = 0 /\ event = "workflow_dispatch" THEN Usual ELSE Incident
       \/ /\ run.id > 0 /\ run.passed # Cells /\ Incident \* re-run the failed jobs
          /\ run' = [run EXCEPT !.attempt = @ + 1]
    /\ todo' = Cells \ run'.passed
    /\ UNCHANGED <<cap, job, artifacts, executed>>

\* The job checks out the commit and validates its bindings before it asks anybody.
NewJob(cell) ==
    LET bound == IdentityBound(cap, CaseOf(cap, cell), Binding(cell))
    IN  [cell |-> cell, pc |-> IF bound THEN "search" ELSE "upload",
         ok |-> IF bound THEN "yes" ELSE "no", raw |-> {}, public |-> {},
         search |-> Absent, doc |-> Absent, envelope |-> Absent]

\* Mutant of StartJob: a job that has started is still to be started.
StartJobTwice ==
    /\ job = NoJob /\ Usual
    /\ \E cell \in todo : job' = NewJob(cell)
    /\ UNCHANGED <<cap, run, todo, artifacts, executed>>

StartJob ==
    /\ job = NoJob /\ Usual
    /\ \E cell \in todo : todo' = todo \ {cell} /\ job' = NewJob(cell)
    /\ UNCHANGED <<cap, run, artifacts, executed>>

Goto(pc, changes) == job' = [changes EXCEPT !.pc = pc]

\* The test raises: the job has failed, and uploads what it has.
Raise(j) == Goto("upload", [j EXCEPT !.ok = "no"])

Keep(j, of, content) == [j EXCEPT !.raw = @ \cup {File(of, content)}]

\* POST /search: a timeout leaves no file, an error response does, and so does
\* an answer without a search_id.
Search ==
    /\ job # NoJob /\ job.pc = "search"
    /\ \/ Incident /\ Raise(job)
       \/ \E answer \in Searches :
             LET content == [answer EXCEPT !.id = <<@, run.id, run.attempt>>]
                 kept    == Keep(job, "search", content)
             IN  IF answer.http >= 400 \/ answer.id = Absent THEN Incident /\ Raise(kept)
                 ELSE Usual /\ Goto(IF Binding(job.cell).tool \in answer.tools
                           THEN "execute" ELSE "describe",
                           [kept EXCEPT !.search = content.id])
    /\ UNCHANGED <<cap, run, todo, artifacts, executed>>

\* POST /tools/by-ids: the tool is looked up by its name when the search missed it.
Describe ==
    /\ job # NoJob /\ job.pc = "describe"
    /\ \/ Incident /\ Raise(job)
       \/ \E tools \in {{}, {Binding(job.cell).tool}} :
             LET kept == Keep(job, "describe", [tools |-> tools])
             IN  IF tools = {} THEN Incident /\ Raise(kept)
                 ELSE Usual /\ Goto("execute", kept)
    /\ UNCHANGED <<cap, run, todo, artifacts, executed>>

Call(cell, search) ==
    [tool |-> Binding(cell).tool, parameters |-> Binding(cell).parameters, search |-> search]

\* POST /tools/execute: an HTTP error is captured with its body, a timeout raises.
Execute ==
    /\ job # NoJob /\ job.pc = "execute"
    /\ \/ Incident /\ Raise(job) /\ UNCHANGED executed
       \/ \E doc \in Answers(cap, job.cell) :
             LET kept == [Keep(job, "execute", doc) EXCEPT !.doc = doc]
             IN  /\ Usual
                 /\ executed' = executed \cup
                       {[run |-> run.id, cell |-> job.cell, doc |-> doc,
                         call |-> Call(job.cell, job.search)]}
                 /\ Goto("envelope", kept)
    /\ UNCHANGED <<cap, run, todo, artifacts>>

EnvelopeOf(j) == [call |-> Call(j.cell, j.search), http |-> j.doc.http, response |-> j.doc]

PersistEnvelope ==
    /\ job # NoJob /\ job.pc = "envelope" /\ Usual
    /\ LET content == EnvelopeOf(job)
       IN  Goto("judge", [Keep(job, "envelope", content) EXCEPT !.envelope = content])
    /\ UNCHANGED <<cap, run, todo, artifacts, executed>>

\* _public_terminal: the outcome with everything it was derived from.
TerminalOf(j) ==
    LET b == Binding(j.cell)
    IN  [cell |-> j.cell, run |-> run.id, commit |-> run.commit,
         raw |-> j.envelope,
         outcome |-> Evaluate(cap, CaseOf(cap, j.cell), b.identity, PayloadOf(j.doc))]

\* The CAP judges the answer and its terminal becomes public.
Judge ==
    /\ job # NoJob /\ job.pc = "judge" /\ Usual
    /\ IF Readable(job.doc)
       THEN Goto("upload", [job EXCEPT !.public = {File("terminal", TerminalOf(job))}])
       ELSE Raise(job)
    /\ UNCHANGED <<cap, run, todo, artifacts, executed>>

\* The run is cancelled or its machine goes away: the file that was being
\* written is empty, and always() still uploads.
Cancel ==
    /\ job # NoJob /\ job.pc # "upload" /\ Incident
    /\ LET failed == [job EXCEPT !.ok = "no"]
       IN  \/ Goto("upload", failed)
           \/ /\ job.pc = "envelope"
              /\ Goto("upload", [failed EXCEPT !.raw = @ \cup
                                   {TornFile("envelope", EnvelopeOf(job))}])
           \/ /\ job.pc = "judge" /\ Readable(job.doc)
              /\ Goto("upload", [failed EXCEPT !.public =
                                   {TornFile("terminal", TerminalOf(job))}])
    /\ UNCHANGED <<cap, run, todo, artifacts, executed>>

\* actions/upload-artifact, always(): nothing to upload is an error; GitHub
\* refuses a name the run already has, or keeps both.
Upload ==
    /\ job # NoJob /\ job.pc = "upload" /\ Usual
    /\ LET rows  == {Row(<<kind, job.cell>>, IF kind = "public" THEN job.public ELSE job.raw) :
                        kind \in {"public", "private"}}
           full  == {r \in rows : r.entries # {}}
           taken == {r \in full : \E a \in artifacts : a.run = r.run /\ a.name = r.name}
       IN  \E refused \in {{}, taken} :
              /\ artifacts' = artifacts \cup (full \ refused)
              /\ run' = IF job.ok = "yes" /\ full = rows /\ refused = {}
                        THEN [run EXCEPT !.passed = @ \cup {job.cell}] ELSE run
    /\ job' = NoJob
    /\ UNCHANGED <<cap, todo, executed>>

GatewayInit ==
    /\ cap \in Caps
    /\ incidents = 0
    /\ run = [id |-> 0, event |-> "none", commit |-> CHOOSE c \in Commits : TRUE,
              attempt |-> 0, passed |-> {}]
    /\ todo = {} /\ job = NoJob
    /\ artifacts = {} /\ executed = {}

JobStep == Search \/ Describe \/ Execute \/ PersistEnvelope \/ Judge \/ Upload \/ Cancel

GatewayNext == Launch \/ StartJob \/ JobStep

=============================================================================
