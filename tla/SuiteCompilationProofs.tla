------------------------ MODULE SuiteCompilationProofs ------------------------
(***************************************************************************)
(* What the provider registry and the suite compiler promise, for any      *)
(* registry, operators, documents and revisions: equal fingerprints mean   *)
(* equal plans, the decision of an operator whom nobody overlapped stays   *)
(* in its file, and what a finished compile holds is whole: its cohort,    *)
(* the tools of its agent cells and the bindings it has validated.         *)
(***************************************************************************)
EXTENDS SuiteCompilation, TLAPS, FiniteSetTheorems, FunctionTheorems, SequenceTheorems,
        WellFoundedInduction

-----------------------------------------------------------------------------
(***************************************************************************)
(* The fingerprint                                                         *)
(***************************************************************************)
\* The snapshot holds all that a plan is expanded from.
LEMMA SnapshotHolds ==
  ASSUME NEW g, NEW h, Snapshot(g) = Snapshot(h)
  PROVE  /\ g.suite = h.suite
         /\ Records(g) = Records(h)
         /\ \A c \in ItemsOf(g.suite.cases) : CaseOf(g, c) = CaseOf(h, c)
<1>1. g.suite = h.suite
  BY DEF Snapshot
<1>2. Records(g) = Records(h)
  BY DEF Snapshot
<1>3. [i \in 1..Len(g.suite.cases) |-> CaseOf(g, g.suite.cases[i])]
        = [i \in 1..Len(h.suite.cases) |-> CaseOf(h, h.suite.cases[i])]
  BY DEF Snapshot
<1>4. ASSUME NEW c \in ItemsOf(g.suite.cases) PROVE CaseOf(g, c) = CaseOf(h, c)
  <2>1. PICK i \in 1..Len(g.suite.cases) : c = g.suite.cases[i]
    BY DEF ItemsOf
  <2>2. CaseOf(g, g.suite.cases[i]) = CaseOf(h, g.suite.cases[i])
    BY <1>1, <1>3
  <2> QED
    BY <2>1, <2>2
<1> QED
  BY <1>1, <1>2, <1>4

LEMMA SameReason ==
  ASSUME NEW g, NEW h, NEW c, NEW p, NEW m,
         g.suite = h.suite, Records(g) = Records(h), CaseOf(g, c) = CaseOf(h, c)
  PROVE  Reason(g, c, p, m) = Reason(h, c, p, m)
BY DEF Reason

LEMMA SamePlan ==
  ASSUME NEW g, NEW h, Snapshot(g) = Snapshot(h)
  PROVE  Plan(g) = Plan(h)
<1>1. /\ g.suite = h.suite
      /\ Records(g) = Records(h)
      /\ \A c \in ItemsOf(g.suite.cases) : CaseOf(g, c) = CaseOf(h, c)
  BY SnapshotHolds
<1>2. ASSUME NEW c \in ItemsOf(g.suite.cases), NEW p, NEW m
      PROVE  CaseOf(g, c) = CaseOf(h, c) /\ Reason(g, c, p, m) = Reason(h, c, p, m)
  BY <1>1, SameReason
<1> HIDE DEF CaseOf, Reason, Records
<1> QED
  BY <1>1, <1>2 DEF Plan

\* Two results with one fingerprint have one plan
\* (suites/compiler.py, suites/fingerprint.py).
THEOREM FingerprintsIdentifyPlans == Spec => []FingerprintIdentifiesPlan
<1>1. FingerprintIdentifiesPlan
  BY SamePlan DEF FingerprintIdentifiesPlan
<1> QED
  BY <1>1, PTL

-----------------------------------------------------------------------------
(***************************************************************************)
(* The decisions                                                           *)
(***************************************************************************)
\* A content holds the decision of o.
Holds(content, o) ==
    /\ Path(o) \in PathsIn(content)
    /\ content.paths[Path(o)].qualification = Decision(o)

IsContent(content) == content # Torn => WellFormed(content)

IsActive(o) == opc[o] \notin {"ready", "done"}
Stands(o)   == standing[Path(o)] = o

RegistryShape ==
    /\ DOMAIN registry = Files /\ DOMAIN opc = Operators /\ DOMAIN draft = Operators
    /\ DOMAIN standing = {Path(o) : o \in Operators}
    /\ overlapped \subseteq Operators
    /\ \A f \in Files : IsContent(registry[f])
    /\ \A o \in Operators :
          /\ opc[o] \in {"ready", "validated", "loaded", "truncated", "written", "done"}
          /\ opc[o] \in {"loaded", "truncated"} => draft[o] # Torn /\ WellFormed(draft[o])

\* Two operators at work on one file have overlapped.
OverlapsAreSeen ==
    \A o, q \in Operators :
        o # q /\ File(o) = File(q) /\ IsActive(o) /\ IsActive(q) => o \in overlapped

\* What is about to be written holds the operator's decision and every other that
\* stands in the file; a decision it replaces no longer stands.
DraftsCarryOver ==
    \A o \in Operators : opc[o] \in {"loaded", "truncated"} =>
        /\ Holds(draft[o], o)
        /\ \A q \in Operators : Stands(q) /\ File(q) = File(o) /\ Path(q) # Path(o)
              => Holds(draft[o], q)
        /\ opc[o] = "truncated" =>
              \A q \in Operators : File(q) = File(o) /\ Path(q) = Path(o) => ~Stands(q)

WrittenIsThere ==
    \A o \in Operators : opc[o] = "written" =>
        o \in overlapped \/ registry[File(o)] = Torn \/ Holds(registry[File(o)], o)

StandingIsDone == \A o \in Operators : Stands(o) => opc[o] = "done"

RegistryInv ==
    /\ RegistryShape /\ OverlapsAreSeen /\ DraftsCarryOver /\ WrittenIsThere
    /\ StandingIsDone /\ DecisionsStand

LEMMA DecisionsStart == RegistryInit => RegistryInv
<1> SUFFICES ASSUME RegistryInit PROVE RegistryInv
  OBVIOUS
<1> USE RegistryOK, ContentsOK DEF RegistryOK, ContentsOK, RegistryInit, Contents
<1>1. \A o \in Operators : Path(o) \in DOMAIN standing /\ standing[Path(o)] = NoOne
  BY DEF Path
<1>2. \A o \in Operators : ~Stands(o) /\ opc[o] = "ready"
  BY <1>1 DEF Stands
<1>3. RegistryShape
  BY <1>2 DEF RegistryShape, IsContent, Path
<1> QED
  BY <1>2, <1>3 DEF RegistryInv, OverlapsAreSeen, DraftsCarryOver, WrittenIsThere,
     StandingIsDone, DecisionsStand, Stands, IsActive

\* What Load makes of a content.
LEMMA PutDecision ==
  ASSUME NEW content, NEW o \in Operators, IsContent(content), content # Torn,
         Path(o) \in PathsIn(content)
  PROVE  LET next == [content EXCEPT !.paths[Path(o)].qualification = Decision(o)]
         IN  /\ next # Torn /\ WellFormed(next) /\ Holds(next, o)
             /\ \A q \in Operators : Holds(content, q) /\ Path(q) # Path(o) => Holds(next, q)
<1> DEFINE next  == [content EXCEPT !.paths[Path(o)].qualification = Decision(o)]
           entry == content.paths[Path(o)]
<1>1. /\ {"provider", "paths"} \subseteq DOMAIN content
      /\ \A p \in DOMAIN content.paths : "qualification" \in DOMAIN content.paths[p]
  BY DEF IsContent, WellFormed, PathsIn
<1>2. /\ DOMAIN next = DOMAIN content /\ next.provider = content.provider
      /\ DOMAIN next.paths = DOMAIN content.paths
      /\ \A p \in DOMAIN content.paths : p # Path(o) => next.paths[p] = content.paths[p]
      /\ next.paths[Path(o)] = [entry EXCEPT !.qualification = Decision(o)]
  BY <1>1 DEF PathsIn
<1>3. /\ DOMAIN next.paths[Path(o)] = DOMAIN entry
      /\ next.paths[Path(o)].qualification = Decision(o)
      /\ next.paths[Path(o)].eligible = entry.eligible
  BY <1>1, <1>2 DEF PathsIn
<1>4. Decision(o).disposition \in Dispositions
  BY RegistryOK DEF RegistryOK, Decision
<1> HIDE DEF next
<1>5. next # Torn /\ WellFormed(next)
  <2>1. next.provider \in Providers /\ PathsIn(next) # {}
    BY <1>2 DEF IsContent, WellFormed, PathsIn
  <2>2. ASSUME NEW p \in PathsIn(next)
        PROVE  /\ "qualification" \in DOMAIN next.paths[p]
               /\ next.paths[p].eligible \in {"yes", "no"}
               /\ next.paths[p].qualification # Undecided
                     => next.paths[p].qualification.disposition \in Dispositions
    BY <1>1, <1>2, <1>3, <1>4 DEF IsContent, WellFormed, PathsIn
  <2> QED
    BY <1>1, <1>2, <2>1, <2>2, RegistryOK DEF WellFormed, RegistryOK
<1>6. Holds(next, o)
  BY <1>2, <1>3 DEF Holds, PathsIn
<1>7. ASSUME NEW q \in Operators, Holds(content, q), Path(q) # Path(o) PROVE Holds(next, q)
  BY <1>2, <1>7 DEF Holds, PathsIn
<1> QED
  BY <1>5, <1>6, <1>7 DEF next

RegistryVarsSame == UNCHANGED <<registry, opc, draft, standing, overlapped>>

LEMMA SameKeeps ==
  ASSUME RegistryInv, RegistryVarsSame PROVE RegistryInv'
BY DEF RegistryVarsSame, RegistryInv, RegistryShape, OverlapsAreSeen, DraftsCarryOver,
   WrittenIsThere, StandingIsDone, DecisionsStand, IsActive, Stands, Holds, IsContent,
   PathsIn, Path, File, Decision

\* The steps that leave the files alone: what an operator o becomes.
Becomes(o, state) ==
    /\ \A q \in Operators : opc'[q] = IF q = o THEN state ELSE opc[q]
    /\ DOMAIN opc' = Operators

LEMMA StartKeeps ==
  ASSUME RegistryInv, NEW o \in Operators, Start(o) PROVE RegistryInv'
<1> USE DEF RegistryInv
<1>1. /\ opc[o] = "ready" /\ Becomes(o, "validated")
      /\ UNCHANGED <<registry, draft, standing>>
  BY DEF Start, RegistryShape, Becomes
<1>2. /\ overlapped \subseteq overlapped' /\ overlapped' \subseteq Operators
      /\ \A q \in Operators : q # o /\ File(q) = File(o) /\ IsActive(q)
            => o \in overlapped' /\ q \in overlapped'
  BY DEF Start, RegistryShape, Active, IsActive
<1>3. RegistryShape'
  BY <1>1, <1>2 DEF RegistryShape, Becomes, IsContent
<1>4. OverlapsAreSeen'
  BY <1>1, <1>2 DEF OverlapsAreSeen, Becomes, IsActive
<1>5. DraftsCarryOver'
  BY <1>1 DEF DraftsCarryOver, Becomes, Stands, Holds
<1>6. WrittenIsThere'
  BY <1>1, <1>2 DEF WrittenIsThere, Becomes, Holds
<1>7. StandingIsDone' /\ DecisionsStand'
  BY <1>1 DEF StandingIsDone, DecisionsStand, Becomes, Stands
<1> QED
  BY <1>3, <1>4, <1>5, <1>6, <1>7

LEMMA LoadKeeps ==
  ASSUME RegistryInv, NEW o \in Operators, Load(o) PROVE RegistryInv'
<1> USE DEF RegistryInv
<1> DEFINE read == registry[File(o)]
           next == [read EXCEPT !.paths[Path(o)].qualification = Decision(o)]
<1>1. /\ opc[o] = "validated" /\ Becomes(o, "loaded")
      /\ UNCHANGED <<registry, standing, overlapped>>
      /\ DOMAIN draft' = Operators /\ draft'[o] = next
      /\ \A q \in Operators : q # o => draft'[q] = draft[q]
  BY DEF Load, RegistryShape, Becomes
<1>2. File(o) \in Files /\ IsContent(read) /\ read # Torn /\ Path(o) \in PathsIn(read)
  BY RegistryOK DEF RegistryOK, Load, Loads, RegistryShape, File
<1>3. /\ next # Torn /\ WellFormed(next) /\ Holds(next, o)
      /\ \A q \in Operators : Holds(read, q) /\ Path(q) # Path(o) => Holds(next, q)
  BY <1>2, PutDecision
<1>4. \A q \in Operators : Stands(q) /\ File(q) = File(o) => Holds(read, q)
  BY <1>2 DEF DecisionsStand, Stands, Holds
<1> HIDE DEF next, read
<1>5. RegistryShape'
  BY <1>1, <1>3 DEF RegistryShape, Becomes, IsContent
<1>6. OverlapsAreSeen'
  BY <1>1 DEF OverlapsAreSeen, Becomes, IsActive
<1>7. DraftsCarryOver'
  <2> SUFFICES ASSUME NEW q \in Operators, opc'[q] \in {"loaded", "truncated"}
               PROVE  /\ Holds(draft'[q], q)
                      /\ \A r \in Operators : Stands(r) /\ File(r) = File(q) /\ Path(r) # Path(q)
                            => Holds(draft'[q], r)
                      /\ opc'[q] = "truncated" =>
                           \A r \in Operators : File(r) = File(q) /\ Path(r) = Path(q) => ~Stands(r)
    BY <1>1 DEF DraftsCarryOver, Stands, Holds
  <2>1. CASE q = o
    BY <2>1, <1>1, <1>3, <1>4 DEF Becomes
  <2>2. CASE q # o
    BY <2>2, <1>1 DEF Becomes, DraftsCarryOver
  <2> QED
    BY <2>1, <2>2
<1>8. WrittenIsThere'
  BY <1>1 DEF WrittenIsThere, Becomes, Holds
<1>9. StandingIsDone' /\ DecisionsStand'
  BY <1>1 DEF StandingIsDone, DecisionsStand, Becomes, Stands
<1> QED
  BY <1>5, <1>6, <1>7, <1>8, <1>9

\* An operator that ends without a report.
LEMMA EndKeeps ==
  ASSUME RegistryInv, NEW o \in Operators, IsActive(o) \/ opc[o] = "ready",
         Becomes(o, "done"), UNCHANGED <<registry, standing, overlapped>>,
         draft' = [draft EXCEPT ![o] = Torn]
  PROVE  RegistryInv'
<1> USE DEF RegistryInv
<1>1. DOMAIN draft' = Operators /\ \A q \in Operators : q # o => draft'[q] = draft[q]
  BY DEF RegistryShape
<1>2. RegistryShape'
  BY <1>1 DEF RegistryShape, Becomes, IsContent
<1>3. OverlapsAreSeen'
  BY DEF OverlapsAreSeen, Becomes, IsActive
<1>4. DraftsCarryOver'
  BY <1>1 DEF DraftsCarryOver, Becomes, Stands, Holds
<1>5. WrittenIsThere'
  BY DEF WrittenIsThere, Becomes, Holds
<1>6. StandingIsDone' /\ DecisionsStand'
  BY DEF StandingIsDone, DecisionsStand, Becomes, Stands
<1> QED
  BY <1>2, <1>3, <1>4, <1>5, <1>6

LEMMA TruncateKeeps ==
  ASSUME RegistryInv, NEW o \in Operators, Truncate(o) PROVE RegistryInv'
<1> USE DEF RegistryInv
<1>1. /\ opc[o] = "loaded" /\ Becomes(o, "truncated")
      /\ UNCHANGED <<draft, overlapped>>
      /\ DOMAIN registry' = Files /\ registry'[File(o)] = Torn
      /\ \A f \in Files : f # File(o) => registry'[f] = registry[f]
  BY RegistryOK DEF RegistryOK, Truncate, RegistryShape, Becomes, File
<1>2. /\ DOMAIN standing' = DOMAIN standing
      /\ \A q \in Operators : IF Path(q) = Path(o) THEN ~Stands(q)'
                               ELSE Stands(q)' = Stands(q)
  BY RegistryOK DEF RegistryOK, Truncate, RegistryShape, Stands, Path
<1>3. \A q \in Operators : File(q) \in Files
  BY RegistryOK DEF RegistryOK, File
<1>4. RegistryShape'
  BY <1>1, <1>2 DEF RegistryShape, Becomes, IsContent, Path
<1>5. OverlapsAreSeen'
  BY <1>1 DEF OverlapsAreSeen, Becomes, IsActive
<1>6. DraftsCarryOver'
  BY <1>1, <1>2 DEF DraftsCarryOver, Becomes, Holds
<1>7. WrittenIsThere'
  BY <1>1, <1>3 DEF WrittenIsThere, Becomes, Holds
<1>8. StandingIsDone'
  BY <1>1, <1>2 DEF StandingIsDone, Becomes
<1>9. DecisionsStand'
  BY <1>1, <1>2, <1>3 DEF DecisionsStand, Stands
<1> QED
  BY <1>4, <1>5, <1>6, <1>7, <1>8, <1>9

LEMMA FillKeeps ==
  ASSUME RegistryInv, NEW o \in Operators, Fill(o) PROVE RegistryInv'
<1> USE DEF RegistryInv
<1>1. /\ opc[o] = "truncated" /\ Becomes(o, "written")
      /\ UNCHANGED <<draft, overlapped, standing>>
      /\ DOMAIN registry' = Files /\ registry'[File(o)] = draft[o]
      /\ \A f \in Files : f # File(o) => registry'[f] = registry[f]
  BY RegistryOK DEF RegistryOK, Fill, RegistryShape, Becomes, File
<1>2. \A q \in Operators : File(q) \in Files
  BY RegistryOK DEF RegistryOK, File
<1>3. /\ Holds(draft[o], o)
      /\ \A q \in Operators : Stands(q) /\ File(q) = File(o) => Holds(draft[o], q)
  BY <1>1 DEF DraftsCarryOver
<1>4. RegistryShape'
  BY <1>1 DEF RegistryShape, Becomes, IsContent
<1>5. OverlapsAreSeen'
  BY <1>1 DEF OverlapsAreSeen, Becomes, IsActive
<1>6. DraftsCarryOver'
  BY <1>1 DEF DraftsCarryOver, Becomes, Holds, Stands
<1>7. WrittenIsThere'
  <2> SUFFICES ASSUME NEW q \in Operators, opc'[q] = "written", q \notin overlapped
               PROVE  registry'[File(q)] = Torn \/ Holds(registry'[File(q)], q)
    BY <1>1 DEF WrittenIsThere, Holds
  <2>1. CASE q = o
    BY <2>1, <1>1, <1>3
  <2>2. CASE q # o
    <3>1. opc[q] = "written" /\ File(q) # File(o)
      BY <2>2, <1>1 DEF Becomes, OverlapsAreSeen, IsActive
    <3> QED
      BY <3>1, <1>1, <1>2 DEF WrittenIsThere
  <2> QED
    BY <2>1, <2>2
<1>8. StandingIsDone'
  BY <1>1 DEF StandingIsDone, Becomes, Stands
<1>9. DecisionsStand'
  <2> SUFFICES ASSUME NEW q \in Operators, Stands(q)
               PROVE  registry'[File(q)] = Torn \/ Holds(registry'[File(q)], q)
    BY <1>1 DEF DecisionsStand, Stands, Holds
  <2>1. CASE File(q) = File(o)
    BY <2>1, <1>1, <1>3
  <2>2. CASE File(q) # File(o)
    BY <2>2, <1>1, <1>2 DEF DecisionsStand, Stands, Holds
  <2> QED
    BY <2>1, <2>2
<1> QED
  BY <1>4, <1>5, <1>6, <1>7, <1>8, <1>9

LEMMA ReportKeeps ==
  ASSUME RegistryInv, NEW o \in Operators, Report(o) PROVE RegistryInv'
<1> USE DEF RegistryInv
<1>1. /\ opc[o] = "written" /\ Becomes(o, "done")
      /\ UNCHANGED <<registry, overlapped>>
      /\ DOMAIN draft' = Operators
      /\ \A q \in Operators : q # o => draft'[q] = draft[q]
  BY DEF Report, RegistryShape, Becomes
<1>2. /\ DOMAIN standing' = DOMAIN standing
      /\ \A q \in Operators : Stands(q)' => Stands(q) \/ (q = o /\ o \notin overlapped)
  BY RegistryOK DEF RegistryOK, Report, RegistryShape, Stands, Path
<1>3. registry[File(o)] # Torn
  BY DEF Report, Loads
<1>4. RegistryShape'
  BY <1>1, <1>2 DEF RegistryShape, Becomes, IsContent, Path
<1>5. OverlapsAreSeen'
  BY <1>1 DEF OverlapsAreSeen, Becomes, IsActive
<1>6. DraftsCarryOver'
  <2>1. ASSUME NEW q \in Operators, opc'[q] \in {"loaded", "truncated"}
        PROVE  /\ q # o /\ opc[q] = opc'[q] /\ draft'[q] = draft[q]
               /\ \A r \in Operators : Stands(r)' /\ File(r) = File(q) => Stands(r)
    BY <2>1, <1>1, <1>2 DEF Becomes, OverlapsAreSeen, IsActive
  <2> QED
    BY <2>1 DEF DraftsCarryOver, Holds
<1>7. WrittenIsThere'
  BY <1>1 DEF WrittenIsThere, Becomes, Holds
<1>8. StandingIsDone'
  BY <1>1, <1>2 DEF StandingIsDone, Becomes
<1>9. DecisionsStand'
  <2> SUFFICES ASSUME NEW q \in Operators, Stands(q)'
               PROVE  registry[File(q)] = Torn \/ Holds(registry[File(q)], q)
    BY <1>1 DEF DecisionsStand, Stands, Holds
  <2> QED
    BY <1>1, <1>2, <1>3 DEF DecisionsStand, WrittenIsThere, Stands, Holds
<1> QED
  BY <1>4, <1>5, <1>6, <1>7, <1>8, <1>9

LEMMA EditKeeps ==
  ASSUME RegistryInv, EditFile PROVE RegistryInv'
<1> USE DEF RegistryInv
<1>1. PICK e \in FileEdits :
          /\ registry' = [registry EXCEPT ![e[1]] = e[2]]
          /\ standing' = [p \in DOMAIN standing |->
                IF \E o \in Operators : File(o) = e[1] /\ Path(o) = p
                THEN NoOne ELSE standing[p]]
          /\ overlapped' = overlapped \cup Active(e[1])
  BY DEF EditFile
<1>2. UNCHANGED <<opc, draft>> /\ IsContent(e[2])
  BY ContentsOK DEF EditFile, ContentsOK, Contents, IsContent
<1>3. /\ DOMAIN registry' = Files
      /\ \A f \in Files : registry'[f] = IF f = e[1] THEN e[2] ELSE registry[f]
  BY <1>1 DEF RegistryShape
<1>4. /\ DOMAIN standing' = DOMAIN standing
      /\ \A q \in Operators : Stands(q)' => Stands(q) /\ File(q) # e[1]
  BY <1>1, RegistryOK DEF RegistryOK, RegistryShape, Stands, Path, File
<1>5. /\ overlapped \subseteq overlapped' /\ overlapped' \subseteq Operators
      /\ \A q \in Operators : IsActive(q) /\ File(q) = e[1] => q \in overlapped'
  BY <1>1 DEF RegistryShape, Active, IsActive
<1>6. \A q \in Operators : File(q) \in Files
  BY RegistryOK DEF RegistryOK, File
<1>7. RegistryShape'
  BY <1>2, <1>3, <1>4, <1>5 DEF RegistryShape, IsContent, Path
<1>8. OverlapsAreSeen'
  BY <1>2, <1>5 DEF OverlapsAreSeen, IsActive
<1>9. DraftsCarryOver'
  BY <1>2, <1>4 DEF DraftsCarryOver, Holds
<1>10. WrittenIsThere'
  BY <1>2, <1>3, <1>5, <1>6 DEF WrittenIsThere, IsActive, Holds
<1>11. StandingIsDone' /\ DecisionsStand'
  BY <1>2, <1>3, <1>4, <1>6 DEF StandingIsDone, DecisionsStand, Stands
<1> QED
  BY <1>7, <1>8, <1>9, <1>10, <1>11

LEMMA DecisionsKeep == RegistryInv /\ [Next]_vars => RegistryInv'
<1> SUFFICES ASSUME RegistryInv, [Next]_vars PROVE RegistryInv'
  OBVIOUS
<1>1. ASSUME NEW o \in Operators, Refuse(o) \/ Die(o) PROVE RegistryInv'
  <2>1. /\ IsActive(o) \/ opc[o] = "ready"
        /\ Becomes(o, "done") /\ UNCHANGED <<registry, standing, overlapped>>
        /\ draft' = [draft EXCEPT ![o] = Torn]
    BY <1>1 DEF Refuse, Die, Becomes, IsActive, RegistryInv, RegistryShape
  <2> QED
    BY <2>1, EndKeeps
<1>2. CASE RegistryNext
  BY <1>1, <1>2, StartKeeps, LoadKeeps, TruncateKeeps, FillKeeps, ReportKeeps, EditKeeps
  DEF RegistryNext
<1>3. CASE UNCHANGED registryVars \/ Revise \/ UNCHANGED vars
  BY <1>3, SameKeeps DEF RegistryVarsSame, registryVars, Revise, vars
<1> QED
  BY <1>2, <1>3 DEF Next

\* The decision of an operator whom nobody overlapped stays in its file, whatever
\* others qualify, edit or compile (providers/repository.py:164-183).
THEOREM ReportedDecisionsStand == Spec => []DecisionsStand
<1>1. Init => RegistryInv
  BY DecisionsStart DEF Init
<1>2. RegistryInv /\ [Next]_vars => RegistryInv'
  BY DecisionsKeep
<1>3. RegistryInv => DecisionsStand
  BY DEF RegistryInv
<1> QED
  BY <1>1, <1>2, <1>3, PTL DEF Spec
-----------------------------------------------------------------------------
(***************************************************************************)
(* What a program holds of what it has read                                *)
(***************************************************************************)
Compilers == {"freeze", "plan", "bind"}

\* The reasons and the bindings of whatever version of a document has been read.
Documented(g) ==
    /\ "suite" \in DOMAIN g => g.suite \in Versions("suite")
    /\ "directs" \in DOMAIN g => g.directs \in Versions("directs")

\* Each check of a document that was read has passed, and still holds.
Sound(g) ==
    /\ \A f \in DOMAIN g \cap Files : g[f] # Torn /\ WellFormed(g[f])
    /\ NoDuplicates(Records(g))
    /\ "suite" \in DOMAIN g => SuiteValid(g.suite)
    /\ Documented(g)

DocsAreVersions == DOMAIN docs = DocumentNames /\ Documented(docs)

ReadInOrder ==
    /\ purpose \in Purposes \cup {"none"}
    /\ purpose = "none" => got = Nothing
    /\ purpose # "none" =>
          /\ IsFiniteSet(DOMAIN got)
          /\ Cardinality(DOMAIN got) <= Len(ReadOrder(purpose))
          /\ DOMAIN got = {ReadOrder(purpose)[i] : i \in 1..Cardinality(DOMAIN got)}
    /\ Sound(got)

\* What follows from a result: it is what one program has read, and accepted.
Result(u, g) ==
    /\ DOMAIN g = ItemsOf(ReadOrder(u))
    /\ Sound(g)
    /\ Frozen(Records(g))
    /\ u \in Compilers => Compiles(g)
    /\ u = "bind" => DirectsMatch(g)

ResultsAreAccepted ==
    /\ DOMAIN results = Purposes
    /\ \A u \in Purposes : Written(u) => Result(u, results[u])

BoundsHold == changes \in 0..MaxChanges /\ compiles \in 0..MaxCompiles

SuiteInv ==
    RegistryInv /\ DocsAreVersions /\ ReadInOrder /\ ResultsAreAccepted /\ BoundsHold

\* The orders in which a program reads name every file once.
LEMMA OrdersNameOnce ==
  ASSUME NEW u \in Purposes
  PROVE  /\ ReadOrder(u) \in Seq(DocumentNames \cup Files)
         /\ \A i, j \in 1..Len(ReadOrder(u)) : ReadOrder(u)[i] = ReadOrder(u)[j] => i = j
         /\ Files \subseteq ItemsOf(ReadOrder(u))
         /\ "suite" \in ItemsOf(ReadOrder(u))
         /\ u = "bind" => "directs" \in ItemsOf(ReadOrder(u))
<1> DEFINE S == DocumentNames \cup Files
<1>1. /\ {"suite", "cap", "contracts", "cases", "bindings", "rules", "directs", "qveris"}
             = DocumentNames
      /\ DocumentNames \cap Files = {}
  BY DocumentsOK DEF DocumentsOK, DocumentNames, DocumentOrder
<1>2. ASSUME NEW head \in Seq(DocumentNames), ReadOrder(u) = head \o FileOrder,
             \A i, j \in 1..Len(head) : head[i] = head[j] => i = j
      PROVE  /\ ReadOrder(u) \in Seq(S)
             /\ \A i, j \in 1..Len(ReadOrder(u)) : ReadOrder(u)[i] = ReadOrder(u)[j] => i = j
             /\ Files \subseteq ItemsOf(ReadOrder(u))
             /\ ItemsOf(head) \subseteq ItemsOf(ReadOrder(u))
  <2>1. /\ head \in Seq(S) /\ FileOrder \in Seq(S) /\ FileOrder \in Seq(Files)
        /\ \A i \in 1..Len(head) : head[i] \in DocumentNames
        /\ \A i \in 1..Len(FileOrder) : FileOrder[i] \in Files
    BY RegistryOK, SeqMonotonic, ElementOfSeq, <1>2 DEF RegistryOK
  <2>2. /\ head \o FileOrder \in Seq(S)
        /\ Len(head \o FileOrder) = Len(head) + Len(FileOrder)
        /\ \A i \in 1..Len(head) + Len(FileOrder) :
              (head \o FileOrder)[i] = IF i <= Len(head) THEN head[i]
                                       ELSE FileOrder[i - Len(head)]
    BY <2>1, ConcatProperties
  <2>3. Len(head) \in Nat /\ Len(FileOrder) \in Nat
    BY <2>1, LenProperties
  <2>4. ASSUME NEW i \in 1..Len(ReadOrder(u)), NEW j \in 1..Len(ReadOrder(u)),
               ReadOrder(u)[i] = ReadOrder(u)[j]
        PROVE  i = j
    <3> DEFINE m == Len(head)
               n == Len(FileOrder)
    <3>1. i \in 1..(m + n) /\ j \in 1..(m + n)
      BY <1>2, <2>2
    <3>2. CASE i <= m /\ j <= m
      BY <3>1, <3>2, <2>2, <2>3, <2>4, <1>2
    <3>3. CASE i > m /\ j > m
      <4>1. i - m \in 1..n /\ j - m \in 1..n
        BY <3>1, <3>3, <2>3
      <4>2. FileOrder[i - m] = FileOrder[j - m]
        BY <3>1, <3>3, <2>2, <2>3, <2>4, <1>2
      <4>3. i - m = j - m
        BY <4>1, <4>2, RegistryOK DEF RegistryOK
      <4> QED
        BY <4>3, <3>1, <2>3
    <3>4. CASE i <= m /\ j > m
      <4>1. ReadOrder(u)[i] = head[i] /\ i \in 1..m
        BY <3>1, <3>4, <2>2, <2>3, <1>2
      <4>2. ReadOrder(u)[j] = FileOrder[j - m] /\ j - m \in 1..n
        BY <3>1, <3>4, <2>2, <2>3, <1>2
      <4> QED
        BY <4>1, <4>2, <2>1, <2>4, <1>1
    <3>5. CASE j <= m /\ i > m
      <4>1. ReadOrder(u)[j] = head[j] /\ j \in 1..m
        BY <3>1, <3>5, <2>2, <2>3, <1>2
      <4>2. ReadOrder(u)[i] = FileOrder[i - m] /\ i - m \in 1..n
        BY <3>1, <3>5, <2>2, <2>3, <1>2
      <4> QED
        BY <4>1, <4>2, <2>1, <2>4, <1>1
    <3> QED
      BY <3>1, <3>2, <3>3, <3>4, <3>5, <2>3
  <2>5. ASSUME NEW f \in Files PROVE f \in ItemsOf(ReadOrder(u))
    <3>1. PICK i \in 1..Len(FileOrder) : FileOrder[i] = f
      BY RegistryOK DEF RegistryOK
    <3>2. /\ Len(head) + i \in 1..Len(ReadOrder(u))
          /\ ReadOrder(u)[Len(head) + i] = f
      BY <3>1, <2>2, <2>3, <1>2
    <3> QED
      BY <3>2 DEF ItemsOf
  <2>6. ASSUME NEW i \in 1..Len(head) PROVE head[i] \in ItemsOf(ReadOrder(u))
    <3>1. i \in 1..Len(ReadOrder(u)) /\ ReadOrder(u)[i] = head[i]
      BY <2>2, <2>3, <1>2
    <3> QED
      BY <3>1 DEF ItemsOf
  <2> QED
    BY <2>2, <2>4, <2>5, <2>6, <1>2 DEF ItemsOf
<1>3. CASE u \in {"freeze", "plan"}
  <2> DEFINE head == <<"suite", "cap", "contracts", "cases", "bindings", "rules">>
  <2>1. ReadOrder(u) = head \o FileOrder
    BY <1>3 DEF ReadOrder, DocumentOrder
  <2>2. head \in Seq(DocumentNames) /\ \A i, j \in 1..Len(head) : head[i] = head[j] => i = j
    BY <1>1
  <2>3. "suite" \in ItemsOf(head)
    BY DEF ItemsOf
  <2> HIDE DEF head
  <2> QED
    BY <1>2, <1>3, <2>1, <2>2, <2>3
<1>4. CASE u = "bind"
  <2> DEFINE head == <<"directs", "suite", "cap", "contracts", "cases", "bindings", "rules">>
  <2>1. ReadOrder(u) = head \o FileOrder
    <3>1. ReadOrder(u) = <<"directs">> \o DocumentOrder \o FileOrder
      BY <1>4 DEF ReadOrder
    <3>2. <<"directs">> \o DocumentOrder = head
      <4> DEFINE one == <<"directs">>
      <4>1. /\ one \in Seq(DocumentNames) /\ DocumentOrder \in Seq(DocumentNames)
            /\ head \in Seq(DocumentNames) /\ Len(head) = 7
            /\ Len(one) = 1 /\ Len(DocumentOrder) = 6 /\ one[1] = "directs"
        BY <1>1 DEF DocumentOrder
      <4> HIDE DEF one
      <4>2. /\ one \o DocumentOrder \in Seq(DocumentNames)
            /\ Len(one \o DocumentOrder) = Len(one) + Len(DocumentOrder)
            /\ \A i \in 1..Len(one) + Len(DocumentOrder) : (one \o DocumentOrder)[i] =
                  IF i <= Len(one) THEN one[i] ELSE DocumentOrder[i - Len(one)]
        BY <4>1, ConcatProperties
      <4>3. ASSUME NEW i \in 1..7 PROVE (one \o DocumentOrder)[i] = head[i]
        <5>1. (one \o DocumentOrder)[i] = IF i = 1 THEN "directs" ELSE DocumentOrder[i - 1]
          BY <4>1, <4>2
        <5>2. i \in {1, 2, 3, 4, 5, 6, 7}
          OBVIOUS
        <5> DEFINE order == <<"suite", "cap", "contracts", "cases", "bindings", "rules">>
        <5>3. \A j \in {2, 3, 4, 5, 6, 7} : order[j - 1] = head[j] /\ j # 1
          OBVIOUS
        <5>4. head[1] = "directs"
          OBVIOUS
        <5>5. DocumentOrder = order
          BY DEF DocumentOrder
        <5> HIDE DEF head, order
        <5> QED
          BY <5>1, <5>2, <5>3, <5>4, <5>5
      <4>4. Len(one \o DocumentOrder) = Len(head)
        BY <4>1, <4>2
      <4> HIDE DEF head
      <4>5. one \o DocumentOrder = head
        BY <4>1, <4>2, <4>3, <4>4, SeqEqual
      <4> QED
        BY <4>5 DEF one
    <3> QED
      BY <3>1, <3>2
  <2>2. head \in Seq(DocumentNames) /\ \A i, j \in 1..Len(head) : head[i] = head[j] => i = j
    BY <1>1
  <2>3. "suite" \in ItemsOf(head) /\ "directs" \in ItemsOf(head)
    BY DEF ItemsOf
  <2> HIDE DEF head
  <2> QED
    BY <1>2, <2>1, <2>2, <2>3
<1>5. CASE u = "qveris"
  <2> DEFINE head == <<"qveris", "suite">>
  <2>1. ReadOrder(u) = head \o FileOrder
    BY <1>5 DEF ReadOrder
  <2>2. head \in Seq(DocumentNames) /\ \A i, j \in 1..Len(head) : head[i] = head[j] => i = j
    BY <1>1
  <2>3. "suite" \in ItemsOf(head)
    BY DEF ItemsOf
  <2> HIDE DEF head
  <2> QED
    BY <1>2, <1>5, <2>1, <2>2, <2>3
<1> QED
  BY <1>3, <1>4, <1>5 DEF Purposes
LEMMA NothingIsSound == Sound(Nothing)
<1>1. DOMAIN Nothing = {} /\ DOMAIN Records(Nothing) = {}
  BY DEF Nothing, Records
<1> QED
  BY <1>1 DEF Sound, NoDuplicates, Documented

\* One more document that passes its check leaves what is held sound.
LEMMA SoundGrows ==
  ASSUME NEW g, NEW h, NEW k \in DocumentNames \cup Files, NEW content,
         Sound(g), k \notin DOMAIN g,
         h = [j \in DOMAIN g \cup {k} |-> IF j = k THEN content ELSE g[j]],
         Passes(k, h),
         k \in Files => IsContent(content),
         k \in {"suite", "directs"} => content \in Versions(k)
  PROVE  Sound(h)
<1>1. /\ DOMAIN h = DOMAIN g \cup {k} /\ h[k] = content
      /\ \A j \in DOMAIN g : h[j] = g[j]
  OBVIOUS
<1>2. \A n \in {"suite", "cap", "contracts", "cases", "bindings", "rules", "directs", "qveris"} :
          n \notin Files
  BY DocumentsOK DEF DocumentsOK, DocumentNames, DocumentOrder
<1>3. k \in Files => Loads(content) /\ NoDuplicates(Records(h))
  BY <1>1, <1>2 DEF Passes
<1>4. ASSUME k = "suite" PROVE SuiteValid(h.suite)
  <2>1. Passes("suite", h)
    BY <1>4
  <2> QED
    BY <1>2, <2>1 DEF Passes
<1>5. k \notin Files => Records(h) = Records(g)
  BY <1>1 DEF Records
<1>6. \A f \in DOMAIN h \cap Files : h[f] # Torn /\ WellFormed(h[f])
  BY <1>1, <1>3 DEF Sound, Loads, IsContent
<1>7. NoDuplicates(Records(h))
  BY <1>3, <1>5 DEF Sound
<1>8. "suite" \in DOMAIN h => SuiteValid(h.suite)
  BY <1>1, <1>4 DEF Sound
<1>9. Documented(h)
  BY <1>1 DEF Sound, Documented
<1> QED
  BY <1>6, <1>7, <1>8, <1>9 DEF Sound

-----------------------------------------------------------------------------
(***************************************************************************)
(* The program's steps                                                     *)
(***************************************************************************)
LEMMA SuiteStarts == Init => SuiteInv
<1> SUFFICES ASSUME Init PROVE SuiteInv
  OBVIOUS
<1>1. RegistryInv
  BY DecisionsStart DEF Init
<1>2. DocsAreVersions
  BY DocumentsOK DEF Init, DocsAreVersions, DocumentsOK, Documented, Versions
<1>3. ReadInOrder
  BY NothingIsSound DEF Init, ReadInOrder
<1>4. ResultsAreAccepted
  BY DEF Init, ResultsAreAccepted, Written
<1>5. BoundsHold
  BY DocumentsOK, RegistryOK DEF Init, RegistryInit, BoundsHold, DocumentsOK, RegistryOK
<1> QED
  BY <1>1, <1>2, <1>3, <1>4, <1>5 DEF SuiteInv

LEMMA BeginKeeps ==
  ASSUME SuiteInv, NEW u \in Purposes, Begin(u), UNCHANGED registryVars
  PROVE  ReadInOrder' /\ ResultsAreAccepted' /\ DocsAreVersions' /\ BoundsHold'
<1>1. purpose' = u /\ got' = Nothing /\ UNCHANGED <<docs, results, changes>>
  BY DEF Begin, SuiteInv, ReadInOrder, registryVars
<1>2. DOMAIN Nothing = {}
  BY DEF Nothing
<1>3. ReadInOrder'
  <2>1. u # "none"
    BY DEF Purposes
  <2>2. IsFiniteSet({}) /\ Cardinality({}) = 0 /\ 1..0 = {}
    BY FS_EmptySet
  <2>3. Len(ReadOrder(u)) \in Nat
    BY OrdersNameOnce, LenProperties
  <2>4. Sound(got)'
    BY <1>1, NothingIsSound DEF Sound, Documented, SuiteValid
  <2>5. DOMAIN got' = {} /\ Cardinality(DOMAIN got') = 0
    BY <1>1, <1>2, <2>2
  <2>6. {ReadOrder(u)[i] : i \in 1..0} = {}
    BY <2>2
  <2> HIDE DEF ReadOrder
  <2> QED
    BY <1>1, <2>1, <2>2, <2>3, <2>4, <2>5, <2>6 DEF ReadInOrder
<1>4. ResultsAreAccepted' /\ DocsAreVersions'
  BY <1>1 DEF SuiteInv, ResultsAreAccepted, DocsAreVersions, Written, Documented
<1>5. BoundsHold'
  BY <1>1, DocumentsOK DEF Begin, SuiteInv, BoundsHold, DocumentsOK
<1> QED
  BY <1>3, <1>4, <1>5
\* What is read next has not been read, and comes next in the order.
LEMMA NextIsNew ==
  ASSUME ReadInOrder, purpose # "none", ~AllRead
  PROVE  /\ NextRead \in (DocumentNames \cup Files) \cap ItemsOf(ReadOrder(purpose))
         /\ NextRead \notin DOMAIN got
         /\ IsFiniteSet(DOMAIN got \cup {NextRead})
         /\ Cardinality(DOMAIN got \cup {NextRead}) = Cardinality(DOMAIN got) + 1
         /\ Cardinality(DOMAIN got) + 1 \in 1..Len(ReadOrder(purpose))
         /\ DOMAIN got \cup {NextRead} =
               {ReadOrder(purpose)[i] : i \in 1..(Cardinality(DOMAIN got) + 1)}
<1> DEFINE order == ReadOrder(purpose)
           n     == Cardinality(DOMAIN got)
<1>1. purpose \in Purposes
  BY DEF ReadInOrder
<1>2. /\ order \in Seq(DocumentNames \cup Files)
      /\ \A i, j \in 1..Len(order) : order[i] = order[j] => i = j
  BY <1>1, OrdersNameOnce
<1>3. /\ IsFiniteSet(DOMAIN got) /\ n <= Len(order)
      /\ DOMAIN got = {order[i] : i \in 1..n}
      /\ n # Len(order)
  BY DEF ReadInOrder, AllRead
<1>4. n \in Nat /\ Len(order) \in Nat
  BY <1>2, <1>3, FS_CardinalityType, LenProperties
<1>5. n + 1 \in 1..Len(order)
  BY <1>3, <1>4
<1>6. NextRead = order[n + 1]
  BY DEF NextRead
<1>7. NextRead \in (DocumentNames \cup Files) \cap ItemsOf(order)
  <2>1. order[n + 1] \in DocumentNames \cup Files
    BY <1>2, <1>5, ElementOfSeq
  <2> HIDE DEF order
  <2> QED
    BY <2>1, <1>5, <1>6 DEF ItemsOf
<1> HIDE DEF order, n
<1>8. NextRead \notin DOMAIN got
  BY <1>2, <1>3, <1>4, <1>5, <1>6
<1>9. DOMAIN got \cup {NextRead} = {order[i] : i \in 1..(n + 1)}
  BY <1>3, <1>4, <1>6
<1>10. /\ IsFiniteSet(DOMAIN got \cup {NextRead})
       /\ Cardinality(DOMAIN got \cup {NextRead}) = n + 1
  BY <1>3, <1>8, FS_AddElement DEF n
<1> QED
  BY <1>5, <1>7, <1>8, <1>9, <1>10 DEF n, order

LEMMA ReadKeeps ==
  ASSUME SuiteInv, Read, UNCHANGED registryVars
  PROVE  ReadInOrder' /\ ResultsAreAccepted' /\ DocsAreVersions' /\ BoundsHold'
<1> DEFINE k == NextRead
<1>1. /\ purpose # "none" /\ ~AllRead /\ Passes(k, With(k)) /\ got' = With(k)
      /\ UNCHANGED <<docs, purpose, results, compiles, changes>>
  BY DEF Read, registryVars
<1>2. /\ k \in DocumentNames \cup Files /\ k \notin DOMAIN got
      /\ IsFiniteSet(DOMAIN got \cup {k})
      /\ Cardinality(DOMAIN got \cup {k}) = Cardinality(DOMAIN got) + 1
      /\ Cardinality(DOMAIN got) + 1 \in 1..Len(ReadOrder(purpose))
      /\ DOMAIN got \cup {k} =
            {ReadOrder(purpose)[i] : i \in 1..(Cardinality(DOMAIN got) + 1)}
  BY <1>1, NextIsNew DEF SuiteInv
<1> HIDE DEF k
<1>3. With(k) = [j \in DOMAIN got \cup {k} |-> IF j = k THEN Content(k) ELSE got[j]]
  BY DEF With
<1>4. k \in Files => IsContent(Content(k))
  BY DEF SuiteInv, RegistryInv, RegistryShape, Content
<1>5. k \in {"suite", "directs"} => Content(k) \in Versions(k)
  <2>1. {"suite", "directs"} \subseteq DocumentNames /\ DocumentNames \cap Files = {}
    BY DocumentsOK DEF DocumentsOK, DocumentNames, DocumentOrder
  <2> QED
    BY <2>1 DEF SuiteInv, DocsAreVersions, Documented, Content
<1>6. Sound(With(k))
  <2>1. Sound(got)
    BY DEF SuiteInv, ReadInOrder
  <2> HIDE DEF Content, With
  <2> QED
    BY <1>1, <1>2, <1>3, <1>4, <1>5, <2>1, SoundGrows
<1>7. DOMAIN With(k) = DOMAIN got \cup {k}
  BY <1>3
<1>8. ReadInOrder'
  <2>1. Sound(got)'
    BY <1>1, <1>6 DEF Sound, Documented, SuiteValid
  <2>2. Cardinality(DOMAIN got') <= Len(ReadOrder(purpose))
    BY <1>1, <1>2, <1>7
  <2> HIDE DEF ReadOrder, With
  <2> QED
    BY <1>1, <1>2, <1>7, <2>1, <2>2 DEF ReadInOrder, SuiteInv
<1>9. ResultsAreAccepted' /\ DocsAreVersions' /\ BoundsHold'
  BY <1>1 DEF SuiteInv, ResultsAreAccepted, DocsAreVersions, Written, Documented, BoundsHold
<1> QED
  BY <1>8, <1>9

LEMMA FailKeeps ==
  ASSUME SuiteInv, Fail, UNCHANGED registryVars
  PROVE  ReadInOrder' /\ ResultsAreAccepted' /\ DocsAreVersions' /\ BoundsHold'
<1>1. /\ purpose' = "none" /\ got' = Nothing
      /\ UNCHANGED <<docs, results, compiles, changes>>
  BY DEF Fail, registryVars
<1>2. Sound(got)'
  BY <1>1, NothingIsSound DEF Sound, Documented, SuiteValid
<1>3. ReadInOrder'
  BY <1>1, <1>2 DEF ReadInOrder
<1> QED
  BY <1>1, <1>3 DEF SuiteInv, ResultsAreAccepted, DocsAreVersions, Written, Documented,
     BoundsHold

LEMMA TruncateOutputKeeps ==
  ASSUME SuiteInv, TruncateOutput, UNCHANGED registryVars
  PROVE  ReadInOrder' /\ ResultsAreAccepted' /\ DocsAreVersions' /\ BoundsHold'
<1>1. /\ results' = [results EXCEPT ![purpose] = TornResult]
      /\ UNCHANGED <<docs, purpose, got, compiles, changes>>
  BY DEF TruncateOutput, registryVars
<1>2. ResultsAreAccepted'
  <2>1. \A u \in Purposes : Written(u)' => Written(u) /\ results'[u] = results[u]
    BY <1>1 DEF SuiteInv, ResultsAreAccepted, Written
  <2> QED
    BY <1>1, <2>1 DEF SuiteInv, ResultsAreAccepted
<1> QED
  BY <1>1, <1>2 DEF SuiteInv, ReadInOrder, DocsAreVersions, Documented, BoundsHold, Sound,
     SuiteValid

LEMMA FinishKeeps ==
  ASSUME SuiteInv, Finish, UNCHANGED registryVars
  PROVE  ReadInOrder' /\ ResultsAreAccepted' /\ DocsAreVersions' /\ BoundsHold'
<1>1. /\ purpose \in Purposes /\ AllRead /\ Accepts(got)
      /\ results' = [results EXCEPT ![purpose] = got]
      /\ purpose' = "none" /\ got' = Nothing
      /\ UNCHANGED <<docs, compiles, changes>>
  BY DEF Finish, registryVars, SuiteInv, ReadInOrder
<1>2. /\ Frozen(Records(got))
      /\ purpose \in Compilers => Compiles(got)
      /\ purpose = "bind" => DirectsMatch(got)
  BY <1>1 DEF Accepts, Compiles, Purposes, Compilers
<1>3. DOMAIN got = ItemsOf(ReadOrder(purpose))
  <2>1. purpose # "none"
    BY <1>1 DEF Purposes
  <2> HIDE DEF ReadOrder
  <2> QED
    BY <1>1, <2>1 DEF AllRead, SuiteInv, ReadInOrder, ItemsOf
<1>4. Result(purpose, got)
  BY <1>2, <1>3 DEF Result, SuiteInv, ReadInOrder
<1>5. ResultsAreAccepted'
  <2>1. \A u \in Purposes : results'[u] = IF u = purpose THEN got ELSE results[u]
    BY <1>1 DEF SuiteInv, ResultsAreAccepted
  <2>2. DOMAIN results' = Purposes
    BY <1>1 DEF SuiteInv, ResultsAreAccepted
  <2>3. ASSUME NEW u \in Purposes, Written(u)' PROVE Result(u, results'[u])
    <3>1. CASE u = purpose
      BY <3>1, <2>1, <1>4
    <3>2. CASE u # purpose
      BY <3>2, <2>1, <2>3 DEF SuiteInv, ResultsAreAccepted, Written
    <3> QED
      BY <3>1, <3>2
  <2> QED
    BY <2>2, <2>3 DEF ResultsAreAccepted
<1>6. ReadInOrder'
  <2>1. Sound(got)'
    BY <1>1, NothingIsSound DEF Sound, Documented, SuiteValid
  <2> QED
    BY <1>1, <2>1 DEF ReadInOrder
<1> QED
  BY <1>1, <1>5, <1>6 DEF SuiteInv, DocsAreVersions, Documented, BoundsHold

LEMMA ReviseKeeps ==
  ASSUME SuiteInv, Revise
  PROVE  ReadInOrder' /\ ResultsAreAccepted' /\ DocsAreVersions' /\ BoundsHold'
<1>1. PICK r \in Revisions :
          docs' = [k \in DocumentNames |-> IF k \in DOMAIN r THEN r[k] ELSE docs[k]]
  BY DEF Revise
<1>2. UNCHANGED <<purpose, got, results, compiles>>
  BY DEF Revise
<1>3. DocsAreVersions'
  <2>1. {"suite", "directs"} \subseteq DocumentNames
    BY DEF DocumentNames, DocumentOrder
  <2>2. \A k \in {"suite", "directs"} : docs[k] \in Versions(k)
    BY <2>1 DEF SuiteInv, DocsAreVersions, Documented
  <2>3. ASSUME NEW k \in {"suite", "directs"} PROVE docs'[k] \in Versions(k)
    <3>1. docs'[k] = IF k \in DOMAIN r THEN r[k] ELSE docs[k]
      BY <1>1, <2>1
    <3> QED
      BY <3>1, <2>2 DEF Versions
  <2> QED
    BY <1>1, <2>3 DEF DocsAreVersions, Documented
<1>4. BoundsHold'
  BY <1>2, RegistryOK DEF Revise, SuiteInv, BoundsHold, RegistryOK
<1> QED
  BY <1>2, <1>3, <1>4 DEF SuiteInv, ReadInOrder, ResultsAreAccepted, Written, Sound, Documented,
     SuiteValid

LEMMA RegistryKeeps ==
  ASSUME SuiteInv, RegistryNext, UNCHANGED suiteVars
  PROVE  ReadInOrder' /\ ResultsAreAccepted' /\ DocsAreVersions' /\ BoundsHold'
<1>1. UNCHANGED <<docs, purpose, got, results, compiles>>
  BY DEF suiteVars
<1>2. changes' = changes \/ (changes' = changes + 1 /\ changes < MaxChanges)
  BY DEF RegistryNext, Start, Load, Refuse, Truncate, Fill, Report, Die, EditFile
<1>3. BoundsHold'
  BY <1>1, <1>2, RegistryOK DEF SuiteInv, BoundsHold, RegistryOK
<1> QED
  BY <1>1, <1>3 DEF SuiteInv, ReadInOrder, ResultsAreAccepted, Written, DocsAreVersions, Sound,
     Documented, SuiteValid

LEMMA SuiteKeeps == SuiteInv /\ [Next]_vars => SuiteInv'
<1> SUFFICES ASSUME SuiteInv, [Next]_vars PROVE SuiteInv'
  OBVIOUS
<1>1. RegistryInv'
  BY DecisionsKeep DEF SuiteInv
<1>2. ReadInOrder' /\ ResultsAreAccepted' /\ DocsAreVersions' /\ BoundsHold'
  <2>1. CASE RegistryNext /\ UNCHANGED suiteVars
    BY <2>1, RegistryKeeps
  <2>2. CASE /\ \/ \E u \in Purposes : Begin(u)
                \/ Read \/ Fail \/ TruncateOutput \/ Finish
             /\ UNCHANGED registryVars
    BY <2>2, BeginKeeps, ReadKeeps, FailKeeps, TruncateOutputKeeps, FinishKeeps
  <2>3. CASE Revise
    BY <2>3, ReviseKeeps
  <2>4. CASE UNCHANGED vars
    <3>1. UNCHANGED <<docs, purpose, got, results, compiles, changes>>
      BY <2>4 DEF vars, suiteVars, registryVars
    <3> QED
      BY <3>1 DEF SuiteInv, ReadInOrder, ResultsAreAccepted, Written, DocsAreVersions, Sound,
         Documented, SuiteValid, BoundsHold
  <2> QED
    BY <2>1, <2>2, <2>3, <2>4 DEF Next
<1> QED
  BY <1>1, <1>2 DEF SuiteInv

\* The invariant the theorems below follow from.
THEOREM SuiteInvariant == Spec => []SuiteInv
<1>1. Init => SuiteInv
  BY SuiteStarts
<1>2. SuiteInv /\ [Next]_vars => SuiteInv'
  BY SuiteKeeps
<1> QED
  BY <1>1, <1>2, PTL DEF Spec
-----------------------------------------------------------------------------
(***************************************************************************)
(* What a result promises                                                  *)
(***************************************************************************)
\* What a program has read is a prefix of what it reads, and results are whole:
\* SuiteTypeOK for any registry and documents (suites/compiler.py).
THEOREM TypeCorrect == Spec => []SuiteTypeOK
<1>1. SuiteInv => SuiteTypeOK
  <2> SUFFICES ASSUME SuiteInv PROVE SuiteTypeOK
    OBVIOUS
  <2>1. /\ DOMAIN registry = Files
        /\ \A f \in Files : registry[f] # Torn => \A p \in PathsIn(registry[f]) :
              registry[f].paths[p].qualification # Undecided
                 => registry[f].paths[p].qualification.disposition \in Dispositions
    BY DEF SuiteInv, RegistryInv, RegistryShape, IsContent, WellFormed
  <2>2. \A o \in Operators : opc[o] \in {"loaded", "truncated"} => draft[o] # Torn
    BY DEF SuiteInv, RegistryInv, RegistryShape
  <2>3. \A u \in Purposes : Written(u) =>
           /\ DOMAIN results[u] = ItemsOf(ReadOrder(u))
           /\ \A f \in Files : results[u][f] # Torn
    BY OrdersNameOnce DEF SuiteInv, ResultsAreAccepted, Result, Sound
  <2> QED
    BY <2>1, <2>2, <2>3
    DEF SuiteTypeOK, SuiteInv, RegistryInv, RegistryShape, BoundsHold, DocsAreVersions, ReadInOrder
<1> QED
  BY <1>1, SuiteInvariant, PTL
\* A non-empty set of naturals has a least element.
LEMMA LeastOfNats ==
  ASSUME NEW S \in SUBSET Nat, S # {}
  PROVE  \E i \in S : \A j \in S : i <= j
<1> DEFINE R == {ss \in Nat \X Nat : ss[1] < ss[2]}
<1>1. IsWellFoundedOn(R, Nat)
  BY NatLessThanWellFounded DEF OpToRel
<1>2. \A i, j \in Nat : <<i, j>> \in R <=> i < j
  OBVIOUS
<1> HIDE DEF R
<1>3. PICK i \in S : \A j \in S : <<j, i>> \notin R
  BY <1>1, WFMin
<1>4. ASSUME NEW j \in S PROVE i <= j
  <2>1. i \in Nat /\ j \in Nat
    OBVIOUS
  <2>2. ~(j < i)
    BY <1>2, <1>3, <2>1
  <2> QED
    BY <2>1, <2>2
<1> QED
  BY <1>4

LEMMA FilesAreFinite == IsFiniteSet(Files)
<1>1. FileOrder \in [1..Len(FileOrder) -> Files] /\ Len(FileOrder) \in Nat
  BY RegistryOK, LenProperties DEF RegistryOK
<1>2. \A f \in Files : \E i \in 1..Len(FileOrder) : FileOrder[i] = f
  BY RegistryOK DEF RegistryOK
<1>3. FileOrder \in Surjection(1..Len(FileOrder), Files)
  BY <1>1, <1>2, Fun_IsSurj
<1>4. IsFiniteSet(1..Len(FileOrder))
  BY <1>1, FS_Interval
<1> QED
  BY <1>3, <1>4, FS_Surjection

\* A result holds a record of every provider file.
LEMMA ResultRecords ==
  ASSUME NEW u \in Purposes, NEW g, Result(u, g)
  PROVE  /\ DOMAIN Records(g) = Files
         /\ \A f \in Files : Records(g)[f] = g[f] /\ g[f] # Torn /\ WellFormed(g[f])
<1>1. Files \subseteq DOMAIN g
  BY OrdersNameOnce DEF Result
<1> QED
  BY <1>1 DEF Records, Result, Sound

\* No commit names a provider the checkout has not.  A commit that does would
\* rightly change who is in the cohort.
KeepsProviders == Providers \subseteq {Checkout[f].provider : f \in Files}

\* No provider and no access path is dropped silently: as many files are read as
\* there are providers, no two of one provider (providers/repository.py:80-107), and
\* none has a path without a terminal decision (suites/compiler.py).
THEOREM CohortsAreWhole == ASSUME KeepsProviders PROVE Spec => []CohortIsWhole
<1>1. SuiteInv => CohortIsWhole
  <2> SUFFICES ASSUME SuiteInv, NEW u \in Purposes, Written(u)
               PROVE  /\ {results[u][f].provider : f \in Files}
                           = {Checkout[f].provider : f \in Files}
                      /\ \A f \in Files :
                            /\ PathsIn(results[u][f]) # {}
                            /\ \A p \in PathsIn(results[u][f]) :
                                  results[u][f].paths[p].qualification # Undecided
    BY DEF CohortIsWhole
  <2> DEFINE g == results[u]
             S == {Checkout[f].provider : f \in Files}
             F == [f \in Files |-> g[f].provider]
             C == [f \in Files |-> Checkout[f].provider]
  <2>1. Result(u, g)
    BY DEF SuiteInv, ResultsAreAccepted
  <2>2. /\ DOMAIN Records(g) = Files
        /\ \A f \in Files : Records(g)[f] = g[f] /\ WellFormed(g[f])
    BY <2>1, ResultRecords
  <2>3. F \in Injection(Files, S)
    <3>1. \A f \in Files : g[f].provider \in S
      BY <2>2 DEF WellFormed, KeepsProviders
    <3>2. \A f, h \in Files : g[f].provider = g[h].provider => f = h
      BY <2>1, <2>2 DEF Result, Sound, NoDuplicates
    <3>3. F \in [Files -> S]
      BY <3>1
    <3> QED
      BY <3>2, <3>3, Fun_IsInj
  <2>4. IsFiniteSet(S) /\ Cardinality(S) <= Cardinality(Files)
    <3>1. C \in Surjection(Files, S)
      BY Fun_IsSurj
    <3> QED
      BY <3>1, FilesAreFinite, FS_Surjection
  <2> HIDE DEF S, F, C
  <2>5. Cardinality(Files) \in Nat /\ Cardinality(S) \in Nat
    BY <2>4, FilesAreFinite, FS_CardinalityType
  <2>6. F \in Surjection(Files, S)
    <3>1. Cardinality(Files) <= Cardinality(S)
      BY <2>3, <2>4, FS_Injection
    <3>2. Cardinality(Files) = Cardinality(S)
      BY <3>1, <2>4, <2>5
    <3> QED
      BY <3>2, <2>3, <2>4, FS_Injection
  <2>7. \A s \in S : \E f \in Files : F[f] = s
    BY <2>6, Fun_SurjectionProperties
  <2>8. {g[f].provider : f \in Files} = S
    <3>1. \A f \in Files : g[f].provider \in S
      BY <2>2 DEF WellFormed, KeepsProviders, S
    <3>2. \A s \in S : \E f \in Files : g[f].provider = s
      BY <2>7 DEF F
    <3> HIDE DEF g
    <3>3. {g[f].provider : f \in Files} \subseteq S
      BY <3>1
    <3>4. S \subseteq {g[f].provider : f \in Files}
      BY <3>2
    <3> QED
      BY <3>3, <3>4
  <2>9. \A f \in Files : /\ PathsIn(g[f]) # {}
                         /\ \A p \in PathsIn(g[f]) : g[f].paths[p].qualification # Undecided
    BY <2>1, <2>2 DEF Result, Frozen, WellFormed
  <2> QED
    BY <2>8, <2>9 DEF S
<1> QED
  BY <1>1, SuiteInvariant, PTL

\* The Agent only ever gets the tool of its protocol, whoever revises the suite or
\* the registry while one of them is read (suites/compiler.py, suites/run_matrix.py).
THEOREM AgentToolIsCanonical == Spec => []AgentCellsUseTheCanonicalTool
<1>1. SuiteInv => AgentCellsUseTheCanonicalTool
  <2> SUFFICES ASSUME SuiteInv, NEW u \in {"freeze", "plan", "bind"}, Written(u),
                      NEW cell \in ApplicableCells(results[u]), cell.mode = "agent_trial"
               PROVE  Entry(Records(results[u]), cell.path).interface = results[u].suite.tool
    BY DEF AgentCellsUseTheCanonicalTool
  <2> DEFINE g == results[u]
  <2>1. u \in Purposes /\ u \in Compilers
    BY DEF Purposes, Compilers
  <2>2. Result(u, g) /\ Compiles(g)
    BY <2>1 DEF SuiteInv, ResultsAreAccepted, Result
  <2>3. "suite" \in DOMAIN g
    BY <2>1, <2>2, OrdersNameOnce DEF Result
  <2> HIDE DEF g
  <2>4. PICK c \in ItemsOf(g.suite.cases), p \in ItemsOf(g.suite.paths), m \in g.suite.modes,
             r \in 1..g.suite.rounds :
          cell = [case |-> c, input |-> CaseOf(g, c).input,
                  provider |-> ProviderOf(Records(g), p), path |-> p, mode |-> m, round |-> r,
                  reason |-> Reason(g, c, p, m)]
    BY DEF ApplicableCells, Plan, g
  <2>5. /\ cell.path = p /\ m = "agent_trial" /\ Reason(g, c, p, m) = Applicable
    BY <2>4 DEF ApplicableCells, g
  <2>6. g.suite.tool # NoTool
    BY <2>2, <2>3, <2>4, <2>5 DEF Result, Sound, SuiteValid
  <2>7. Entry(Records(g), p).eligible # "no"
    <3> DEFINE fits(i) == /\ g.suite.rules[i].case = c /\ g.suite.rules[i].path = p
                          /\ g.suite.rules[i].mode \in {AnyMode, m}
               fitting == {i \in 1..Len(g.suite.rules) : fits(i)}
               first   == CHOOSE i \in fitting : \A j \in fitting : i <= j
    <3>1. fitting = {}
      <4> SUFFICES ASSUME fitting # {} PROVE FALSE
        OBVIOUS
      <4>1. g.suite.rules[first].reason = Applicable
        BY <2>5 DEF Reason
      <4>2. first \in fitting
        <5>1. fitting \subseteq Nat
          OBVIOUS
        <5>2. PICK i \in fitting : \A j \in fitting : i <= j
          BY <5>1, LeastOfNats
        <5> QED
          BY <5>2
      <4>3. g.suite \in Versions("suite")
        BY <2>2, <2>3 DEF Result, Sound, Documented
      <4> QED
        BY <4>1, <4>2, <4>3, VersionsOK DEF VersionsOK
    <3> HIDE DEF fitting
    <3>2. Reason(g, c, p, m) \in {"provider", "ineligible", Applicable}
             /\ (Entry(Records(g), p).eligible = "no" => Reason(g, c, p, m) # Applicable)
      BY <3>1, <2>5, VersionsOK DEF Reason, VersionsOK, fitting
    <3> QED
      BY <3>2, <2>5
  <2>8. Entry(Records(g), p).eligible \in {"yes", "no"}
    <3>1. p \in AllPaths(Records(g))
      BY <2>2, <2>4 DEF Compiles, PathsResolve
    <3>2. PICK f \in DOMAIN Records(g) : p \in PathsIn(Records(g)[f])
      BY <3>1 DEF AllPaths
    <3>3. FileOfPath(Records(g), p) \in DOMAIN Records(g)
             /\ p \in PathsIn(Records(g)[FileOfPath(Records(g), p)])
      BY <3>2 DEF FileOfPath
    <3>4. WellFormed(Records(g)[FileOfPath(Records(g), p)])
      BY <3>3, <2>1, <2>2, ResultRecords
    <3> QED
      BY <3>3, <3>4 DEF WellFormed, Entry
  <2>9. Entry(Records(g), p).interface = g.suite.tool
    BY <2>2, <2>4, <2>6, <2>7, <2>8 DEF Compiles, PathsResolve
  <2> QED
    BY <2>5, <2>9 DEF g
<1> QED
  BY <1>1, SuiteInvariant, PTL
\* A registry of as many bindings as identities has one binding for each.
LEMMA OneForEach ==
  ASSUME NEW g, DirectsMatch(g), Len(g.directs) \in Nat,
         NEW i \in 1..Len(g.directs), NEW j \in 1..Len(g.directs),
         g.directs[i].case = g.directs[j].case, g.directs[i].path = g.directs[j].path
  PROVE  i = j
<1> DEFINE n == Len(g.directs)
           Pair(d) == <<d.case, d.path>>
           S == {Pair(d) : d \in ItemsOf(g.directs)}
           F == [k \in 1..n |-> Pair(g.directs[k])]
<1>1. Cardinality(S) = n
  BY DEF DirectsMatch
<1>2. F \in Surjection(1..n, S)
  <2>1. \A k \in 1..n : F[k] \in S
    BY DEF ItemsOf
  <2>2. \A s \in S : \E k \in 1..n : F[k] = s
    BY DEF ItemsOf
  <2>3. F \in [1..n -> S]
    BY <2>1
  <2> HIDE DEF F, S
  <2> QED
    BY <2>2, <2>3, Fun_IsSurj
<1>3. IsFiniteSet(1..n) /\ Cardinality(1..n) = n
  <2>1. 1 \in Int /\ n \in Int
    OBVIOUS
  <2>2. IsFiniteSet(1..n) /\ Cardinality(1..n) = IF 1 > n THEN 0 ELSE n - 1 + 1
    BY <2>1, FS_Interval
  <2> QED
    BY <2>2
<1>4. F[i] = F[j]
  OBVIOUS
<1> HIDE DEF F, S
<1>5. F \in Injection(1..n, S)
  BY <1>1, <1>2, <1>3, FS_SurjSameCardinalityImpliesInj
<1> QED
  BY <1>4, <1>5, Fun_InjectionProperties

\* A registry of Direct bindings validated against one compile resolves each cell of
\* every plan with the same fingerprint (execution/direct_binding.py:39-118).
THEOREM BindingsResolve == Spec => []ValidatedBindingsResolve
<1>1. SuiteInv => ValidatedBindingsResolve
  <2> SUFFICES ASSUME SuiteInv, Written("bind"), Written("plan"),
                      Snapshot(results["bind"]) = Snapshot(results["plan"]),
                      NEW cell \in ApplicableCells(results["plan"])
               PROVE  LET matches == {i \in 1..Len(results["bind"].directs) :
                             /\ results["bind"].directs[i].case = cell.case
                             /\ results["bind"].directs[i].path = cell.path}
                      IN  /\ Cardinality(matches) = 1
                          /\ \A i \in matches :
                                /\ results["bind"].directs[i].provider = cell.provider
                                /\ results["bind"].directs[i].transport =
                                      Entry(Records(results["plan"]), cell.path).transport
    BY DEF ValidatedBindingsResolve
  <2> DEFINE g == results["bind"]
             h == results["plan"]
             matches == {i \in 1..Len(g.directs) : /\ g.directs[i].case = cell.case
                                                   /\ g.directs[i].path = cell.path}
  <2>1. Result("bind", g) /\ DirectsMatch(g)
    BY DEF SuiteInv, ResultsAreAccepted, Result, Purposes
  <2> HIDE DEF g, h
  <2>2. Len(g.directs) \in Nat
    <3>1. "directs" \in DOMAIN g
      BY <2>1, OrdersNameOnce DEF Result, Purposes
    <3> QED
      BY <3>1, <2>1, VersionsOK DEF Result, Sound, Documented, VersionsOK
  <2>3. Records(g) = Records(h) /\ Plan(g) = Plan(h)
    BY SnapshotHolds, SamePlan DEF g, h
  <2>4. cell \in ApplicableCells(g)
    BY <2>3 DEF ApplicableCells, h
  <2>5. cell.provider = ProviderOf(Records(g), cell.path)
    BY <2>4 DEF ApplicableCells, Plan
  <2>6. PICK i \in 1..Len(g.directs) : g.directs[i].case = cell.case
                                       /\ g.directs[i].path = cell.path
    <3>1. <<cell.case, cell.path>> \in {<<d.case, d.path>> : d \in ItemsOf(g.directs)}
      BY <2>1, <2>4 DEF DirectsMatch
    <3>2. PICK d \in ItemsOf(g.directs) : d.case = cell.case /\ d.path = cell.path
      BY <3>1
    <3> QED
      BY <3>2 DEF ItemsOf
  <2>7. matches = {i}
    <3>1. \A j \in matches : j = i
      BY <2>1, <2>2, <2>6, OneForEach
    <3> QED
      BY <3>1, <2>6
  <2>8. Cardinality(matches) = 1
    BY <2>7, FS_Singleton
  <2>9. /\ g.directs[i].provider = ProviderOf(Records(g), g.directs[i].path)
        /\ g.directs[i].transport = Entry(Records(g), g.directs[i].path).transport
    BY <2>1, <2>6 DEF DirectsMatch, ItemsOf
  <2>10. ASSUME NEW j \in matches
         PROVE  /\ g.directs[j].provider = cell.provider
                /\ g.directs[j].transport = Entry(Records(h), cell.path).transport
    <3>1. j = i
      BY <2>7
    <3> QED
      BY <3>1, <2>3, <2>5, <2>6, <2>9
  <2> QED
    BY <2>8, <2>10 DEF g, h
<1> QED
  BY <1>1, SuiteInvariant, PTL
=============================================================================
