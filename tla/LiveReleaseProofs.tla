--------------------------- MODULE LiveReleaseProofs ---------------------------
(***************************************************************************)
(* Theorems about the three live workflows that end in a release, for any  *)
(* cells, cases, commits, answers, builders and numbers of incidents: bond *)
(* yields and corporate actions (ReleaseAssembly), then the market run of  *)
(* dividend events (DividendRelease).                                      *)
(***************************************************************************)
EXTENDS ReleaseAssembly, DividendRelease, FiniteSetTheorems, WellFoundedInduction, TLAPS

-----------------------------------------------------------------------------
(***************************************************************************)
(* The files of a release                                                  *)
(***************************************************************************)
N     == Len(ReleaseFiles)
FileSet == {ReleaseFiles[i] : i \in 1..N}

LEMMA FilesAreInOrder ==
    /\ N \in Nat \ {0}
    /\ ReleaseFiles[N] = "github-artifacts"
    /\ \A i, j \in 1..N : ReleaseFiles[i] = ReleaseFiles[j] => i = j
    /\ \A f \in FileSet : \E i \in 1..N : f = ReleaseFiles[i]
    /\ NoFile \notin Builders /\ Torn \notin Builders
  BY ReleaseFilesOK DEF ReleaseFilesOK, N, FileSet

\* A builder's state is a record of these fields.
IsBuilder(st) ==
    st = [pc |-> st.pc, run |-> st.run, rows |-> st.rows, suite |-> st.suite,
          registry |-> st.registry, bytes |-> st.bytes, terminals |-> st.terminals,
          made |-> st.made, left |-> st.left, next |-> st.next]

BuilderShape ==
    /\ builder = [b \in Builders |-> builder[b]]
    /\ \A b \in Builders : IsBuilder(builder[b])
    /\ \A b \in Builders : builder[b].next \in 1..(N + 1)

Early == {"ready", "exported", "start", "digest", "assemble"}

\* Where a builder stands once it has made the evidence directory.
Stages ==
    /\ evidence = [c \in Cells |-> evidence[c]]
    /\ release = [f \in FileSet |-> release[f]]
    /\ \A b \in Builders :
         /\ builder[b].pc \in Early \cup {"write", "done", "refused", "dead"}
         /\ builder[b].made \in {"yes", "no"}
         /\ builder[b].pc \in {"write", "done"} => builder[b].made = "yes"
         /\ builder[b].pc \in Early \cup {"refused"} => builder[b].made = "no"
         /\ builder[b].pc \in Early => builder[b].next = 1

\* Only one builder has made it.
OneMaker ==
    \A b, d \in Builders : builder[b].made = "yes" /\ builder[d].made = "yes" => b = d

\* Whatever is written is the work of who has made the directory, or half a file.
MadeByIt ==
    /\ \A c \in Cells :
          evidence[c] \in {NoFile, Torn} \cup {b \in Builders : builder[b].made = "yes"}
    /\ \A f \in FileSet :
          release[f] \in {NoFile, Torn} \cup {b \in Builders : builder[b].made = "yes"}

\* A builder writes the evidence, then the files in their order.
InOrder ==
    /\ \A b \in Builders : builder[b].pc \in {"write", "done"} =>
         /\ \A c \in Cells \ builder[b].left : evidence[c] = b
         /\ builder[b].next > 1 => builder[b].left = {}
         /\ \A i \in 1..N : i < builder[b].next => release[ReleaseFiles[i]] = b
         /\ builder[b].pc = "write" => builder[b].next <= N
         /\ builder[b].pc = "done" => builder[b].next = N + 1
    /\ \A b \in Builders : release["github-artifacts"] = b => builder[b].pc = "done"

WholeInv == BuilderShape /\ Stages /\ OneMaker /\ MadeByIt /\ InOrder

LEMMA WholeInit == Init => WholeInv
<1> SUFFICES ASSUME Init PROVE WholeInv
  OBVIOUS
<1> USE DEF Init
<1>1. BuilderShape
  <2>1. \A b \in Builders : builder[b] =
           [pc |-> "ready", run |-> Absent, rows |-> {}, suite |-> Absent,
            registry |-> Absent, bytes |-> Absent, terminals |-> Absent,
            made |-> "no", left |-> {}, next |-> 1]
    OBVIOUS
  <2>2. \A b \in Builders : IsBuilder(builder[b])
    BY <2>1 DEF IsBuilder
  <2>3. 1 \in 1..(N + 1)
    BY FilesAreInOrder
  <2>4. \A b \in Builders : builder[b].next \in 1..(N + 1)
    BY <2>1, <2>3
  <2> QED BY <2>2, <2>4 DEF BuilderShape
<1>2. release = [f \in FileSet |-> NoFile]
  BY DEF FileSet, N
<1>3. Stages
  BY <1>2 DEF Stages, Early
<1>4. OneMaker
  BY DEF OneMaker
<1>5. MadeByIt
  <2>1. \A c \in Cells : evidence[c] = NoFile
    OBVIOUS
  <2>2. \A f \in FileSet : release[f] = NoFile
    BY <1>2
  <2> QED BY <2>1, <2>2 DEF MadeByIt
<1>6. "github-artifacts" \in FileSet
  BY FilesAreInOrder DEF FileSet
<1>7. InOrder
  BY <1>2, <1>6, FilesAreInOrder DEF InOrder
<1> QED BY <1>1, <1>3, <1>4, <1>5, <1>7 DEF WholeInv

\* What builders other than b are.
Only(b) ==
    /\ builder' = [d \in Builders |-> builder'[d]]
    /\ \A d \in Builders \ {b} : builder'[d] = builder[d]
    /\ IsBuilder(builder'[b])

Keeps(new, st) ==
    /\ new.run = st.run /\ new.rows = st.rows
    /\ new.suite = st.suite /\ new.registry = st.registry
    /\ new.terminals = st.terminals /\ new.made = st.made
    /\ new.left = st.left /\ new.next = st.next

\* What a step of builder b makes of its state.
LEMMA ToOnly ==
    ASSUME BuilderShape, NEW b \in Builders, NEW pc, NEW st, IsBuilder(st), To(b, pc, st)
    PROVE  Only(b) /\ builder'[b].pc = pc /\ Keeps(builder'[b], st)
<1>1. builder'[b] = [st EXCEPT !.pc = pc]
  BY DEF BuilderShape, To
<1>2. IsBuilder(builder'[b]) /\ builder'[b].pc = pc /\ Keeps(builder'[b], st)
  BY <1>1 DEF IsBuilder, Keeps
<1> QED BY <1>2 DEF BuilderShape, To, Only

\* The steps of a builder, field by field.
LEMMA RefuseEffect ==
    ASSUME BuilderShape, NEW b \in Builders, Refuse(b)
    PROVE  Only(b) /\ builder'[b].pc = "refused" /\ Keeps(builder'[b], builder[b])
<1>1. IsBuilder(builder[b])
  BY DEF BuilderShape
<1> QED BY <1>1, ToOnly DEF Refuse

LEMMA ExportRunEffect ==
    ASSUME BuilderShape, NEW b \in Builders, ExportRun(b)
    PROVE  /\ Only(b) /\ builder[b].pc = "ready" /\ builder'[b].pc = "exported"
           /\ builder'[b].run = [id |-> run.id, event |-> run.event, commit |-> run.commit,
                 attempt |-> run.attempt, success |-> IF run.passed = Cells THEN "yes" ELSE "no"]
           /\ builder'[b].rows = builder[b].rows
           /\ builder'[b].made = builder[b].made /\ builder'[b].left = builder[b].left
           /\ builder'[b].next = builder[b].next
<1>1. PICK st, r, new : /\ st = builder[b] /\ new = [st EXCEPT !.run = r]
         /\ r = [id |-> run.id, event |-> run.event, commit |-> run.commit,
                 attempt |-> run.attempt, success |-> IF run.passed = Cells THEN "yes" ELSE "no"]
  OBVIOUS
<1>2. IsBuilder(st)
  BY <1>1 DEF BuilderShape
<1>3. IsBuilder(new) /\ new.run = r /\ new.rows = st.rows /\ new.made = st.made
      /\ new.left = st.left /\ new.next = st.next
  BY <1>1, <1>2 DEF IsBuilder
<1>4. To(b, "exported", new)
  BY <1>1 DEF ExportRun
<1>5. Only(b) /\ builder'[b].pc = "exported" /\ Keeps(builder'[b], new)
  BY <1>3, <1>4, ToOnly
<1> QED BY <1>1, <1>3, <1>5 DEF Keeps, ExportRun, At

LEMMA ExportArtifactsEffect ==
    ASSUME BuilderShape, NEW b \in Builders, ExportArtifacts(b)
    PROVE  /\ Only(b) /\ builder[b].pc = "exported" /\ builder'[b].pc = "start"
           /\ \E id \in 1..run.id : builder'[b].rows = {a \in artifacts : a.run = id}
           /\ builder'[b].run = builder[b].run
           /\ builder'[b].made = builder[b].made /\ builder'[b].left = builder[b].left
           /\ builder'[b].next = builder[b].next
<1>1. PICK id \in 1..run.id :
        To(b, "start", [builder[b] EXCEPT !.rows = {a \in artifacts : a.run = id}])
  BY DEF ExportArtifacts
<1>2. PICK st, rows, new : /\ st = builder[b] /\ rows = {a \in artifacts : a.run = id}
                           /\ new = [st EXCEPT !.rows = rows]
  OBVIOUS
<1>3. IsBuilder(st)
  BY <1>2 DEF BuilderShape
<1>4. IsBuilder(new) /\ new.run = st.run /\ new.rows = rows /\ new.made = st.made
      /\ new.left = st.left /\ new.next = st.next
  BY <1>2, <1>3 DEF IsBuilder
<1>5. To(b, "start", new)
  BY <1>1, <1>2
<1>6. Only(b) /\ builder'[b].pc = "start" /\ Keeps(builder'[b], new)
  BY <1>4, <1>5, ToOnly
<1> QED BY <1>2, <1>4, <1>6 DEF Keeps, ExportArtifacts, At

\* Collect refuses, or every cell is verified with the registry that is checked out.
Found(b, c) == CHOOSE f \in Entries(builder[b].rows, "public", c) : TRUE

Accepts(b, merge) ==
    /\ Trusted(builder[b].run, merge)
    /\ \A other \in Builders : builder[other].made = "no"
    /\ RowsMatch(builder[b].rows)
    /\ \A c \in Cells :
          /\ IdentityBound(cap, CaseOf(cap, c), Registries[checkout.registry][c])
          /\ Verified(builder[b].rows, builder[b].run, checkout.registry, c)

LEMMA CollectEffect ==
    ASSUME BuilderShape, NEW b \in Builders, Collect(b)
    PROVE  /\ Only(b) /\ builder[b].pc = "start"
           /\ builder'[b].run = builder[b].run /\ builder'[b].rows = builder[b].rows
           /\ builder'[b].made = builder[b].made /\ builder'[b].left = builder[b].left
           /\ builder'[b].next = builder[b].next
           /\ \E merge \in {"none", "binds"} :
                 \/ builder'[b].pc = "refused" /\ ~Accepts(b, merge)
                 \/ /\ builder'[b].pc = "digest" /\ Accepts(b, merge)
                    /\ builder'[b].suite = checkout.suite
                    /\ builder'[b].terminals = [c \in Cells |-> Found(b, c).content]
<1>1. PICK st, terminals, new :
         /\ st = builder[b] /\ terminals = [c \in Cells |-> Found(b, c).content]
         /\ new = [st EXCEPT !.suite = checkout.suite, !.terminals = terminals]
  OBVIOUS
<1>2. PICK merge \in {"none", "binds"} :
         IF ~Accepts(b, merge) THEN Refuse(b) ELSE To(b, "digest", new)
  BY <1>1 DEF Collect, Accepts, Found
<1>3. IsBuilder(st)
  BY <1>1 DEF BuilderShape
<1>4. IsBuilder(new) /\ new.run = st.run /\ new.rows = st.rows /\ new.made = st.made
      /\ new.left = st.left /\ new.next = st.next
      /\ new.suite = checkout.suite /\ new.terminals = terminals
  BY <1>1, <1>3 DEF IsBuilder
<1>5. builder[b].pc = "start"
  BY DEF Collect, At
<1>6. CASE Accepts(b, merge)
  <2>1. Only(b) /\ builder'[b].pc = "digest" /\ Keeps(builder'[b], new)
    BY <1>2, <1>4, <1>6, ToOnly
  <2> QED BY <1>1, <1>4, <1>5, <1>6, <2>1 DEF Keeps
<1>7. CASE ~Accepts(b, merge)
  BY <1>2, <1>5, <1>7, RefuseEffect DEF Keeps
<1> QED BY <1>6, <1>7

LEMMA DigestEffect ==
    ASSUME BuilderShape, NEW b \in Builders, Digest(b)
    PROVE  /\ Only(b) /\ builder[b].pc = "digest" /\ builder'[b].pc = "assemble"
           /\ builder'[b].registry = checkout.registry
           /\ builder'[b].run = builder[b].run /\ builder'[b].rows = builder[b].rows
           /\ builder'[b].suite = builder[b].suite
           /\ builder'[b].terminals = builder[b].terminals
           /\ builder'[b].made = builder[b].made /\ builder'[b].left = builder[b].left
           /\ builder'[b].next = builder[b].next
<1>1. PICK st, x, new : st = builder[b] /\ x = checkout.registry
                        /\ new = [st EXCEPT !.registry = x]
  OBVIOUS
<1>2. IsBuilder(st)
  BY <1>1 DEF BuilderShape
<1>3. IsBuilder(new) /\ new.registry = x /\ new.run = st.run /\ new.rows = st.rows
      /\ new.suite = st.suite /\ new.terminals = st.terminals
      /\ new.made = st.made /\ new.left = st.left /\ new.next = st.next
  BY <1>1, <1>2 DEF IsBuilder
<1>4. To(b, "assemble", new)
  BY <1>1 DEF Digest
<1>5. Only(b) /\ builder'[b].pc = "assemble" /\ Keeps(builder'[b], new)
  BY <1>3, <1>4, ToOnly
<1> QED BY <1>1, <1>3, <1>5 DEF Keeps, Digest, At

LEMMA AssembleEffect ==
    ASSUME BuilderShape, NEW b \in Builders, Assemble(b)
    PROVE  /\ Only(b) /\ builder[b].pc = "assemble"
           /\ builder'[b].run = builder[b].run /\ builder'[b].rows = builder[b].rows
           /\ builder'[b].suite = builder[b].suite /\ builder'[b].registry = builder[b].registry
           /\ builder'[b].terminals = builder[b].terminals
           /\ builder'[b].next = builder[b].next
           /\ \/ /\ builder'[b].pc = "refused" /\ builder'[b].made = builder[b].made
                 /\ \/ ~Assembles(builder[b])
                    \/ \E other \in Builders : builder[other].made = "yes"
              \/ /\ builder'[b].pc = "write" /\ Assembles(builder[b])
                 /\ \A other \in Builders : builder[other].made # "yes"
                 /\ builder'[b].made = "yes" /\ builder'[b].left = Cells
<1>1. PICK st, x, read, new : /\ st = builder[b] /\ x = checkout.registry
                              /\ read = [st EXCEPT !.bytes = x]
                              /\ new = [read EXCEPT !.made = "yes", !.left = Cells]
  OBVIOUS
<1>2. IsBuilder(st)
  BY <1>1 DEF BuilderShape
<1>3. IsBuilder(read) /\ read.registry = st.registry /\ read.run = st.run
      /\ read.rows = st.rows /\ read.suite = st.suite /\ read.terminals = st.terminals
      /\ read.made = st.made /\ read.left = st.left /\ read.next = st.next
  BY <1>1, <1>2 DEF IsBuilder
<1>4. IsBuilder(new) /\ new.registry = read.registry /\ new.run = read.run
      /\ new.rows = read.rows /\ new.suite = read.suite /\ new.terminals = read.terminals
      /\ new.made = "yes" /\ new.left = Cells /\ new.next = read.next
  BY <1>1, <1>3 DEF IsBuilder
<1>5. Assembles(read) <=> Assembles(st)
  BY <1>3 DEF Assembles
<1>6. builder[b].pc = "assemble"
  BY DEF Assemble, At
<1>7. \/ Refuse(b) /\ (~Assembles(read) \/ \E other \in Builders : builder[other].made = "yes")
      \/ /\ To(b, "write", new) /\ Assembles(read)
         /\ \A other \in Builders : builder[other].made # "yes"
  BY <1>1 DEF Assemble
<1>8. CASE Refuse(b) /\ (~Assembles(read) \/ \E other \in Builders : builder[other].made = "yes")
  BY <1>1, <1>5, <1>6, <1>8, RefuseEffect DEF Keeps
<1>9. CASE /\ To(b, "write", new) /\ Assembles(read)
           /\ \A other \in Builders : builder[other].made # "yes"
  <2>1. Only(b) /\ builder'[b].pc = "write" /\ Keeps(builder'[b], new)
    BY <1>4, <1>9, ToOnly
  <2> QED BY <1>1, <1>3, <1>4, <1>5, <1>6, <1>9, <2>1 DEF Keeps
<1> QED BY <1>7, <1>8, <1>9

LEMMA WriteEvidenceEffect ==
    ASSUME BuilderShape, NEW b \in Builders, WriteEvidence(b)
    PROVE  /\ Only(b) /\ builder[b].pc = "write" /\ builder'[b].pc = "write"
           /\ builder'[b].run = builder[b].run /\ builder'[b].rows = builder[b].rows
           /\ builder'[b].suite = builder[b].suite /\ builder'[b].registry = builder[b].registry
           /\ builder'[b].terminals = builder[b].terminals
           /\ builder'[b].made = builder[b].made /\ builder'[b].next = builder[b].next
           /\ \E c \in builder[b].left :
                 /\ builder'[b].left = builder[b].left \ {c}
                 /\ evidence' = [evidence EXCEPT ![c] = b]
<1>1. PICK c \in builder[b].left :
         /\ evidence' = [evidence EXCEPT ![c] = b]
         /\ builder' = [builder EXCEPT ![b].left = @ \ {c}]
  BY DEF WriteEvidence
<1>2. PICK st, left : st = builder[b] /\ left = builder[b].left \ {c}
  OBVIOUS
<1>3. builder'[b] = [st EXCEPT !.left = left]
  BY <1>1, <1>2 DEF BuilderShape
<1>4. IsBuilder(st)
  BY <1>2 DEF BuilderShape
<1>5. IsBuilder(builder'[b]) /\ builder'[b].pc = st.pc /\ builder'[b].run = st.run
      /\ builder'[b].rows = st.rows /\ builder'[b].suite = st.suite
      /\ builder'[b].registry = st.registry /\ builder'[b].terminals = st.terminals
      /\ builder'[b].made = st.made /\ builder'[b].left = left /\ builder'[b].next = st.next
  BY <1>3, <1>4 DEF IsBuilder
<1>6. Only(b)
  BY <1>1, <1>5 DEF Only, BuilderShape
<1> QED BY <1>1, <1>2, <1>5, <1>6 DEF WriteEvidence, At

LEMMA WriteReleaseEffect ==
    ASSUME BuilderShape, NEW b \in Builders, WriteRelease(b)
    PROVE  /\ Only(b) /\ builder[b].pc = "write" /\ builder[b].left = {}
           /\ builder'[b].pc = IF builder[b].next = N THEN "done" ELSE "write"
           /\ builder'[b].run = builder[b].run /\ builder'[b].rows = builder[b].rows
           /\ builder'[b].suite = builder[b].suite /\ builder'[b].registry = builder[b].registry
           /\ builder'[b].terminals = builder[b].terminals
           /\ builder'[b].made = builder[b].made /\ builder'[b].left = builder[b].left
           /\ builder'[b].next = builder[b].next + 1
<1>1. PICK st, next, new, pc : /\ st = builder[b] /\ next = builder[b].next + 1
                               /\ new = [st EXCEPT !.next = next]
                               /\ pc = IF builder[b].next = N THEN "done" ELSE "write"
  OBVIOUS
<1>2. IsBuilder(st)
  BY <1>1 DEF BuilderShape
<1>3. IsBuilder(new) /\ new.next = next /\ new.run = st.run /\ new.rows = st.rows
      /\ new.suite = st.suite /\ new.registry = st.registry /\ new.terminals = st.terminals
      /\ new.made = st.made /\ new.left = st.left
  BY <1>1, <1>2 DEF IsBuilder
<1>4. To(b, pc, new)
  BY <1>1 DEF WriteRelease, N
<1>5. Only(b) /\ builder'[b].pc = pc /\ Keeps(builder'[b], new)
  BY <1>3, <1>4, ToOnly
<1> QED BY <1>1, <1>3, <1>5 DEF Keeps, WriteRelease, At

LEMMA BuilderDiesEffect ==
    ASSUME BuilderShape, NEW b \in Builders, BuilderDies(b)
    PROVE  /\ Only(b) /\ builder'[b].pc = "dead" /\ Keeps(builder'[b], builder[b])
           /\ builder[b].pc \in {"start", "digest", "assemble", "write"}
<1>1. IsBuilder(builder[b]) /\ To(b, "dead", builder[b])
  BY DEF BuilderShape, BuilderDies
<1> QED BY <1>1, ToOnly DEF BuilderDies

\* A builder that has not made the directory moves on or refuses.
LEMMA EarlyStep ==
    ASSUME WholeInv, NEW b \in Builders, Only(b),
           builder[b].pc \in Early, builder'[b].pc \in Early \cup {"refused"},
           builder'[b].made = builder[b].made, builder'[b].next = builder[b].next,
           UNCHANGED <<evidence, release>>
    PROVE  WholeInv'
<1>1. /\ IsBuilder(builder'[b])
      /\ \A d \in Builders \ {b} : builder'[d] = builder[d]
      /\ builder' = [d \in Builders |-> builder'[d]]
  BY DEF Only
<1>2. BuilderShape'
  BY <1>1 DEF WholeInv, BuilderShape, IsBuilder
<1>3. builder'[b].made = "no" /\ builder[b].made = "no"
  BY <1>1 DEF WholeInv, Stages, Early
<1>4. Stages'
  BY <1>1, <1>3 DEF WholeInv, Stages, Early
<1>5. \A d \in Builders : builder'[d].made = builder[d].made
  BY <1>1
<1>6. OneMaker' /\ MadeByIt'
  BY <1>5 DEF WholeInv, OneMaker, MadeByIt
<1>7. \A d \in Builders : builder'[d].pc \in {"write", "done"} => builder'[d] = builder[d]
  BY <1>1 DEF Early
<1>8. \A d \in Builders : builder[d].pc = "done" => builder'[d].pc = "done"
  BY <1>1 DEF Early
<1>9. InOrder'
  BY <1>7, <1>8 DEF WholeInv, InOrder
<1> QED BY <1>2, <1>4, <1>6, <1>9 DEF WholeInv

\* mkdir succeeds for one builder only.
LEMMA MakesTheDirectory ==
    ASSUME WholeInv, NEW b \in Builders, Only(b), builder'[b].pc = "write",
           builder[b].pc = "assemble", \A other \in Builders : builder[other].made # "yes",
           builder'[b].made = "yes", builder'[b].left = Cells,
           builder'[b].next = builder[b].next,
           UNCHANGED <<evidence, release>>
    PROVE  WholeInv'
<1>1. /\ builder'[b].pc = "write" /\ IsBuilder(builder'[b])
      /\ builder'[b].made = "yes" /\ builder'[b].left = Cells
      /\ builder'[b].next = 1
      /\ \A d \in Builders \ {b} : builder'[d] = builder[d]
      /\ builder' = [d \in Builders |-> builder'[d]]
  BY DEF Only, WholeInv, Stages, Early
<1>2. BuilderShape'
  BY <1>1, FilesAreInOrder DEF WholeInv, BuilderShape, IsBuilder
<1>3. Stages'
  BY <1>1 DEF WholeInv, Stages, Early
<1>4. OneMaker'
  BY <1>1 DEF OneMaker
<1>5. \A c \in Cells : evidence[c] \in {NoFile, Torn}
  BY DEF WholeInv, MadeByIt
<1>6. \A f \in FileSet : release[f] \in {NoFile, Torn}
  BY DEF WholeInv, MadeByIt
<1>7. MadeByIt'
  BY <1>5, <1>6 DEF MadeByIt
<1>8. \A d \in Builders : builder'[d].pc \in {"write", "done"} => d = b
  BY <1>1 DEF WholeInv, Stages, Early
<1>9. "github-artifacts" \in FileSet
  BY FilesAreInOrder DEF FileSet
<1>10. InOrder'
  <2>1. ASSUME NEW d \in Builders, builder'[d].pc \in {"write", "done"}
        PROVE  /\ \A c \in Cells \ builder'[d].left : evidence'[c] = d
               /\ builder'[d].next > 1 => builder'[d].left = {}
               /\ \A i \in 1..N : i < builder'[d].next => release'[ReleaseFiles[i]] = d
               /\ builder'[d].pc = "write" => builder'[d].next <= N
               /\ builder'[d].pc = "done" => builder'[d].next = N + 1
    BY <1>1, <1>8, <2>1, FilesAreInOrder
  <2>2. \A d \in Builders : release'["github-artifacts"] # d
    BY <1>6, <1>9, FilesAreInOrder
  <2> QED BY <2>1, <2>2 DEF InOrder
<1> QED BY <1>2, <1>3, <1>4, <1>7, <1>10 DEF WholeInv

\* The makers stay: who stands behind a file still does.
LEMMA WriteEvidenceKeepsWhole ==
    ASSUME WholeInv, NEW b \in Builders, WriteEvidence(b) PROVE WholeInv'
<1>0. BuilderShape
  BY DEF WholeInv
<1>1. PICK c \in builder[b].left :
         builder'[b].left = builder[b].left \ {c} /\ evidence' = [evidence EXCEPT ![c] = b]
  BY <1>0, WriteEvidenceEffect
<1>2. builder[b].pc = "write" /\ release' = release
  BY DEF WriteEvidence, At
<1>3. Only(b) /\ builder'[b].pc = "write" /\ builder'[b].made = builder[b].made
      /\ builder'[b].next = builder[b].next
  BY <1>0, WriteEvidenceEffect
<1>4. /\ IsBuilder(builder'[b])
      /\ \A d \in Builders \ {b} : builder'[d] = builder[d]
      /\ builder' = [d \in Builders |-> builder'[d]]
      /\ builder'[b].left = builder[b].left \ {c}
      /\ builder'[b].next = builder[b].next
  BY <1>1, <1>3 DEF Only
<1>5. BuilderShape'
  BY <1>3, <1>4 DEF WholeInv, BuilderShape
<1>6. \A d \in Builders : builder'[d].made = builder[d].made /\ builder'[d].pc = builder[d].pc
  BY <1>2, <1>3, <1>4
<1>7. /\ evidence' = [e \in Cells |-> evidence'[e]]
      /\ \A e \in Cells : evidence'[e] = IF e = c THEN b ELSE evidence[e]
  BY <1>1 DEF WholeInv, Stages, Early
<1>8. Stages'
  <2>1. release' = [f \in FileSet |-> release'[f]]
    BY <1>2 DEF WholeInv, Stages
  <2>2. \A d \in Builders : builder'[d].next = builder[d].next
    BY <1>4
  <2> QED BY <1>6, <1>7, <2>1, <2>2 DEF WholeInv, Stages
<1>9. OneMaker'
  BY <1>6 DEF WholeInv, OneMaker
<1>10. builder'[b].made = "yes"
  BY <1>2, <1>6 DEF WholeInv, Stages
<1>11. MadeByIt'
  BY <1>2, <1>6, <1>7, <1>10 DEF WholeInv, MadeByIt
<1>12. \A d \in Builders : builder'[d].pc \in {"write", "done"} => d = b
  BY <1>2, <1>6 DEF WholeInv, Stages, OneMaker
<1>13. InOrder'
  <2>1. \A e \in Cells \ builder'[b].left : evidence'[e] = b
    BY <1>2, <1>4, <1>7 DEF WholeInv, InOrder
  <2>2. ~ builder[b].next > 1
    BY <1>1, <1>2 DEF WholeInv, InOrder
  <2>3. \A i \in 1..N : i < builder'[b].next => release'[ReleaseFiles[i]] = b
    BY <1>2, <1>4 DEF WholeInv, InOrder
  <2>4. builder'[b].next <= N
    BY <1>2, <1>4 DEF WholeInv, InOrder
  <2>5. \A d \in Builders : release'["github-artifacts"] = d => builder'[d].pc = "done"
    BY <1>2, <1>6 DEF WholeInv, InOrder
  <2> QED BY <1>3, <1>4, <1>12, <2>1, <2>2, <2>3, <2>4, <2>5 DEF InOrder
<1> QED BY <1>5, <1>8, <1>9, <1>11, <1>13 DEF WholeInv
LEMMA WriteReleaseKeepsWhole ==
    ASSUME WholeInv, NEW b \in Builders, WriteRelease(b) PROVE WholeInv'
<1> DEFINE n  == builder[b].next
           f  == ReleaseFiles[n]
           pc == IF n = N THEN "done" ELSE "write"
<1>0. BuilderShape
  BY DEF WholeInv
<1>1. /\ builder[b].pc = "write" /\ builder[b].left = {}
      /\ release' = [release EXCEPT ![f] = b] /\ evidence' = evidence
  BY DEF WriteRelease, At
<1>2. builder[b].made = "yes"
  BY <1>1 DEF WholeInv, Stages
<1>3. Only(b) /\ builder'[b].pc = pc /\ builder'[b].made = builder[b].made
      /\ builder'[b].left = {} /\ builder'[b].next = n + 1
  BY <1>0, <1>1, WriteReleaseEffect
<1>4. n \in 1..N /\ f \in FileSet
  <2>1. n \in 1..(N + 1) /\ n <= N
    BY <1>1 DEF WholeInv, BuilderShape, InOrder
  <2> QED BY <2>1, FilesAreInOrder DEF FileSet
<1> HIDE DEF pc
<1>5. /\ builder'[b].pc = pc /\ IsBuilder(builder'[b])
      /\ \A d \in Builders \ {b} : builder'[d] = builder[d]
      /\ builder' = [d \in Builders |-> builder'[d]]
  BY <1>3 DEF Only
<1>6. n + 1 \in 1..(N + 1)
  BY <1>4, FilesAreInOrder
<1>7. BuilderShape'
  BY <1>3, <1>5, <1>6 DEF WholeInv, BuilderShape
<1>8. \A d \in Builders : builder'[d].made = builder[d].made
  BY <1>3, <1>5
<1>9. pc \in {"write", "done"}
  BY DEF pc
<1>10. /\ release' = [g \in FileSet |-> release'[g]]
       /\ \A g \in FileSet : release'[g] = IF g = f THEN b ELSE release[g]
  BY <1>1 DEF WholeInv, Stages, Early
<1>11. Stages'
  <2>1. evidence' = [c \in Cells |-> evidence'[c]]
    BY <1>1 DEF WholeInv, Stages, Early
  <2>2. ASSUME NEW d \in Builders
        PROVE  /\ builder'[d].pc \in Early \cup {"write", "done", "refused", "dead"}
               /\ builder'[d].made \in {"yes", "no"}
               /\ builder'[d].pc \in {"write", "done"} => builder'[d].made = "yes"
               /\ builder'[d].pc \in Early \cup {"refused"} => builder'[d].made = "no"
               /\ builder'[d].pc \in Early => builder'[d].next = 1
    BY <1>2, <1>3, <1>5, <1>9 DEF WholeInv, Stages, Early
  <2> QED BY <1>10, <2>1, <2>2 DEF Stages
<1>12. OneMaker'
  BY <1>8 DEF WholeInv, OneMaker
<1>13. MadeByIt'
  BY <1>1, <1>2, <1>8, <1>10 DEF WholeInv, MadeByIt
<1>14. \A d \in Builders : builder'[d].pc \in {"write", "done"} => d = b
  BY <1>2, <1>5 DEF WholeInv, Stages, OneMaker
<1>15. InOrder'
  <2>1. \A c \in Cells \ builder'[b].left : evidence'[c] = b
    BY <1>1, <1>3, <1>5 DEF WholeInv, InOrder
  <2>2. \A i \in 1..N : i < builder'[b].next => release'[ReleaseFiles[i]] = b
    <3> SUFFICES ASSUME NEW i \in 1..N, i < n + 1 PROVE release'[ReleaseFiles[i]] = b
      BY <1>3, <1>5
    <3>1. ReleaseFiles[i] \in FileSet
      BY DEF FileSet
    <3>2. CASE i = n
      BY <3>1, <3>2, <1>10
    <3>3. CASE i < n
      BY <1>1, <3>1, <3>3, <1>10 DEF WholeInv, InOrder
    <3> QED BY <3>2, <3>3, <1>4, FilesAreInOrder
  <2>3. builder'[b].left = {}
    BY <1>3, <1>5
  <2>4. /\ builder'[b].pc = "write" => builder'[b].next <= N
        /\ builder'[b].pc = "done" => builder'[b].next = N + 1
    BY <1>3, <1>4, <1>5, FilesAreInOrder DEF pc
  <2>5. ASSUME NEW d \in Builders, release'["github-artifacts"] = d
        PROVE  builder'[d].pc = "done"
    <3>1. "github-artifacts" \in FileSet
      BY FilesAreInOrder DEF FileSet
    <3>2. CASE f = "github-artifacts"
      <4>1. d = b
        BY <2>5, <3>1, <3>2, <1>10
      <4>2. n = N
        BY <3>2, <1>4, FilesAreInOrder
      <4> QED BY <4>1, <4>2, <1>5 DEF pc
    <3>3. CASE f # "github-artifacts"
      <4>1. release["github-artifacts"] = d
        BY <2>5, <3>1, <3>3, <1>10
      <4>2. builder[d].pc = "done"
        BY <4>1 DEF WholeInv, InOrder
      <4> QED BY <4>2, <1>1, <1>5
    <3> QED BY <3>2, <3>3
  <2> QED BY <1>14, <2>1, <2>2, <2>3, <2>4, <2>5 DEF InOrder
<1> QED BY <1>7, <1>11, <1>12, <1>13, <1>15 DEF WholeInv

\* A builder dies, and may leave half a file behind.
LEMMA BuilderDiesKeepsWhole ==
    ASSUME WholeInv, NEW b \in Builders, BuilderDies(b) PROVE WholeInv'
<1>0. BuilderShape
  BY DEF WholeInv
<1>1. builder[b].pc \in {"start", "digest", "assemble", "write"}
  BY DEF BuilderDies
<1>2. Only(b) /\ builder'[b].pc = "dead" /\ Keeps(builder'[b], builder[b])
  BY <1>0, BuilderDiesEffect
<1>3. /\ builder'[b].pc = "dead" /\ IsBuilder(builder'[b])
      /\ builder'[b].made = builder[b].made
      /\ builder'[b].next = builder[b].next
      /\ \A d \in Builders \ {b} : builder'[d] = builder[d]
      /\ builder' = [d \in Builders |-> builder'[d]]
  BY <1>2 DEF Only, Keeps
<1>4. /\ evidence' = [c \in Cells |-> evidence'[c]]
      /\ \A c \in Cells : evidence'[c] \in {evidence[c], Torn}
      /\ evidence' # evidence => builder[b].pc = "write"
  BY DEF BuilderDies, WholeInv, Stages, At
<1>5. /\ release' = [f \in FileSet |-> release'[f]]
      /\ \A f \in FileSet : release'[f] \in {release[f], Torn}
      /\ release' # release => builder[b].pc = "write"
  BY DEF BuilderDies, WholeInv, Stages, At
<1>6. BuilderShape'
  BY <1>3 DEF WholeInv, BuilderShape
<1>7. Stages'
  BY <1>3, <1>4, <1>5 DEF WholeInv, Stages, Early
<1>8. \A d \in Builders : builder'[d].made = builder[d].made
  BY <1>3
<1>9. OneMaker'
  BY <1>8 DEF WholeInv, OneMaker
<1>10. MadeByIt'
  BY <1>4, <1>5, <1>8 DEF WholeInv, MadeByIt
<1>11. ASSUME NEW d \in Builders, builder'[d].pc \in {"write", "done"}
       PROVE  /\ d # b /\ builder'[d] = builder[d]
              /\ evidence' = evidence /\ release' = release
  <2>1. d # b /\ builder'[d] = builder[d]
    BY <1>3, <1>11
  <2>2. builder[b].pc # "write"
    BY <1>11, <2>1 DEF WholeInv, Stages, OneMaker
  <2> QED BY <2>1, <2>2, <1>4, <1>5
<1>12. "github-artifacts" \in FileSet
  BY FilesAreInOrder DEF FileSet
<1>13. ASSUME NEW d \in Builders, release'["github-artifacts"] = d
       PROVE  builder'[d].pc = "done"
  <2>1. release["github-artifacts"] = d
    BY <1>5, <1>12, <1>13, FilesAreInOrder
  <2>2. builder[d].pc = "done"
    BY <2>1 DEF WholeInv, InOrder
  <2> QED BY <2>2, <1>1, <1>3
<1>14. InOrder'
  BY <1>11, <1>13 DEF WholeInv, InOrder
<1> QED BY <1>6, <1>7, <1>9, <1>10, <1>14 DEF WholeInv

LEMMA WholeStep == WholeInv /\ [Next]_vars => WholeInv'
<1> SUFFICES ASSUME WholeInv, [Next]_vars PROVE WholeInv'
  OBVIOUS
<1>0. BuilderShape
  BY DEF WholeInv
<1>1. CASE UNCHANGED <<builder, evidence, release>>
  BY <1>1 DEF WholeInv, BuilderShape, Stages, OneMaker, MadeByIt, InOrder, IsBuilder
<1>2. ASSUME NEW b \in Builders, BuildStep(b) PROVE WholeInv'
  <2>1. CASE ExportRun(b)
    BY <1>0, <2>1, ExportRunEffect, EarlyStep DEF Early, ExportRun
  <2>2. CASE ExportArtifacts(b)
    BY <1>0, <2>2, ExportArtifactsEffect, EarlyStep DEF Early, ExportArtifacts
  <2>3. CASE Collect(b)
    <3>1. Only(b) /\ builder[b].pc = "start" /\ builder'[b].pc \in {"refused", "digest"}
          /\ builder'[b].made = builder[b].made /\ builder'[b].next = builder[b].next
      BY <1>0, <2>3, CollectEffect
    <3> QED BY <2>3, <3>1, EarlyStep DEF Early, Collect
  <2>4. CASE Digest(b)
    BY <1>0, <2>4, DigestEffect, EarlyStep DEF Early, Digest
  <2>5. CASE Assemble(b)
    <3>1. Only(b) /\ builder[b].pc = "assemble" /\ builder'[b].next = builder[b].next
          /\ \/ builder'[b].pc = "refused" /\ builder'[b].made = builder[b].made
             \/ /\ builder'[b].pc = "write" /\ builder'[b].made = "yes"
                /\ builder'[b].left = Cells
                /\ \A other \in Builders : builder[other].made # "yes"
      BY <1>0, <2>5, AssembleEffect
    <3>2. UNCHANGED <<evidence, release>>
      BY <2>5 DEF Assemble
    <3>3. CASE builder'[b].pc = "refused" /\ builder'[b].made = builder[b].made
      BY <3>1, <3>2, <3>3, EarlyStep DEF Early
    <3>4. CASE builder'[b].pc # "refused"
      BY <3>1, <3>2, <3>4, MakesTheDirectory
    <3> QED BY <3>1, <3>3, <3>4
  <2>6. CASE WriteEvidence(b)
    BY <2>6, WriteEvidenceKeepsWhole
  <2>7. CASE WriteRelease(b)
    BY <2>7, WriteReleaseKeepsWhole
  <2>8. CASE BuilderDies(b)
    BY <2>8, BuilderDiesKeepsWhole
  <2> QED BY <1>2, <2>1, <2>2, <2>3, <2>4, <2>5, <2>6, <2>7, <2>8 DEF BuildStep
<1>3. CASE EditCheckout
  BY <1>1, <1>3 DEF EditCheckout
<1>4. CASE GatewayNext /\ UNCHANGED assemblyVars
  BY <1>1, <1>4 DEF assemblyVars
<1> QED BY <1>1, <1>2, <1>3, <1>4 DEF Next, vars, assemblyVars

LEMMA WholeInvImplies == WholeInv => ReleaseIsWhole
<1> SUFFICES ASSUME WholeInv PROVE ReleaseIsWhole
  OBVIOUS
<1>1. DOMAIN release = FileSet
  BY DEF WholeInv, Stages
<1>2. "github-artifacts" \in FileSet
  BY FilesAreInOrder DEF FileSet
<1>3. \A d \in Written \cap Builders : builder[d].made = "yes"
  BY <1>1, FilesAreInOrder DEF Written, WholeInv, MadeByIt
<1>4. Cardinality(Written \cap Builders) <= 1
  <2>1. CASE Written \cap Builders = {}
    BY <2>1, FS_EmptySet
  <2>2. CASE Written \cap Builders # {}
    <3>1. PICK d : d \in Written \cap Builders
      BY <2>2
    <3>2. Written \cap Builders = {d}
      BY <1>3, <3>1 DEF WholeInv, OneMaker
    <3> QED BY <3>2, FS_Singleton
  <2> QED BY <2>1, <2>2
<1>5. ASSUME NEW b \in Builders, builder[b].pc = "done"
      PROVE  Written = {b}
  <2>1. builder[b].next = N + 1 /\ builder[b].left = {}
    BY <1>5, FilesAreInOrder DEF WholeInv, InOrder
  <2>2. \A c \in Cells : evidence[c] = b
    BY <1>5, <2>1 DEF WholeInv, InOrder
  <2>3. \A i \in 1..N : i < N + 1
    BY FilesAreInOrder
  <2>4. \A f \in FileSet : release[f] = b
    BY <1>5, <2>1, <2>3, FilesAreInOrder DEF WholeInv, InOrder
  <2> QED BY <1>1, <1>2, <2>2, <2>4 DEF Written
<1>6. \A b \in Builders : builder[b].pc = "refused" => b \notin Written
  BY <1>3 DEF WholeInv, Stages
<1>7. release["github-artifacts"] \in Builders =>
        builder[release["github-artifacts"]].pc = "done"
  BY DEF WholeInv, InOrder
<1> QED BY <1>4, <1>5, <1>6, <1>7 DEF ReleaseIsWhole, At

\* What stands under a release id is the work of one builder alone, however many
\* are at work and wherever they die: mkdir lets one of them in, and
\* github-artifacts.json is the last file it writes.
\* assemble_public_terminal_release and release_artifacts.write.
THEOREM ReleasesAreWhole == Spec => []ReleaseIsWhole
<1>1. Spec => []WholeInv
  BY WholeInit, WholeStep, PTL DEF Spec
<1> QED BY <1>1, WholeInvImplies, PTL
-----------------------------------------------------------------------------
(***************************************************************************)
(* A job, step by step                                                     *)
(***************************************************************************)
IsRun(r) ==
    r = [id |-> r.id, event |-> r.event, commit |-> r.commit,
         attempt |-> r.attempt, passed |-> r.passed]

IsJob(j) ==
    j = [cell |-> j.cell, pc |-> j.pc, ok |-> j.ok, raw |-> j.raw, public |-> j.public,
         search |-> j.search, doc |-> j.doc, envelope |-> j.envelope]

\* A job that has moved on, and perhaps failed.
Same(new, j) ==
    /\ IsJob(new) /\ new.cell = j.cell /\ new.raw = j.raw /\ new.public = j.public
    /\ new.search = j.search /\ new.doc = j.doc /\ new.envelope = j.envelope

LEMMA GotoEffect ==
    ASSUME NEW j, IsJob(j), NEW pc, Goto(pc, j)
    PROVE  Same(job', j) /\ job'.pc = pc /\ job'.ok = j.ok
  BY DEF Goto, IsJob, Same

LEMMA RaiseEffect ==
    ASSUME NEW j, IsJob(j), Raise(j)
    PROVE  Same(job', j) /\ job'.pc = "upload" /\ job'.ok = "no"
<1>1. PICK new : new = [j EXCEPT !.ok = "no"]
  OBVIOUS
<1>2. Same(new, j) /\ new.ok = "no"
  BY <1>1 DEF IsJob, Same
<1>3. Goto("upload", new) /\ IsJob(new)
  BY <1>1, <1>2 DEF Raise, Same
<1>4. Same(job', new) /\ job'.pc = "upload" /\ job'.ok = new.ok
  BY <1>3, GotoEffect
<1> QED BY <1>2, <1>4 DEF Same

LEMMA KeepEffect ==
    ASSUME NEW j, IsJob(j), NEW of, NEW content, NEW new, new = Keep(j, of, content)
    PROVE  /\ IsJob(new) /\ new.raw = j.raw \cup {File(of, content)}
           /\ new.cell = j.cell /\ new.pc = j.pc /\ new.ok = j.ok /\ new.public = j.public
           /\ new.search = j.search /\ new.doc = j.doc /\ new.envelope = j.envelope
<1>1. PICK raw : raw = j.raw \cup {File(of, content)}
  OBVIOUS
<1>2. new = [j EXCEPT !.raw = raw]
  BY <1>1 DEF Keep
<1> QED BY <1>1, <1>2 DEF IsJob

\* A job that gains files other than terminals, all of them whole or else it has failed.
Gains(new, j) ==
    /\ IsJob(new) /\ new.cell = j.cell
    /\ j.raw \subseteq new.raw
    /\ \A f \in new.raw : f \in j.raw \/ (f.of # "terminal" /\ (new.ok = "yes" => Intact(f)))

LEMMA FilesAreIntact ==
    ASSUME NEW of, NEW content
    PROVE  Intact(File(of, content)) /\ File(of, content).of = of
           /\ File(of, content).digest = content /\ File(of, content).content = content
  BY DEF Intact, File

LEMMA GainsOne ==
    ASSUME NEW j, NEW new, IsJob(new), new.cell = j.cell, NEW of, NEW content,
           of # "terminal", new.raw = j.raw \cup {File(of, content)}
    PROVE  Gains(new, j)
<1>1. ASSUME NEW f \in new.raw
      PROVE  f \in j.raw \/ (f.of # "terminal" /\ Intact(f))
  <2>1. CASE f \in j.raw
    BY <2>1
  <2>2. CASE f = File(of, content)
    BY <2>2 DEF Intact, File
  <2> QED BY <2>1, <2>2
<1> QED BY <1>1 DEF Gains

LEMMA GainsNone ==
    ASSUME NEW j, NEW new, IsJob(new), new.cell = j.cell, new.raw = j.raw
    PROVE  Gains(new, j)
  BY DEF Gains

LEMMA SearchEffect ==
    ASSUME IsJob(job), Search
    PROVE  /\ job.pc = "search" /\ Gains(job', job) /\ job'.public = job.public
           /\ \/ job'.pc = "upload" /\ job'.ok = "no"
              \/ job'.pc \in {"describe", "execute"} /\ job'.ok = job.ok
<1>1. job.pc = "search"
  BY DEF Search
<1>2. CASE Raise(job)
  BY <1>1, <1>2, RaiseEffect DEF Same, Gains
<1>3. CASE ~Raise(job)
  <2>1. PICK answer \in Searches :
          LET content == [answer EXCEPT !.id = <<@, run.id, run.attempt>>]
              kept    == Keep(job, "search", content)
          IN  IF answer.http >= 400 \/ answer.id = Absent THEN Incident /\ Raise(kept)
              ELSE Usual /\ Goto(IF Binding(job.cell).tool \in answer.tools
                        THEN "execute" ELSE "describe",
                        [kept EXCEPT !.search = content.id])
    BY <1>3 DEF Search
  <2>2. PICK content, kept, next, pc :
          /\ content = [answer EXCEPT !.id = <<@, run.id, run.attempt>>]
          /\ kept = Keep(job, "search", content)
          /\ next = [kept EXCEPT !.search = content.id]
          /\ pc = IF Binding(job.cell).tool \in answer.tools THEN "execute" ELSE "describe"
    OBVIOUS
  <2>3. IsJob(kept) /\ kept.raw = job.raw \cup {File("search", content)}
        /\ kept.cell = job.cell /\ kept.ok = job.ok /\ kept.public = job.public
    BY <2>2, KeepEffect
  <2>4. IsJob(next) /\ next.raw = kept.raw /\ next.cell = kept.cell /\ next.ok = kept.ok
        /\ next.public = kept.public
    BY <2>2, <2>3 DEF IsJob
  <2>5. Raise(kept) \/ Goto(pc, next)
    BY <2>1, <2>2
  <2>6. Intact(File("search", content)) /\ File("search", content).of = "search"
    BY FilesAreIntact
  <2>7. CASE Raise(kept)
    <3>1. Same(job', kept) /\ job'.pc = "upload" /\ job'.ok = "no"
      BY <2>3, <2>7, RaiseEffect
    <3> QED BY <1>1, <2>3, <2>6, <3>1 DEF Same, Gains
  <2>8. CASE Goto(pc, next)
    <3>1. Same(job', next) /\ job'.pc = pc /\ job'.ok = next.ok
      BY <2>4, <2>8, GotoEffect
    <3>2. job'.pc \in {"describe", "execute"}
      BY <2>2, <3>1
    <3>3. IsJob(job') /\ job'.cell = job.cell /\ job'.public = job.public
          /\ job'.raw = job.raw \cup {File("search", content)}
      BY <2>3, <2>4, <3>1 DEF Same
    <3>4. Gains(job', job)
      BY <3>3, GainsOne
    <3> QED BY <1>1, <2>3, <2>4, <3>1, <3>2, <3>3, <3>4
  <2> QED BY <2>5, <2>7, <2>8
<1> QED BY <1>2, <1>3

LEMMA DescribeEffect ==
    ASSUME IsJob(job), Describe
    PROVE  /\ job.pc = "describe" /\ Gains(job', job) /\ job'.public = job.public
           /\ \/ job'.pc = "upload" /\ job'.ok = "no"
              \/ job'.pc = "execute" /\ job'.ok = job.ok
<1>1. job.pc = "describe"
  BY DEF Describe
<1>2. CASE Raise(job)
  BY <1>1, <1>2, RaiseEffect DEF Same, Gains
<1>3. CASE ~Raise(job)
  <2>1. PICK tools \in {{}, {Binding(job.cell).tool}} :
          LET kept == Keep(job, "describe", [tools |-> tools])
          IN  IF tools = {} THEN Incident /\ Raise(kept) ELSE Usual /\ Goto("execute", kept)
    BY <1>3 DEF Describe
  <2>2. PICK content, kept : content = [tools |-> tools] /\ kept = Keep(job, "describe", content)
    OBVIOUS
  <2>3. IsJob(kept) /\ kept.raw = job.raw \cup {File("describe", content)}
        /\ kept.cell = job.cell /\ kept.ok = job.ok /\ kept.public = job.public
    BY <2>2, KeepEffect
  <2>4. Raise(kept) \/ Goto("execute", kept)
    BY <2>1, <2>2
  <2>5. Intact(File("describe", content)) /\ File("describe", content).of = "describe"
    BY FilesAreIntact
  <2>6. CASE Raise(kept)
    <3>1. Same(job', kept) /\ job'.pc = "upload" /\ job'.ok = "no"
      BY <2>3, <2>6, RaiseEffect
    <3> QED BY <1>1, <2>3, <2>5, <3>1 DEF Same, Gains
  <2>7. CASE Goto("execute", kept)
    <3>1. Same(job', kept) /\ job'.pc = "execute" /\ job'.ok = kept.ok
      BY <2>3, <2>7, GotoEffect
    <3>2. IsJob(job') /\ job'.cell = job.cell /\ job'.public = job.public
          /\ job'.raw = job.raw \cup {File("describe", content)}
      BY <2>3, <3>1 DEF Same
    <3>3. Gains(job', job)
      BY <3>2, GainsOne
    <3> QED BY <1>1, <2>3, <3>1, <3>2, <3>3
  <2> QED BY <2>4, <2>6, <2>7
<1> QED BY <1>2, <1>3

LEMMA ExecuteEffect ==
    ASSUME IsJob(job), Execute
    PROVE  /\ job.pc = "execute" /\ Gains(job', job) /\ job'.public = job.public
           /\ executed \subseteq executed'
           /\ \/ job'.pc = "upload" /\ job'.ok = "no"
              \/ /\ job'.pc = "envelope" /\ job'.ok = job.ok /\ job'.search = job.search
                 /\ job'.doc \in Answers(cap, job.cell)
                 /\ File("execute", job'.doc) \in job'.raw
                 /\ [run |-> run.id, cell |-> job.cell, doc |-> job'.doc,
                     call |-> Call(job.cell, job.search)] \in executed'
<1>1. job.pc = "execute"
  BY DEF Execute
<1>2. CASE Raise(job) /\ UNCHANGED executed
  BY <1>1, <1>2, RaiseEffect DEF Same, Gains
<1>3. CASE ~(Raise(job) /\ UNCHANGED executed)
  <2>1. PICK doc \in Answers(cap, job.cell) :
          LET kept == [Keep(job, "execute", doc) EXCEPT !.doc = doc]
          IN  /\ executed' = executed \cup
                    {[run |-> run.id, cell |-> job.cell, doc |-> doc,
                      call |-> Call(job.cell, job.search)]}
              /\ Goto("envelope", kept)
    BY <1>3 DEF Execute
  <2>2. PICK file, kept : /\ file = Keep(job, "execute", doc)
                          /\ kept = [file EXCEPT !.doc = doc]
    OBVIOUS
  <2>3. IsJob(file) /\ file.raw = job.raw \cup {File("execute", doc)}
        /\ file.cell = job.cell /\ file.ok = job.ok /\ file.public = job.public
        /\ file.search = job.search
    BY <2>2, KeepEffect
  <2>4. IsJob(kept) /\ kept.raw = file.raw /\ kept.cell = file.cell /\ kept.ok = file.ok
        /\ kept.public = file.public /\ kept.search = file.search /\ kept.doc = doc
    BY <2>2, <2>3 DEF IsJob
  <2>6. Same(job', kept) /\ job'.pc = "envelope" /\ job'.ok = kept.ok
    BY <2>1, <2>2, <2>4, GotoEffect
  <2>7. job'.doc = doc /\ job'.raw = job.raw \cup {File("execute", doc)}
        /\ IsJob(job') /\ job'.cell = job.cell
    BY <2>3, <2>4, <2>6 DEF Same
  <2>8. Gains(job', job)
    BY <2>7, GainsOne
  <2>9. [run |-> run.id, cell |-> job.cell, doc |-> doc,
         call |-> Call(job.cell, job.search)] \in executed'
    BY <2>1
  <2> QED BY <1>1, <2>1, <2>3, <2>4, <2>6, <2>7, <2>8, <2>9 DEF Same
<1> QED BY <1>2, <1>3

LEMMA PersistEffect ==
    ASSUME IsJob(job), PersistEnvelope
    PROVE  /\ job.pc = "envelope" /\ Gains(job', job) /\ job'.public = job.public
           /\ job'.pc = "judge" /\ job'.ok = job.ok
           /\ job'.search = job.search /\ job'.doc = job.doc
           /\ job'.envelope = EnvelopeOf(job)
           /\ File("envelope", EnvelopeOf(job)) \in job'.raw
<1>1. PICK content, file, kept : /\ content = EnvelopeOf(job)
                                 /\ file = Keep(job, "envelope", content)
                                 /\ kept = [file EXCEPT !.envelope = content]
  OBVIOUS
<1>2. IsJob(file) /\ file.raw = job.raw \cup {File("envelope", content)}
      /\ file.cell = job.cell /\ file.ok = job.ok /\ file.public = job.public
      /\ file.search = job.search /\ file.doc = job.doc
  BY <1>1, KeepEffect
<1>3. IsJob(kept) /\ kept.raw = file.raw /\ kept.cell = file.cell /\ kept.ok = file.ok
      /\ kept.public = file.public /\ kept.search = file.search /\ kept.doc = file.doc
      /\ kept.envelope = content
  BY <1>1, <1>2 DEF IsJob
<1>5. job.pc = "envelope" /\ Goto("judge", kept)
  BY <1>1 DEF PersistEnvelope
<1>6. Same(job', kept) /\ job'.pc = "judge" /\ job'.ok = kept.ok
  BY <1>3, <1>5, GotoEffect
<1>7. Gains(job', job)
  <2>1. IsJob(job') /\ job'.cell = job.cell
        /\ job'.raw = job.raw \cup {File("envelope", content)}
    BY <1>2, <1>3, <1>6 DEF Same
  <2> QED BY <2>1, GainsOne
<1> QED BY <1>1, <1>2, <1>3, <1>5, <1>6, <1>7 DEF Same

LEMMA JudgeEffect ==
    ASSUME IsJob(job), Judge
    PROVE  /\ job.pc = "judge" /\ Gains(job', job) /\ job'.raw = job.raw
           /\ job'.pc = "upload"
           /\ \/ job'.ok = "no" /\ job'.public = job.public
              \/ job'.ok = job.ok /\ job'.public = {File("terminal", TerminalOf(job))}
<1>1. job.pc = "judge"
  BY DEF Judge
<1>2. CASE Raise(job)
  BY <1>1, <1>2, RaiseEffect DEF Same, Gains
<1>3. CASE ~Raise(job)
  <2>1. PICK posted, new : /\ posted = {File("terminal", TerminalOf(job))}
                           /\ new = [job EXCEPT !.public = posted]
    OBVIOUS
  <2>2. Goto("upload", new)
    BY <1>3, <2>1 DEF Judge
  <2>3. IsJob(new) /\ new.raw = job.raw /\ new.cell = job.cell /\ new.ok = job.ok
        /\ new.public = posted
    BY <2>1 DEF IsJob
  <2>4. Same(job', new) /\ job'.pc = "upload" /\ job'.ok = new.ok
    BY <2>2, <2>3, GotoEffect
  <2>5. Gains(job', job)
    <3>1. IsJob(job') /\ job'.cell = job.cell /\ job'.raw = job.raw
      BY <2>3, <2>4 DEF Same
    <3> QED BY <3>1, GainsNone
  <2> QED BY <1>1, <2>1, <2>3, <2>4, <2>5 DEF Same
<1> QED BY <1>2, <1>3

LEMMA CancelEffect ==
    ASSUME IsJob(job), Cancel
    PROVE  /\ job.pc # "upload" /\ Gains(job', job)
           /\ job'.pc = "upload" /\ job'.ok = "no"
           /\ \/ job'.public = job.public
              \/ /\ job.pc = "judge"
                 /\ job'.public = {TornFile("terminal", TerminalOf(job))}
<1>1. PICK failed : failed = [job EXCEPT !.ok = "no"]
  OBVIOUS
<1>2. Same(failed, job) /\ failed.ok = "no"
  BY <1>1 DEF IsJob, Same
<1>3. job.pc # "upload" /\ IsJob(failed)
  BY <1>2 DEF Cancel, Same
<1>4. CASE Goto("upload", failed)
  <2>1. Same(job', failed) /\ job'.pc = "upload" /\ job'.ok = "no"
    BY <1>2, <1>3, <1>4, GotoEffect
  <2> QED BY <1>2, <1>3, <2>1 DEF Same, Gains
<1>5. CASE Goto("upload", [failed EXCEPT !.raw = @ \cup {TornFile("envelope", EnvelopeOf(job))}])
  <2>1. PICK file, raw, new : /\ file = TornFile("envelope", EnvelopeOf(job))
                              /\ raw = failed.raw \cup {file}
                              /\ new = [failed EXCEPT !.raw = raw]
    OBVIOUS
  <2>2. file.of = "envelope"
    BY <2>1 DEF TornFile
  <2>3. IsJob(new) /\ new.raw = raw /\ new.cell = failed.cell /\ new.ok = failed.ok
        /\ new.public = failed.public
    BY <1>3, <2>1 DEF IsJob
  <2>4. Goto("upload", new)
    BY <1>5, <2>1
  <2>5. Same(job', new) /\ job'.pc = "upload" /\ job'.ok = new.ok
    BY <2>3, <2>4, GotoEffect
  <2>6. Gains(job', job)
    BY <1>2, <2>1, <2>2, <2>3, <2>5 DEF Same, Gains
  <2> QED BY <1>2, <1>3, <2>3, <2>5, <2>6 DEF Same
<1>6. CASE /\ job.pc = "judge"
           /\ Goto("upload", [failed EXCEPT !.public = {TornFile("terminal", TerminalOf(job))}])
  <2>1. PICK posted, new : /\ posted = {TornFile("terminal", TerminalOf(job))}
                           /\ new = [failed EXCEPT !.public = posted]
    OBVIOUS
  <2>2. IsJob(new) /\ new.raw = failed.raw /\ new.cell = failed.cell /\ new.ok = failed.ok
        /\ new.public = posted
    BY <1>3, <2>1 DEF IsJob
  <2>3. Goto("upload", new)
    BY <1>6, <2>1
  <2>4. Same(job', new) /\ job'.pc = "upload" /\ job'.ok = new.ok
    BY <2>2, <2>3, GotoEffect
  <2>5. Gains(job', job)
    BY <1>2, <2>2, <2>4 DEF Same, Gains
  <2> QED BY <1>2, <1>3, <1>6, <2>1, <2>2, <2>4, <2>5 DEF Same
<1>7. \/ Goto("upload", failed)
      \/ Goto("upload", [failed EXCEPT !.raw = @ \cup {TornFile("envelope", EnvelopeOf(job))}])
      \/ /\ job.pc = "judge"
         /\ Goto("upload", [failed EXCEPT !.public = {TornFile("terminal", TerminalOf(job))}])
  BY <1>1 DEF Cancel
<1> QED BY <1>4, <1>5, <1>6, <1>7
LEMMA LaunchEffect ==
    ASSUME IsRun(run), Launch
    PROVE  /\ job = NoJob /\ todo = {} /\ UNCHANGED <<cap, job, artifacts, executed>>
           /\ IsRun(run') /\ todo' = Cells \ run'.passed
           /\ \/ /\ run'.id = run.id + 1 /\ run'.commit \in Commits
                 /\ run'.attempt = 1 /\ run'.passed = {}
                 /\ run.id = 0 \/ Incident
                 /\ Usual \/ Incident
              \/ /\ run.id > 0 /\ run.passed # Cells /\ Incident
                 /\ run'.id = run.id /\ run'.event = run.event /\ run'.commit = run.commit
                 /\ run'.attempt = run.attempt + 1 /\ run'.passed = run.passed
<1>1. /\ job = NoJob /\ todo = {} /\ UNCHANGED <<cap, job, artifacts, executed>>
      /\ todo' = Cells \ run'.passed
  BY DEF Launch
<1>2. ASSUME NEW commit \in Commits, NEW event \in {"workflow_dispatch", "pull_request"},
             run' = NewRun(run.id + 1, commit, event),
             IF run.id = 0 /\ event = "workflow_dispatch" THEN Usual ELSE Incident
      PROVE  /\ IsRun(run') /\ run'.id = run.id + 1 /\ run'.commit \in Commits
             /\ run'.attempt = 1 /\ run'.passed = {}
             /\ run.id = 0 \/ Incident
             /\ Usual \/ Incident
  BY <1>2 DEF NewRun, IsRun
<1>3. ASSUME run.id > 0, run.passed # Cells, Incident, run' = [run EXCEPT !.attempt = @ + 1]
      PROVE  /\ IsRun(run') /\ run'.id = run.id /\ run'.event = run.event
             /\ run'.commit = run.commit
             /\ run'.attempt = run.attempt + 1 /\ run'.passed = run.passed
  <2>1. PICK r, next : r = run /\ next = run.attempt + 1
    OBVIOUS
  <2>2. run' = [r EXCEPT !.attempt = next]
    BY <1>3, <2>1
  <2> QED BY <2>1, <2>2 DEF IsRun
<1>4. \/ \E commit \in Commits, event \in {"workflow_dispatch", "pull_request"} :
            /\ run' = NewRun(run.id + 1, commit, event)
            /\ IF run.id = 0 /\ event = "workflow_dispatch" THEN Usual ELSE Incident
      \/ /\ run.id > 0 /\ run.passed # Cells /\ Incident
         /\ run' = [run EXCEPT !.attempt = @ + 1]
  BY DEF Launch
<1> QED BY <1>1, <1>2, <1>3, <1>4

LEMMA StartJobEffect ==
    ASSUME StartJob
    PROVE  /\ UNCHANGED <<cap, run, artifacts, executed, incidents>>
           /\ \E cell \in todo :
                 /\ todo' = todo \ {cell} /\ IsJob(job') /\ job'.cell = cell
                 /\ job'.raw = {} /\ job'.public = {}
                 /\ \/ /\ job'.pc = "search" /\ job'.ok = "yes"
                       /\ IdentityBound(cap, CaseOf(cap, cell), Binding(cell))
                    \/ job'.pc = "upload" /\ job'.ok = "no"
<1>1. PICK cell \in todo : todo' = todo \ {cell} /\ job' = NewJob(cell)
  BY DEF StartJob
<1>2. /\ IsJob(job') /\ job'.cell = cell /\ job'.raw = {} /\ job'.public = {}
      /\ \/ /\ job'.pc = "search" /\ job'.ok = "yes"
            /\ IdentityBound(cap, CaseOf(cap, cell), Binding(cell))
         \/ job'.pc = "upload" /\ job'.ok = "no"
  BY <1>1 DEF NewJob, IsJob
<1> QED BY <1>1, <1>2 DEF StartJob, Usual

\* What Upload makes of the artifacts: rows of this run's job and no others.
Offered(kind) == Row(<<kind, job.cell>>, IF kind = "public" THEN job.public ELSE job.raw)

LEMMA UploadEffect ==
    ASSUME IsRun(run), Upload
    PROVE  /\ UNCHANGED <<cap, todo, executed, incidents>>
           /\ job # NoJob /\ job.pc = "upload" /\ job' = NoJob
           /\ IsRun(run') /\ run'.id = run.id /\ run'.event = run.event
           /\ run'.commit = run.commit /\ run'.attempt = run.attempt
           /\ artifacts \subseteq artifacts'
           /\ artifacts' \subseteq artifacts \cup {Offered("public"), Offered("private")}
           /\ \/ run'.passed = run.passed
              \/ /\ run'.passed = run.passed \cup {job.cell} /\ job.ok = "yes"
                 /\ Offered("public") \in artifacts' /\ Offered("private") \in artifacts'
<1> DEFINE rows  == {Offered(kind) : kind \in {"public", "private"}}
           full  == {r \in rows : r.entries # {}}
           taken == {r \in full : \E a \in artifacts : a.run = r.run /\ a.name = r.name}
<1>1. PICK refused \in {{}, taken} :
         /\ artifacts' = artifacts \cup (full \ refused)
         /\ run' = IF job.ok = "yes" /\ full = rows /\ refused = {}
                   THEN [run EXCEPT !.passed = @ \cup {job.cell}] ELSE run
  BY DEF Upload, Offered
<1>2. rows = {Offered("public"), Offered("private")}
  OBVIOUS
<1>3. full \subseteq rows
  OBVIOUS
<1> HIDE DEF rows, full, taken
<1>4. /\ artifacts \subseteq artifacts'
      /\ artifacts' \subseteq artifacts \cup {Offered("public"), Offered("private")}
  BY <1>1, <1>2, <1>3
<1>5. CASE job.ok = "yes" /\ full = rows /\ refused = {}
  <2>1. PICK r, passed : r = run /\ passed = run.passed \cup {job.cell}
    OBVIOUS
  <2>2. run' = [r EXCEPT !.passed = passed]
    BY <1>1, <1>5, <2>1
  <2>3. /\ IsRun(run') /\ run'.id = run.id /\ run'.event = run.event
        /\ run'.commit = run.commit /\ run'.attempt = run.attempt /\ run'.passed = passed
    BY <2>1, <2>2 DEF IsRun
  <2>4. Offered("public") \in artifacts' /\ Offered("private") \in artifacts'
    BY <1>1, <1>2, <1>5
  <2> QED BY <1>4, <1>5, <2>1, <2>3, <2>4 DEF Upload, Usual
<1>6. CASE ~(job.ok = "yes" /\ full = rows /\ refused = {})
  <2>1. run' = run
    BY <1>1, <1>6
  <2> QED BY <1>4, <2>1 DEF Upload, Usual, IsRun
<1> QED BY <1>5, <1>6

-----------------------------------------------------------------------------
(***************************************************************************)
(* Types                                                                   *)
(***************************************************************************)
JobTypes ==
    job # NoJob => IsJob(job) /\ job.cell \in Cells \ (todo \cup run.passed)

RunTypes ==
    /\ IsRun(run) /\ run.commit \in Commits
    /\ run.id \in 0..(incidents + 1) /\ run.attempt \in 0..(incidents + 1)
    /\ run.passed \subseteq Cells /\ todo \subseteq Cells \ run.passed

TypeInv ==
    /\ cap \in Caps /\ checkout \in Commits
    /\ incidents \in 0..MaxIncidents /\ edits \in 0..incidents
    /\ RunTypes /\ JobTypes

LEMMA TypeInit == Init => TypeInv
<1> SUFFICES ASSUME Init PROVE TypeInv
  OBVIOUS
<1> USE DEF Init, GatewayInit
<1>1. IsRun(run) /\ run.id = 0 /\ run.attempt = 0 /\ run.passed = {}
      /\ run.commit = CHOOSE c \in Commits : TRUE
  BY DEF IsRun
<1>2. run.commit \in Commits
  BY <1>1, GatewayOK DEF GatewayOK
<1> QED BY <1>1, <1>2, GatewayOK DEF TypeInv, RunTypes, JobTypes, GatewayOK

\* Every step is an incident or it is not, and nothing else happens to the counter.
LEMMA IncidentsStep ==
    ASSUME TypeInv, Usual \/ Incident
    PROVE  /\ incidents' \in 0..MaxIncidents
           /\ incidents' \in {incidents, incidents + 1}
           /\ Incident => incidents' = incidents + 1
  BY GatewayOK DEF TypeInv, Usual, Incident, GatewayOK

\* The job that runs is where it is; its run, the matrix and the cells are left alone.
LEMMA JobStepKeepsTypes ==
    ASSUME TypeInv, Usual \/ Incident, job # NoJob, IsJob(job'), job'.cell = job.cell,
           UNCHANGED <<cap, run, todo, checkout, edits>>
    PROVE  TypeInv'
<1>1. incidents' \in 0..MaxIncidents /\ incidents' \in {incidents, incidents + 1}
  BY IncidentsStep
<1>2. RunTypes'
  BY <1>1 DEF TypeInv, RunTypes
<1>3. JobTypes'
  BY DEF TypeInv, JobTypes
<1> QED BY <1>1, <1>2, <1>3 DEF TypeInv

LEMMA EveryStepCounts ==
    ASSUME GatewayNext PROVE Usual \/ Incident
  BY DEF GatewayNext, JobStep, Launch, StartJob, Search, Describe, Execute, PersistEnvelope,
         Judge, Upload, Cancel

LEMMA GatewayKeepsTypes ==
    ASSUME TypeInv, GatewayNext, UNCHANGED <<checkout, edits>> PROVE TypeInv'
<1>0. Usual \/ Incident
  BY EveryStepCounts
<1>1. incidents' \in 0..MaxIncidents /\ incidents' \in {incidents, incidents + 1}
      /\ (Incident => incidents' = incidents + 1)
  BY <1>0, IncidentsStep
<1>2. IsRun(run) /\ (job # NoJob => IsJob(job))
  BY DEF TypeInv, RunTypes, JobTypes
<1>3. CASE Launch
  <2>1. /\ job = NoJob /\ UNCHANGED <<cap, job>> /\ IsRun(run')
        /\ todo' = Cells \ run'.passed
    BY <1>2, <1>3, LaunchEffect
  <2>2. /\ run'.commit \in Commits
        /\ run'.id \in 0..(incidents' + 1) /\ run'.attempt \in 0..(incidents' + 1)
        /\ run'.passed \subseteq Cells
    <3>1. CASE /\ run'.id = run.id + 1 /\ run'.commit \in Commits
               /\ run'.attempt = 1 /\ run'.passed = {}
               /\ run.id = 0 \/ Incident
      <4>1. incidents \in Nat /\ incidents' \in Nat /\ run.id \in 0..(incidents + 1)
        BY <1>1, GatewayOK DEF TypeInv, RunTypes, GatewayOK
      <4>2. CASE run.id = 0
        <5>1. run'.id = 1 /\ run'.attempt = 1 /\ run'.passed = {} /\ run'.commit \in Commits
          BY <3>1, <4>2
        <5>2. ASSUME NEW i \in Nat PROVE 1 \in 0..(i + 1)
          OBVIOUS
        <5> QED BY <4>1, <5>1, <5>2
      <4>3. CASE Incident
        BY <1>1, <3>1, <4>1, <4>3
      <4> QED BY <3>1, <4>2, <4>3
    <3>2. CASE /\ Incident /\ run'.id = run.id /\ run'.commit = run.commit
               /\ run'.attempt = run.attempt + 1 /\ run'.passed = run.passed
      BY <1>1, <3>2 DEF TypeInv, RunTypes
    <3> QED BY <1>2, <1>3, <3>1, <3>2, LaunchEffect
  <2>3. RunTypes'
    BY <2>1, <2>2 DEF RunTypes
  <2>4. JobTypes'
    BY <2>1 DEF JobTypes
  <2> QED BY <1>1, <2>1, <2>3, <2>4 DEF TypeInv
<1>4. CASE StartJob
  <2>1. UNCHANGED <<cap, run, incidents>>
    BY <1>4, StartJobEffect
  <2>2. PICK cell \in todo : todo' = todo \ {cell} /\ IsJob(job') /\ job'.cell = cell
    BY <1>4, StartJobEffect
  <2>3. RunTypes'
    BY <2>1, <2>2 DEF TypeInv, RunTypes
  <2>4. JobTypes'
    BY <2>1, <2>2 DEF TypeInv, RunTypes, JobTypes
  <2> QED BY <2>1, <2>3, <2>4 DEF TypeInv
<1>5. CASE Upload
  <2>1. /\ UNCHANGED <<cap, todo, incidents>> /\ job # NoJob /\ job' = NoJob
        /\ IsRun(run') /\ run'.id = run.id /\ run'.commit = run.commit
        /\ run'.attempt = run.attempt
        /\ run'.passed \subseteq run.passed \cup {job.cell}
    BY <1>2, <1>5, UploadEffect
  <2>2. RunTypes'
    BY <2>1 DEF TypeInv, RunTypes, JobTypes
  <2>3. JobTypes'
    BY <2>1 DEF JobTypes
  <2> QED BY <2>1, <2>2, <2>3 DEF TypeInv
<1>6. CASE Search \/ Describe \/ Execute \/ PersistEnvelope \/ Judge \/ Cancel
  <2>1. job # NoJob /\ UNCHANGED <<cap, run, todo>>
    BY <1>6 DEF Search, Describe, Execute, PersistEnvelope, Judge, Cancel
  <2>2. Gains(job', job)
    BY <1>2, <1>6, <2>1, SearchEffect, DescribeEffect, ExecuteEffect, PersistEffect,
       JudgeEffect, CancelEffect
  <2>3. IsJob(job') /\ job'.cell = job.cell
    BY <2>2 DEF Gains
  <2> QED BY <1>0, <2>1, <2>3, JobStepKeepsTypes
<1> QED BY <1>3, <1>4, <1>5, <1>6 DEF GatewayNext, JobStep

LEMMA TypeStep == TypeInv /\ [Next]_vars => TypeInv'
<1> SUFFICES ASSUME TypeInv, [Next]_vars PROVE TypeInv'
  OBVIOUS
<1>1. CASE UNCHANGED vars
  BY <1>1 DEF TypeInv, RunTypes, JobTypes, vars, gatewayVars, assemblyVars
<1>2. CASE GatewayNext /\ UNCHANGED assemblyVars
  BY <1>2, GatewayKeepsTypes DEF assemblyVars
<1>3. ASSUME UNCHANGED gatewayVars, Usual \/ Incident,
             \/ UNCHANGED <<checkout, edits>>
             \/ Incident /\ checkout' \in Commits /\ edits' = edits + 1
      PROVE  TypeInv'
  <2>1. incidents' \in 0..MaxIncidents /\ incidents' \in {incidents, incidents + 1}
        /\ (Incident => incidents' = incidents + 1)
    BY <1>3, IncidentsStep
  <2>2. RunTypes'
    BY <1>3, <2>1 DEF TypeInv, RunTypes, gatewayVars
  <2>3. JobTypes'
    BY <1>3 DEF TypeInv, JobTypes, gatewayVars
  <2>4. edits' \in 0..incidents' /\ checkout' \in Commits
    BY <1>3, <2>1 DEF TypeInv
  <2> QED BY <1>3, <2>1, <2>2, <2>3, <2>4 DEF TypeInv, gatewayVars
<1>4. ASSUME NEW b \in Builders, BuildStep(b) PROVE TypeInv'
  <2>1. UNCHANGED gatewayVars /\ UNCHANGED <<checkout, edits>> /\ (Usual \/ Incident)
    BY <1>4 DEF BuildStep, ExportRun, ExportArtifacts, Collect, Digest, Assemble,
                WriteEvidence, WriteRelease, BuilderDies
  <2> QED BY <1>3, <2>1
<1>5. CASE EditCheckout
  <2>1. UNCHANGED gatewayVars /\ Incident /\ checkout' \in Commits /\ edits' = edits + 1
    BY <1>5 DEF EditCheckout
  <2> QED BY <1>3, <2>1
<1> QED BY <1>1, <1>2, <1>4, <1>5 DEF Next

\* The type invariant: runs and attempts are as many as incidents allow, a job's cell
\* is neither waiting nor passed, and every written file has a builder behind it or is
\* half a file.
THEOREM TypeCorrect == Spec => []AssemblyTypeOK
<1>1. TypeInv /\ WholeInv => AssemblyTypeOK
  <2> SUFFICES ASSUME TypeInv, WholeInv PROVE AssemblyTypeOK
    OBVIOUS
  <2>1. /\ cap \in Caps /\ incidents \in 0..MaxIncidents /\ edits \in 0..MaxIncidents
        /\ run.id \in 0..MaxIncidents + 1 /\ run.attempt \in 0..MaxIncidents + 1
        /\ run.passed \subseteq Cells /\ todo \subseteq Cells \ run.passed
        /\ checkout \in Commits
    BY GatewayOK DEF TypeInv, RunTypes, GatewayOK
  <2>2. job # NoJob => job.cell \notin todo \cup run.passed
    BY DEF TypeInv, JobTypes
  <2>3. evidence \in [Cells -> Writers]
    BY DEF WholeInv, Stages, MadeByIt, Writers
  <2>4. \A f \in DOMAIN release : release[f] \in Writers
    BY DEF WholeInv, Stages, MadeByIt, Writers
  <2>5. \A b \in Builders : builder[b].next \in 1..Len(ReleaseFiles) + 1
    BY DEF WholeInv, BuilderShape, N
  <2> QED BY <2>1, <2>2, <2>3, <2>4, <2>5 DEF AssemblyTypeOK
<1>2. Spec => []TypeInv
  BY TypeInit, TypeStep, PTL DEF Spec
<1>3. Spec => []WholeInv
  BY WholeInit, WholeStep, PTL DEF Spec
<1> QED BY <1>1, <1>2, <1>3, PTL
-----------------------------------------------------------------------------
(***************************************************************************)
(* What GitHub keeps of a run is what the gateway has answered in it       *)
(***************************************************************************)
\* A terminal that is the CAP's of an answer the gateway has given, in the run that the
\* terminal names, to the call that the commit's registry binds to its cell.
Genuine(t) ==
    /\ t.cell \in Cells /\ t.commit \in Commits
    /\ IdentityBound(cap, CaseOf(cap, t.cell), Registries[t.commit.registry][t.cell])
    /\ t.raw.response \in Answers(cap, t.cell)
    /\ t.raw.call.tool = Registries[t.commit.registry][t.cell].tool
    /\ t.raw.call.parameters = Registries[t.commit.registry][t.cell].parameters
    /\ \E e \in executed : /\ e.run = t.run /\ e.cell = t.cell
                           /\ e.call = t.raw.call /\ e.doc = t.raw.response
    /\ t.outcome = Evaluate(cap, CaseOf(cap, t.cell),
                            Registries[t.commit.registry][t.cell].identity,
                            PayloadOf(t.raw.response))

OfThisRun(t, c) == t.cell = c /\ t.run = run.id /\ t.commit = run.commit /\ Genuine(t)

\* What a job that has passed hands over.
Finished(posted, raw) ==
    \E f \in posted :
        /\ posted = {f} /\ Intact(f)
        /\ File("envelope", f.digest.raw) \in raw
        /\ File("execute", f.digest.raw.response) \in raw
        /\ \A g \in raw : Intact(g)

Asked ==
    /\ job.doc \in Answers(cap, job.cell)
    /\ File("execute", job.doc) \in job.raw
    /\ [run |-> run.id, cell |-> job.cell, doc |-> job.doc,
        call |-> Call(job.cell, job.search)] \in executed

JobOK ==
    job # NoJob =>
        /\ job.pc # "upload" => /\ job.public = {}
                                /\ IdentityBound(cap, CaseOf(cap, job.cell), Binding(job.cell))
        /\ job.pc \in {"envelope", "judge"} => Asked
        /\ job.pc = "judge" => /\ job.envelope = EnvelopeOf(job)
                               /\ File("envelope", EnvelopeOf(job)) \in job.raw
        /\ \A f \in job.public : f.of = "terminal" /\ OfThisRun(f.digest, job.cell)
        /\ \A f \in job.raw : f.of # "terminal" /\ (job.ok = "yes" => Intact(f))
        /\ job.pc = "upload" /\ job.ok = "yes" => Finished(job.public, job.raw)

ArtifactsOK ==
    \A a \in artifacts :
        /\ a.run \in Int /\ a.run <= run.id /\ a.name \in Names
        /\ \A f \in a.entries : f.of = "terminal" => Genuine(f.digest)
        /\ \A f \in a.entries : a.name[1] = "public" => f.of = "terminal"

KeptInv == TypeInv /\ JobOK /\ ArtifactsOK

LEMMA GenuineStays ==
    ASSUME NEW t, Genuine(t), cap' = cap, executed \subseteq executed'
    PROVE  Genuine(t)'
  BY DEF Genuine

LEMMA OfThisRunStays ==
    ASSUME NEW t, NEW c, OfThisRun(t, c), cap' = cap, run' = run, executed \subseteq executed'
    PROVE  OfThisRun(t, c)'
  BY GenuineStays DEF OfThisRun

\* A job that gains no terminal and fails.
LEMMA FailingKeepsJob ==
    ASSUME JobOK, job # NoJob, Gains(job', job), job'.pc = "upload", job'.ok = "no",
           job'.public = job.public, UNCHANGED <<cap, run>>, executed \subseteq executed'
    PROVE  JobOK'
<1>0. PICK c : c = job.cell /\ c = job'.cell
  BY DEF Gains
<1>1. \A f \in job'.public : f.of = "terminal" /\ OfThisRun(f.digest, c)
  BY <1>0 DEF JobOK
<1>2. ASSUME NEW f \in job'.public PROVE f.of = "terminal" /\ OfThisRun(f.digest, c)'
  BY <1>1, OfThisRunStays
<1>3. \A f \in job'.raw : f.of # "terminal"
  BY DEF JobOK, Gains
<1> QED BY <1>0, <1>2, <1>3 DEF JobOK

LEMMA StartJobKeepsJob == ASSUME TypeInv, StartJob PROVE JobOK'
<1>1. /\ UNCHANGED <<cap, run>>
      /\ job'.raw = {} /\ job'.public = {}
      /\ \/ /\ job'.pc = "search"
            /\ IdentityBound(cap, CaseOf(cap, job'.cell), Binding(job'.cell))
         \/ job'.pc = "upload" /\ job'.ok = "no"
  BY StartJobEffect
<1>2. job'.pc # "upload" => IdentityBound(cap, CaseOf(cap, job.cell), Binding(job.cell))'
  BY <1>1 DEF Binding
<1> QED BY <1>1, <1>2 DEF JobOK

\* A job that moves on to a later question.
LEMMA AskingKeepsJob ==
    ASSUME JobOK, job # NoJob, job.pc # "upload", Gains(job', job),
           job'.pc \in {"describe", "execute"}, job'.ok = job.ok,
           job'.public = job.public, UNCHANGED <<cap, run>>
    PROVE  JobOK'
<1>1. job'.public = {} /\ job'.cell = job.cell
  BY DEF JobOK, Gains
<1>2. IdentityBound(cap, CaseOf(cap, job.cell), Binding(job.cell))'
  BY <1>1 DEF JobOK, Binding
<1>3. \A f \in job'.raw : f.of # "terminal" /\ (job'.ok = "yes" => Intact(f))
  BY DEF JobOK, Gains
<1> QED BY <1>1, <1>2, <1>3 DEF JobOK

LEMMA ExecuteKeepsJob == ASSUME TypeInv, JobOK, job # NoJob, Execute PROVE JobOK'
<1>0. IsJob(job) /\ UNCHANGED <<cap, run>>
  BY DEF TypeInv, JobTypes, Execute
<1>1. /\ job.pc = "execute" /\ Gains(job', job) /\ job'.public = job.public
      /\ executed \subseteq executed'
  BY <1>0, ExecuteEffect
<1>2. CASE job'.pc = "upload" /\ job'.ok = "no"
  BY <1>0, <1>1, <1>2, FailingKeepsJob
<1>3. CASE ~(job'.pc = "upload" /\ job'.ok = "no")
  <2>1. /\ job'.pc = "envelope" /\ job'.ok = job.ok /\ job'.search = job.search
        /\ job'.doc \in Answers(cap, job.cell)
        /\ File("execute", job'.doc) \in job'.raw
        /\ [run |-> run.id, cell |-> job.cell, doc |-> job'.doc,
            call |-> Call(job.cell, job.search)] \in executed'
    BY <1>0, <1>3, ExecuteEffect
  <2>2. job'.public = {} /\ job'.cell = job.cell
    BY <1>1 DEF JobOK, Gains
  <2>3. IdentityBound(cap, CaseOf(cap, job.cell), Binding(job.cell))'
    BY <1>0, <1>1, <2>2 DEF JobOK, Binding
  <2>4. Asked'
    BY <1>0, <2>1, <2>2 DEF Asked, Call, Binding
  <2>5. \A f \in job'.raw : f.of # "terminal" /\ (job'.ok = "yes" => Intact(f))
    BY <1>1, <2>1 DEF JobOK, Gains
  <2> QED BY <2>1, <2>2, <2>3, <2>4, <2>5 DEF JobOK
<1> QED BY <1>2, <1>3

LEMMA PersistKeepsJob == ASSUME TypeInv, JobOK, job # NoJob, PersistEnvelope PROVE JobOK'
<1>0. IsJob(job) /\ UNCHANGED <<cap, run, executed>>
  BY DEF TypeInv, JobTypes, PersistEnvelope
<1>1. /\ job.pc = "envelope" /\ Gains(job', job) /\ job'.public = job.public
      /\ job'.pc = "judge" /\ job'.ok = job.ok
      /\ job'.search = job.search /\ job'.doc = job.doc
      /\ job'.envelope = EnvelopeOf(job)
      /\ File("envelope", EnvelopeOf(job)) \in job'.raw
  BY <1>0, PersistEffect
<1>2. job'.public = {} /\ job'.cell = job.cell /\ job.raw \subseteq job'.raw
  BY <1>1 DEF JobOK, Gains
<1>3. IdentityBound(cap, CaseOf(cap, job.cell), Binding(job.cell))'
  BY <1>0, <1>1, <1>2 DEF JobOK, Binding
<1>4. Asked'
  BY <1>0, <1>1, <1>2 DEF JobOK, Asked, Call, Binding
<1>5. EnvelopeOf(job)' = EnvelopeOf(job)
  BY <1>0, <1>1, <1>2 DEF EnvelopeOf, Call, Binding
<1>6. \A f \in job'.raw : f.of # "terminal" /\ (job'.ok = "yes" => Intact(f))
  BY <1>1 DEF JobOK, Gains
<1> QED BY <1>1, <1>2, <1>3, <1>4, <1>5, <1>6 DEF JobOK

\* The terminal of a job that has asked is what its answer says.
LEMMA TerminalIsGenuine ==
    ASSUME TypeInv, JobOK, job # NoJob, job.pc = "judge"
    PROVE  /\ OfThisRun(TerminalOf(job), job.cell)
           /\ TerminalOf(job).raw = EnvelopeOf(job)
           /\ TerminalOf(job).raw.response = job.doc
<1> DEFINE t == TerminalOf(job)
<1>1. Asked /\ job.envelope = EnvelopeOf(job) /\ job.cell \in Cells /\ run.commit \in Commits
      /\ IdentityBound(cap, CaseOf(cap, job.cell), Binding(job.cell))
  BY DEF JobOK, TypeInv, JobTypes, RunTypes
<1>2. /\ t.cell = job.cell /\ t.run = run.id /\ t.commit = run.commit
      /\ t.raw = EnvelopeOf(job)
      /\ t.outcome = Evaluate(cap, CaseOf(cap, job.cell), Binding(job.cell).identity,
                              PayloadOf(job.doc))
  BY <1>1 DEF TerminalOf
<1>3. t.raw.response = job.doc /\ t.raw.call = Call(job.cell, job.search)
  BY <1>2 DEF EnvelopeOf
<1>4. t.raw.call.tool = Binding(job.cell).tool
      /\ t.raw.call.parameters = Binding(job.cell).parameters
  BY <1>3 DEF Call
<1>5. \E e \in executed : /\ e.run = t.run /\ e.cell = t.cell
                          /\ e.call = t.raw.call /\ e.doc = t.raw.response
  BY <1>1, <1>2, <1>3 DEF Asked
<1>6. Genuine(t)
  BY <1>1, <1>2, <1>3, <1>4, <1>5 DEF Genuine, Asked, Binding
<1> QED BY <1>2, <1>3, <1>6 DEF OfThisRun

LEMMA JudgeKeepsJob == ASSUME TypeInv, JobOK, job # NoJob, Judge PROVE JobOK'
<1>0. IsJob(job) /\ UNCHANGED <<cap, run, executed>>
  BY DEF TypeInv, JobTypes, Judge
<1>1. /\ job.pc = "judge" /\ Gains(job', job) /\ job'.raw = job.raw
      /\ job'.pc = "upload"
  BY <1>0, JudgeEffect
<1>2. CASE job'.ok = "no" /\ job'.public = job.public
  BY <1>0, <1>1, <1>2, FailingKeepsJob
<1>3. CASE job'.ok = job.ok /\ job'.public = {File("terminal", TerminalOf(job))}
  <2>1. PICK t, c, f : t = TerminalOf(job) /\ c = job.cell /\ f = File("terminal", t)
    OBVIOUS
  <2>2. OfThisRun(t, c) /\ t.raw = EnvelopeOf(job) /\ t.raw.response = job.doc
    BY <1>1, <2>1, TerminalIsGenuine
  <2>3. f.of = "terminal" /\ f.digest = t /\ Intact(f)
    BY <2>1, FilesAreIntact
  <2>4. OfThisRun(t, c)'
    BY <1>0, <2>2, OfThisRunStays
  <2>5. job'.cell = c /\ job'.public = {f}
    BY <1>1, <1>3, <2>1 DEF Gains
  <2>6. \A g \in job'.raw : g.of # "terminal" /\ (job'.ok = "yes" => Intact(g))
    BY <1>1, <1>3 DEF JobOK
  <2>7. File("envelope", t.raw) \in job'.raw /\ File("execute", t.raw.response) \in job'.raw
    BY <1>1, <2>2 DEF JobOK, Asked
  <2>8. job'.ok = "yes" => Finished(job'.public, job'.raw)
    BY <2>3, <2>5, <2>6, <2>7 DEF Finished
  <2> QED BY <1>1, <2>3, <2>4, <2>5, <2>6, <2>8 DEF JobOK
<1> QED BY <1>0, <1>2, <1>3, JudgeEffect

LEMMA CancelKeepsJob == ASSUME TypeInv, JobOK, job # NoJob, Cancel PROVE JobOK'
<1>0. IsJob(job) /\ UNCHANGED <<cap, run, executed>>
  BY DEF TypeInv, JobTypes, Cancel
<1>1. Gains(job', job) /\ job'.pc = "upload" /\ job'.ok = "no"
  BY <1>0, CancelEffect
<1>2. CASE job'.public = job.public
  BY <1>0, <1>1, <1>2, FailingKeepsJob
<1>3. CASE job.pc = "judge" /\ job'.public = {TornFile("terminal", TerminalOf(job))}
  <2>1. PICK t, c, f : t = TerminalOf(job) /\ c = job.cell /\ f = TornFile("terminal", t)
    OBVIOUS
  <2>2. OfThisRun(t, c)
    BY <1>3, <2>1, TerminalIsGenuine
  <2>3. f.of = "terminal" /\ f.digest = t
    BY <2>1 DEF TornFile
  <2>4. OfThisRun(t, c)'
    BY <1>0, <2>2, OfThisRunStays
  <2>5. job'.cell = c /\ job'.public = {f}
    BY <1>1, <1>3, <2>1 DEF Gains
  <2>6. \A g \in job'.raw : g.of # "terminal"
    BY <1>1 DEF JobOK, Gains
  <2> QED BY <1>1, <2>3, <2>4, <2>5, <2>6 DEF JobOK
<1> QED BY <1>0, <1>2, <1>3, CancelEffect

\* The artifacts of a run that is over stay what they are.
LEMMA ArtifactsStay ==
    ASSUME ArtifactsOK, UNCHANGED <<cap, artifacts>>, executed \subseteq executed',
           run.id \in Int, run'.id \in Int, run'.id >= run.id
    PROVE  ArtifactsOK'
<1>1. ASSUME NEW a \in artifacts
      PROVE  /\ a.run \in Int /\ a.run <= run'.id /\ a.name \in Names
             /\ \A f \in a.entries : f.of = "terminal" => Genuine(f.digest)'
             /\ \A f \in a.entries : a.name[1] = "public" => f.of = "terminal"
  <2>1. /\ a.run \in Int /\ a.run <= run.id /\ a.name \in Names
        /\ \A f \in a.entries : f.of = "terminal" => Genuine(f.digest)
        /\ \A f \in a.entries : a.name[1] = "public" => f.of = "terminal"
    BY DEF ArtifactsOK
  <2>2. a.run <= run'.id
    BY <2>1
  <2>3. \A f \in a.entries : f.of = "terminal" => Genuine(f.digest)'
    BY <2>1, GenuineStays
  <2> QED BY <2>1, <2>2, <2>3
<1> QED BY <1>1 DEF ArtifactsOK

LEMMA UploadKeepsArtifacts ==
    ASSUME TypeInv, JobOK, ArtifactsOK, Upload PROVE ArtifactsOK'
<1>0. IsRun(run) /\ run.id \in Int
  BY DEF TypeInv, RunTypes
<1>1. /\ UNCHANGED <<cap, executed>> /\ job # NoJob /\ run'.id = run.id
      /\ artifacts' \subseteq artifacts \cup {Offered("public"), Offered("private")}
  BY <1>0, UploadEffect
<1>2. job.cell \in Cells
  BY <1>1 DEF TypeInv, JobTypes
<1>3. ASSUME NEW kind \in {"public", "private"}, NEW a, a = Offered(kind)
      PROVE  /\ a.run = run.id /\ a.name \in Names
             /\ \A f \in a.entries : f.of = "terminal" => Genuine(f.digest)
             /\ \A f \in a.entries : a.name[1] = "public" => f.of = "terminal"
  <2>1. /\ a.run = run.id /\ a.name = <<kind, job.cell>>
        /\ a.entries = IF kind = "public" THEN job.public ELSE job.raw
    BY <1>3 DEF Offered, Row
  <2>2. a.name \in Names /\ a.name[1] = kind
    BY <1>2, <2>1 DEF Names
  <2>3. \A f \in job.public : f.of = "terminal" /\ Genuine(f.digest)
    BY <1>1 DEF JobOK, OfThisRun
  <2>4. \A f \in job.raw : f.of # "terminal"
    BY <1>1 DEF JobOK
  <2> QED BY <2>1, <2>2, <2>3, <2>4
<1>4. ASSUME NEW a \in artifacts'
      PROVE  /\ a.run \in Int /\ a.run <= run'.id /\ a.name \in Names
             /\ \A f \in a.entries : f.of = "terminal" => Genuine(f.digest)
             /\ \A f \in a.entries : a.name[1] = "public" => f.of = "terminal"
  <2>1. CASE a \in artifacts
    BY <1>1, <2>1 DEF ArtifactsOK
  <2>2. CASE a = Offered("public") \/ a = Offered("private")
    BY <1>0, <1>1, <1>3, <2>2
  <2> QED BY <1>1, <1>4, <2>1, <2>2
<1>5. \A a \in artifacts' : \A f \in a.entries : f.of = "terminal" => Genuine(f.digest)'
  BY <1>1, <1>4, GenuineStays
<1> QED BY <1>4, <1>5 DEF ArtifactsOK

LEMMA KeptInit == Init => KeptInv
  BY TypeInit DEF Init, GatewayInit, KeptInv, JobOK, ArtifactsOK

LEMMA KeptStep == KeptInv /\ [Next]_vars => KeptInv'
<1> SUFFICES ASSUME KeptInv, [Next]_vars PROVE KeptInv'
  OBVIOUS
<1>0. TypeInv /\ TypeInv' /\ JobOK /\ ArtifactsOK
  BY TypeStep DEF KeptInv
<1>1. CASE UNCHANGED gatewayVars
  <2>1. UNCHANGED <<cap, run, todo, job, artifacts, executed>> /\ run.id \in Int
    BY <1>0, <1>1 DEF gatewayVars, TypeInv, RunTypes
  <2>2. ArtifactsOK'
    BY <1>0, <2>1, ArtifactsStay
  <2>3. JobOK'
    BY <1>0, <2>1 DEF JobOK, Asked, Call, Binding, EnvelopeOf, OfThisRun, Genuine
  <2> QED BY <1>0, <2>2, <2>3 DEF KeptInv
<1>2. CASE Launch
  <2>1. /\ job = NoJob /\ UNCHANGED <<cap, job, artifacts, executed>>
        /\ run'.id = run.id + 1 \/ run'.id = run.id
    BY <1>0, <1>2, LaunchEffect DEF TypeInv, RunTypes
  <2>2. run.id \in Int /\ run'.id \in Int /\ run'.id >= run.id
    BY <1>0, <2>1 DEF TypeInv, RunTypes
  <2>3. ArtifactsOK'
    BY <1>0, <2>1, <2>2, ArtifactsStay
  <2> QED BY <1>0, <2>1, <2>3 DEF KeptInv, JobOK
<1>3. CASE StartJob
  <2>1. UNCHANGED <<cap, run, artifacts, executed>> /\ run.id \in Int
    BY <1>0, <1>3, StartJobEffect DEF TypeInv, RunTypes
  <2> QED BY <1>0, <1>3, <2>1, StartJobKeepsJob, ArtifactsStay DEF KeptInv
<1>4. CASE Upload
  <2>1. job' = NoJob
    BY <1>4 DEF Upload
  <2> QED BY <1>0, <1>4, <2>1, UploadKeepsArtifacts DEF KeptInv, JobOK
<1>5. CASE Search \/ Describe \/ Execute \/ PersistEnvelope \/ Judge \/ Cancel
  <2>1. job # NoJob /\ UNCHANGED <<cap, run, artifacts>> /\ IsJob(job) /\ run.id \in Int
    BY <1>0, <1>5 DEF Search, Describe, Execute, PersistEnvelope, Judge, Cancel, TypeInv,
                      JobTypes, RunTypes
  <2>2. executed \subseteq executed'
    BY <1>5, <2>1, ExecuteEffect DEF Search, Describe, PersistEnvelope, Judge, Cancel
  <2>3. ArtifactsOK'
    BY <1>0, <2>1, <2>2, ArtifactsStay
  <2>4. JobOK'
    <3>1. CASE Search
      BY <1>0, <2>1, <2>2, <3>1, SearchEffect, FailingKeepsJob, AskingKeepsJob
    <3>2. CASE Describe
      BY <1>0, <2>1, <2>2, <3>2, DescribeEffect, FailingKeepsJob, AskingKeepsJob
    <3>3. CASE Execute
      BY <1>0, <2>1, <3>3, ExecuteKeepsJob
    <3>4. CASE PersistEnvelope
      BY <1>0, <2>1, <3>4, PersistKeepsJob
    <3>5. CASE Judge
      BY <1>0, <2>1, <3>5, JudgeKeepsJob
    <3>6. CASE Cancel
      BY <1>0, <2>1, <3>6, CancelKeepsJob
    <3> QED BY <1>5, <3>1, <3>2, <3>3, <3>4, <3>5, <3>6
  <2> QED BY <1>0, <2>3, <2>4 DEF KeptInv
<1>6. ASSUME NEW b \in Builders, BuildStep(b) PROVE UNCHANGED gatewayVars
  BY <1>6 DEF BuildStep, ExportRun, ExportArtifacts, Collect, Digest, Assemble,
              WriteEvidence, WriteRelease, BuilderDies
<1> QED BY <1>1, <1>2, <1>3, <1>4, <1>5, <1>6
        DEF Next, GatewayNext, JobStep, EditCheckout, vars

-----------------------------------------------------------------------------
(***************************************************************************)
(* What a builder collects                                                 *)
(***************************************************************************)
RowsAreKept == \A b \in Builders : builder[b].rows \subseteq artifacts

Collected ==
    \A b \in Builders : builder[b].pc \in {"digest", "assemble", "write", "done"} =>
        \A c \in Cells : /\ Genuine(builder[b].terminals[c])
                         /\ builder[b].terminals[c].cell = c
                         /\ FromRun(builder[b].terminals[c], builder[b].run)

Assembled == \A b \in Builders : builder[b].pc \in {"write", "done"} => Assembles(builder[b])

BuiltInv == KeptInv /\ WholeInv /\ RowsAreKept /\ Collected /\ Assembled

\* A row that the export lists, by its name.
LEMMA NamedRow ==
    ASSUME NEW rows, RowsMatch(rows), NEW kind \in {"public", "private"}, NEW c \in Cells
    PROVE  \E r \in rows : r.name = <<kind, c>> /\ Entries(rows, kind, c) = r.entries
<1>1. \E r \in rows : r.name = <<kind, c>>
  BY DEF RowsMatch, Names
<1>2. PICK r : r = CHOOSE x \in rows : x.name = <<kind, c>>
  OBVIOUS
<1>3. r \in rows /\ r.name = <<kind, c>>
  BY <1>1, <1>2
<1> QED BY <1>2, <1>3 DEF Entries

LEMMA VerifiedIsGenuine ==
    ASSUME ArtifactsOK, NEW rows, rows \subseteq artifacts, RowsMatch(rows), NEW r, NEW registry,
           NEW c \in Cells, Verified(rows, r, registry, c),
           NEW t, t = (CHOOSE f \in Entries(rows, "public", c) : TRUE).content
    PROVE  Genuine(t) /\ t.cell = c /\ FromRun(t, r)
<1>1. PICK row \in rows : row.name = <<"public", c>> /\ Entries(rows, "public", c) = row.entries
  BY NamedRow
<1>2. PICK file : file = CHOOSE f \in Entries(rows, "public", c) : TRUE
  OBVIOUS
<1>3. /\ Cardinality(row.entries) = 1 /\ Intact(file)
      /\ file.content.cell = c /\ FromRun(file.content, r)
  BY <1>1, <1>2 DEF Verified
<1>4. file \in row.entries
  BY <1>1, <1>2, <1>3, FS_EmptySet
<1>5. Genuine(file.digest)
  BY <1>1, <1>4 DEF ArtifactsOK
<1> QED BY <1>2, <1>3, <1>5 DEF Intact

\* What the gateway's side of the system does leaves what builders hold alone.
LEMMA GatewayKeepsBuilt ==
    ASSUME BuiltInv, KeptInv', WholeInv', UNCHANGED builder, cap' = cap,
           artifacts \subseteq artifacts', executed \subseteq executed'
    PROVE  BuiltInv'
<1>1. RowsAreKept'
  BY DEF BuiltInv, RowsAreKept
<1>2. Collected'
  <2> SUFFICES ASSUME NEW b \in Builders, NEW c \in Cells, NEW st, st = builder[b],
                      st.pc \in {"digest", "assemble", "write", "done"}
               PROVE  /\ Genuine(st.terminals[c])' /\ st.terminals[c].cell = c
                      /\ FromRun(st.terminals[c], st.run)
    BY DEF Collected
  <2>1. Genuine(st.terminals[c]) /\ st.terminals[c].cell = c /\ FromRun(st.terminals[c], st.run)
    BY DEF BuiltInv, Collected
  <2> QED BY <2>1, GenuineStays
<1>3. Assembled'
  BY DEF BuiltInv, Assembled, Assembles, Validate
<1> QED BY <1>1, <1>2, <1>3 DEF BuiltInv

\* A builder's step on what it holds.
LEMMA BuilderKeepsBuilt ==
    ASSUME BuiltInv, KeptInv', WholeInv', NEW b \in Builders, Only(b),
           UNCHANGED gatewayVars,
           builder'[b].rows \subseteq artifacts,
           builder'[b].pc \in {"digest", "assemble", "write", "done"} =>
               \A c \in Cells : /\ Genuine(builder'[b].terminals[c])
                                /\ builder'[b].terminals[c].cell = c
                                /\ FromRun(builder'[b].terminals[c], builder'[b].run),
           builder'[b].pc \in {"write", "done"} => Assembles(builder'[b])
    PROVE  BuiltInv'
<1>1. \A d \in Builders \ {b} : builder'[d] = builder[d]
  BY DEF Only
<1>2. RowsAreKept'
  BY <1>1 DEF BuiltInv, RowsAreKept, gatewayVars
<1>3. Collected'
  <2> SUFFICES ASSUME NEW d \in Builders, NEW c \in Cells, NEW st, st = builder'[d],
                      st.pc \in {"digest", "assemble", "write", "done"}
               PROVE  /\ Genuine(st.terminals[c])' /\ st.terminals[c].cell = c
                      /\ FromRun(st.terminals[c], st.run)
    BY DEF Collected
  <2>1. Genuine(st.terminals[c]) /\ st.terminals[c].cell = c /\ FromRun(st.terminals[c], st.run)
    BY <1>1 DEF BuiltInv, Collected
  <2> QED BY <2>1, GenuineStays DEF gatewayVars
<1>4. Assembled'
  <2> SUFFICES ASSUME NEW d \in Builders, NEW st, st = builder'[d], st.pc \in {"write", "done"}
               PROVE  Assembles(st)'
    BY DEF Assembled
  <2>1. Assembles(st)
    BY <1>1 DEF BuiltInv, Assembled
  <2> QED BY <2>1 DEF Assembles, Validate, gatewayVars
<1> QED BY <1>2, <1>3, <1>4 DEF BuiltInv

LEMMA GatewayOnlyAdds ==
    ASSUME TypeInv, GatewayNext
    PROVE  cap' = cap /\ artifacts \subseteq artifacts' /\ executed \subseteq executed'
<1>1. IsRun(run) /\ (job # NoJob => IsJob(job))
  BY DEF TypeInv, RunTypes, JobTypes
<1>2. CASE Upload
  BY <1>1, <1>2, UploadEffect
<1>3. CASE Execute
  BY <1>1, <1>3, ExecuteEffect DEF Execute
<1>4. CASE Launch \/ StartJob \/ Search \/ Describe \/ PersistEnvelope \/ Judge \/ Cancel
  BY <1>4 DEF Launch, StartJob, Search, Describe, PersistEnvelope, Judge, Cancel
<1> QED BY <1>2, <1>3, <1>4 DEF GatewayNext, JobStep

LEMMA BuiltInit == Init => BuiltInv
<1> SUFFICES ASSUME Init PROVE BuiltInv
  OBVIOUS
<1>1. \A b \in Builders : builder[b].pc = "ready" /\ builder[b].rows = {}
  BY DEF Init
<1> QED BY <1>1, KeptInit, WholeInit DEF BuiltInv, RowsAreKept, Collected, Assembled

LEMMA BuiltStep == BuiltInv /\ [Next]_vars => BuiltInv'
<1> SUFFICES ASSUME BuiltInv, [Next]_vars PROVE BuiltInv'
  OBVIOUS
<1>0. KeptInv /\ KeptInv' /\ WholeInv /\ WholeInv' /\ BuilderShape /\ TypeInv
  BY KeptStep, WholeStep DEF BuiltInv, KeptInv, WholeInv
<1>1. CASE UNCHANGED vars \/ EditCheckout
  BY <1>0, <1>1, GatewayKeepsBuilt DEF vars, gatewayVars, assemblyVars, EditCheckout
<1>2. CASE GatewayNext /\ UNCHANGED assemblyVars
  BY <1>0, <1>2, GatewayOnlyAdds, GatewayKeepsBuilt DEF assemblyVars
<1>3. ASSUME NEW b \in Builders, BuildStep(b) PROVE BuiltInv'
  <2>0. UNCHANGED gatewayVars
    BY <1>3 DEF BuildStep, ExportRun, ExportArtifacts, Collect, Digest, Assemble,
                WriteEvidence, WriteRelease, BuilderDies
  <2>1. builder[b].rows \subseteq artifacts
    BY DEF BuiltInv, RowsAreKept
  <2>2. builder[b].pc \in {"digest", "assemble", "write", "done"} =>
          \A c \in Cells : /\ Genuine(builder[b].terminals[c])
                           /\ builder[b].terminals[c].cell = c
                           /\ FromRun(builder[b].terminals[c], builder[b].run)
    BY DEF BuiltInv, Collected
  <2>3. builder[b].pc \in {"write", "done"} => Assembles(builder[b])
    BY DEF BuiltInv, Assembled
  <2>4. CASE ExportRun(b)
    <3>1. Only(b) /\ builder'[b].pc = "exported" /\ builder'[b].rows = builder[b].rows
      BY <1>0, <2>4, ExportRunEffect
    <3> QED BY <1>0, <2>0, <2>1, <3>1, BuilderKeepsBuilt
  <2>5. CASE ExportArtifacts(b)
    <3>1. Only(b) /\ builder'[b].pc = "start" /\ builder'[b].rows \subseteq artifacts
      BY <1>0, <2>5, ExportArtifactsEffect
    <3> QED BY <1>0, <2>0, <3>1, BuilderKeepsBuilt
  <2>6. CASE Collect(b)
    <3>1. Only(b) /\ builder'[b].run = builder[b].run /\ builder'[b].rows = builder[b].rows
      BY <1>0, <2>6, CollectEffect
    <3>2. PICK merge \in {"none", "binds"} :
             \/ builder'[b].pc = "refused"
             \/ /\ builder'[b].pc = "digest" /\ Accepts(b, merge)
                /\ builder'[b].terminals = [c \in Cells |-> Found(b, c).content]
      BY <1>0, <2>6, CollectEffect
    <3>3. CASE builder'[b].pc = "refused"
      BY <1>0, <2>0, <2>1, <3>1, <3>3, BuilderKeepsBuilt
    <3>4. CASE /\ builder'[b].pc = "digest" /\ Accepts(b, merge)
               /\ builder'[b].terminals = [c \in Cells |-> Found(b, c).content]
      <4>1. ASSUME NEW c \in Cells
            PROVE  /\ Genuine(builder'[b].terminals[c])
                   /\ builder'[b].terminals[c].cell = c
                   /\ FromRun(builder'[b].terminals[c], builder'[b].run)
        <5>1. PICK t, rows, r, registry :
                 /\ t = Found(b, c).content /\ rows = builder[b].rows
                 /\ r = builder[b].run /\ registry = checkout.registry
          OBVIOUS
        <5>2. RowsMatch(rows) /\ Verified(rows, r, registry, c)
          BY <3>4, <5>1 DEF Accepts
        <5>3. t = (CHOOSE f \in Entries(rows, "public", c) : TRUE).content
          BY <5>1 DEF Found
        <5>4. Genuine(t) /\ t.cell = c /\ FromRun(t, r)
          BY <1>0, <2>1, <5>1, <5>2, <5>3, VerifiedIsGenuine DEF KeptInv
        <5> QED BY <3>1, <3>4, <5>1, <5>4
      <4> QED BY <1>0, <2>0, <2>1, <3>1, <3>4, <4>1, BuilderKeepsBuilt
    <3> QED BY <3>2, <3>3, <3>4
  <2>7. CASE Digest(b)
    <3>1. /\ Only(b) /\ builder[b].pc = "digest" /\ builder'[b].pc = "assemble"
          /\ builder'[b].run = builder[b].run /\ builder'[b].rows = builder[b].rows
          /\ builder'[b].terminals = builder[b].terminals
      BY <1>0, <2>7, DigestEffect
    <3> QED BY <1>0, <2>0, <2>1, <2>2, <3>1, BuilderKeepsBuilt
  <2>8. CASE Assemble(b)
    <3>1. /\ Only(b) /\ builder[b].pc = "assemble"
          /\ builder'[b].run = builder[b].run /\ builder'[b].rows = builder[b].rows
          /\ builder'[b].suite = builder[b].suite /\ builder'[b].registry = builder[b].registry
          /\ builder'[b].terminals = builder[b].terminals
          /\ builder'[b].pc = "refused" \/ (builder'[b].pc = "write" /\ Assembles(builder[b]))
      BY <1>0, <2>8, AssembleEffect
    <3>2. builder'[b].pc = "write" => Assembles(builder'[b])
      BY <3>1 DEF Assembles
    <3> QED BY <1>0, <2>0, <2>1, <2>2, <3>1, <3>2, BuilderKeepsBuilt
  <2>9. CASE WriteEvidence(b) \/ WriteRelease(b)
    <3>1. /\ Only(b) /\ builder[b].pc = "write"
          /\ builder'[b].run = builder[b].run /\ builder'[b].rows = builder[b].rows
          /\ builder'[b].suite = builder[b].suite /\ builder'[b].registry = builder[b].registry
          /\ builder'[b].terminals = builder[b].terminals
      BY <1>0, <2>9, WriteEvidenceEffect, WriteReleaseEffect
    <3>2. Assembles(builder'[b])
      BY <2>3, <3>1 DEF Assembles
    <3> QED BY <1>0, <2>0, <2>1, <2>2, <3>1, <3>2, BuilderKeepsBuilt
  <2>10. CASE BuilderDies(b)
    <3>1. Only(b) /\ builder'[b].pc = "dead" /\ builder'[b].rows = builder[b].rows
      BY <1>0, <2>10, BuilderDiesEffect DEF Keeps
    <3> QED BY <1>0, <2>0, <2>1, <3>1, BuilderKeepsBuilt
  <2> QED BY <1>3, <2>4, <2>5, <2>6, <2>7, <2>8, <2>9, <2>10 DEF BuildStep
<1> QED BY <1>1, <1>2, <1>3 DEF Next

\* Every cell of a finished release is an execution of the run that the release names:
\* the gateway answered in it the call that the published registry binds to the cell,
\* and the published outcome is the CAP's of that very answer.
\* build_release_from_artifacts and assemble_public_terminal_release.
THEOREM ReleasesBindTheirRun == Spec => []ReleaseBindsItsRun
<1>1. BuiltInv => ReleaseBindsItsRun
  <2> SUFFICES ASSUME BuiltInv, NEW b \in Builders, builder[b].pc = "done", NEW c \in Cells,
                      NEW st, st = builder[b], NEW t, t = st.terminals[c],
                      NEW bound, bound = Registries[st.registry][c]
               PROVE  /\ t.commit.suite = st.suite
                      /\ \E e \in executed :
                            /\ e.run = st.run.id /\ e.cell = c
                            /\ e.call.tool = bound.tool
                            /\ e.call.parameters = bound.parameters
                            /\ t.raw.call = e.call /\ t.raw.response = e.doc
                            /\ t.outcome = Evaluate(cap, CaseOf(cap, c), bound.identity,
                                                    PayloadOf(e.doc))
    BY DEF ReleaseBindsItsRun, At
  <2>1. Genuine(t) /\ t.cell = c /\ FromRun(t, st.run)
    BY DEF BuiltInv, Collected
  <2>2. t.commit.registry = st.registry /\ t.commit.suite = st.suite
    BY DEF BuiltInv, Assembled, Assembles
  <2>3. PICK e \in executed : /\ e.run = t.run /\ e.cell = t.cell
                              /\ e.call = t.raw.call /\ e.doc = t.raw.response
    BY <2>1 DEF Genuine
  <2>4. e.call.tool = bound.tool /\ e.call.parameters = bound.parameters
    BY <2>1, <2>2, <2>3 DEF Genuine
  <2>5. t.outcome = Evaluate(cap, CaseOf(cap, c), bound.identity, PayloadOf(e.doc))
    BY <2>1, <2>2, <2>3 DEF Genuine
  <2> QED BY <2>1, <2>2, <2>3, <2>4, <2>5 DEF FromRun
<1>2. Spec => []BuiltInv
  BY BuiltInit, BuiltStep, PTL DEF Spec
<1> QED BY <1>1, <1>2, PTL
-----------------------------------------------------------------------------
(***************************************************************************)
(* What a CAP makes of an answer                                           *)
(***************************************************************************)
LEMMA LeastNumber ==
    ASSUME NEW T, T \subseteq Nat, T # {}
    PROVE  \E x \in T : \A y \in T : x <= y
<1>1. PICK x \in T : \A y \in T : <<y, x>> \notin OpToRel(<, Nat)
  BY NatLessThanWellFounded, WFMin
<1>2. \A y \in T : ~(y < x)
  BY <1>1 DEF OpToRel
<1> QED BY <1>2

\* max over the rows of the latest date, the first of equals.
LEMMA LatestRow ==
    ASSUME NEW n \in Nat, NEW S, S \subseteq 1..n, S # {}, NEW last \in Int,
           NEW rows, \A i \in S : rows[i].date \in Int /\ rows[i].date <= last
    PROVE  \E i \in S : \A j \in S : \/ rows[j].date < rows[i].date
                                     \/ rows[j].date = rows[i].date /\ i <= j
<1>1. PICK date : date = [i \in S |-> rows[i].date]
  OBVIOUS
<1>2. \A i \in S : date[i] = rows[i].date /\ date[i] \in Int /\ date[i] <= last
  BY <1>1
<1> DEFINE Ages == {last - date[i] : i \in S}
<1>3. PICK age \in Ages : \A a \in Ages : age <= a
  <2>1. \A i \in S : last - date[i] \in Nat
    BY <1>2
  <2>2. Ages \subseteq Nat /\ Ages # {}
    BY <2>1
  <2> HIDE DEF Ages
  <2> QED BY <2>2, LeastNumber
<1>4. PICK k \in S : age = last - date[k]
  OBVIOUS
<1>5. \A j \in S : date[j] <= date[k]
  <2> SUFFICES ASSUME NEW j \in S PROVE date[j] <= date[k]
    OBVIOUS
  <2>1. last - date[k] <= last - date[j]
    BY <1>3, <1>4
  <2>2. \A x, y \in Int : last - x <= last - y => y <= x
    OBVIOUS
  <2> HIDE DEF Ages
  <2> QED BY <1>2, <2>1, <2>2
<1> DEFINE Equals == {i \in S : date[i] = date[k]}
<1>6. PICK i \in Equals : \A j \in Equals : i <= j
  <2>1. S \subseteq Nat /\ k \in Equals
    OBVIOUS
  <2>2. Equals \subseteq Nat /\ Equals # {}
    BY <2>1
  <2> HIDE DEF Equals
  <2> QED BY <2>2, LeastNumber
<1>7. ASSUME NEW j \in S
      PROVE  rows[j].date < rows[i].date \/ (rows[j].date = rows[i].date /\ i <= j)
  <2>1. date[j] <= date[i] /\ date[j] \in Int /\ date[i] \in Int
    BY <1>2, <1>5, <1>6
  <2>2. CASE date[j] = date[i]
    BY <1>2, <1>6, <2>2
  <2>3. CASE date[j] < date[i]
    BY <1>2, <1>6, <2>3
  <2> QED BY <2>1, <2>2, <2>3
<1> QED BY <1>6, <1>7

\* Statuses and dates of a payload are numbers, and its rows have a date and a symbol.
IsPayload(case, p) ==
    /\ case.first \in Int /\ case.last \in Int /\ p.status \in Nat

IsTable(p) ==
    /\ Len(p.rows) \in Nat
    /\ \A i \in 1..Len(p.rows) : /\ {"date", "symbol"} \subseteq DOMAIN p.rows[i]
                                 /\ p.rows[i].date \in Int \cup {Absent}

LEMMA LatestIsARow ==
    ASSUME NEW case, NEW p, IsPayload(case, p), IsTable(p), BondRows(case, p) # {}
    PROVE  \E i \in 1..Len(p.rows) : /\ ExtractLatest(case, p) = p.rows[i]
                                     /\ InWindow(case, p.rows[i].date)
                                     /\ p.rows[i].value # Absent
<1> DEFINE valid == BondRows(case, p)
           best(i) == \A j \in valid : \/ p.rows[j].date < p.rows[i].date
                                       \/ p.rows[j].date = p.rows[i].date /\ i <= j
<1>1. valid \subseteq 1..Len(p.rows)
  BY DEF BondRows
<1>2. \A i \in valid : p.rows[i].date \in Int /\ p.rows[i].date <= case.last
  BY <1>1 DEF BondRows, InWindow, IsTable, IsPayload
<1>3. \E i \in valid : best(i)
  BY <1>1, <1>2, LatestRow DEF IsPayload, IsTable
<1>4. PICK i : i = CHOOSE k \in valid : best(k)
  OBVIOUS
<1>5. i \in valid
  BY <1>3, <1>4
<1>6. ExtractLatest(case, p) = p.rows[i]
  BY <1>4 DEF ExtractLatest
<1> QED BY <1>1, <1>5, <1>6 DEF BondRows

LEMMA EventIsARow ==
    ASSUME NEW case, NEW p, IsPayload(case, p), IsTable(p), ExtractEvent(case, p) # Absent
    PROVE  \E i \in 1..Len(p.rows) :
             /\ InWindow(case, p.rows[i].date)
             /\ ExtractEvent(case, p).symbol = FirstOf(p.rows[i].symbol, p.symbol)
             /\ ExtractEvent(case, p).date = p.rows[i].date
<1> DEFINE fits == {i \in 1..Len(p.rows) : InWindow(case, p.rows[i].date)}
<1>1. fits # {}
  BY DEF ExtractEvent
<1>2. fits \subseteq Nat
  BY DEF IsTable
<1>3. PICK i : i = CHOOSE k \in fits : \A j \in fits : k <= j
  OBVIOUS
<1>4. \E k \in fits : \A j \in fits : k <= j
  <2> HIDE DEF fits
  <2> QED BY <1>1, <1>2, LeastNumber
<1>5. i \in fits
  BY <1>3, <1>4
<1>6. ExtractEvent(case, p) = [p.rows[i] EXCEPT !.symbol = FirstOf(p.rows[i].symbol, p.symbol)]
  BY <1>1, <1>3 DEF ExtractEvent
<1>7. {"date", "symbol"} \subseteq DOMAIN p.rows[i]
  BY <1>5 DEF IsTable
<1>8. PICK row, symbol : row = p.rows[i] /\ symbol = FirstOf(p.rows[i].symbol, p.symbol)
  OBVIOUS
<1>9. ExtractEvent(case, p) = [row EXCEPT !.symbol = symbol]
  BY <1>6, <1>8
<1>10. "date" \in DOMAIN row /\ "symbol" \in DOMAIN row
  BY <1>7, <1>8
<1>11. ExtractEvent(case, p).symbol = symbol /\ ExtractEvent(case, p).date = row.date
  BY <1>9, <1>10
<1> QED BY <1>5, <1>8, <1>11

\* A document that completes has reached its rows without an error.
LEMMA CompletedDocument ==
    ASSUME NEW case, NEW p, IsPayload(case, p), NEW extracted, NEW facts,
           EvaluateDocument(case, p, extracted, facts).state = "completed"
    PROVE  /\ p.status < 500
           /\ case.negative = "yes" => p.rejects = "yes"
           /\ case.negative # "yes" =>
                 p.status = 200 /\ extracted # Absent /\ facts.verified = "yes"
<1>1. ~BlockedInTransit(p)
  BY DEF EvaluateDocument, InfraResult, Outcome
<1>2. p.status < 500
  BY <1>1 DEF BlockedInTransit, IsPayload
<1>3. CASE case.negative = "yes"
  <2>1. ControlResult(p).state = "completed"
    BY <1>1, <1>3 DEF EvaluateDocument
  <2>2. ExplicitRejection(p)
    BY <2>1 DEF ControlResult, Outcome
  <2> QED BY <1>2, <1>3, <2>2 DEF ExplicitRejection
<1>4. CASE case.negative # "yes"
  <2>1. p.status = 200
    BY <1>1, <1>4 DEF EvaluateDocument, InfraResult, Outcome
  <2>2. extracted # Absent
    BY <1>1, <1>4, <2>1 DEF EvaluateDocument, NothingUsable, Outcome
  <2>3. IdentityResult(facts).state = "completed"
    BY <1>1, <1>4, <2>1, <2>2 DEF EvaluateDocument
  <2>4. facts.verified = "yes"
    BY <2>3 DEF IdentityResult, Outcome
  <2> QED BY <1>2, <1>4, <2>1, <2>2, <2>4
<1> QED BY <1>3, <1>4

\* What an answer is made of before the CAP sees it.
LEMMA PayloadIsTheAnswer ==
    ASSUME NEW doc, doc.http \in Nat, doc.result # NoResult => doc.result.status \in Nat
    PROVE  /\ PayloadOf(doc).status \in Nat
           /\ doc.http >= 400 => /\ PayloadOf(doc).status = doc.http
                                 /\ PayloadOf(doc).rejects = doc.refuses
           /\ ~(doc.http >= 400) => doc.http < 400
           /\ ~(doc.http >= 400) /\ doc.result # NoResult => PayloadOf(doc) = doc.result
           /\ ~(doc.http >= 400) /\ doc.result = NoResult => PayloadOf(doc).status = 520
  BY DEF PayloadOf, ProtocolError
\* The assumption on answers, for the answer behind one terminal.
LEMMA AnswerTypes ==
    ASSUME cap \in Caps, NEW cell \in Cells, NEW doc \in Answers(cap, cell),
           NEW case, case = CaseOf(cap, cell)
    PROVE  /\ doc.http \in Nat
           /\ doc.result # NoResult => doc.result.status \in Nat /\ IsTable(doc.result)
           /\ case.first \in Int /\ case.last \in Int
  BY AnswersOK DEF AnswersOK, IsTable

\* A positive cell of a bond run completes on a row that names the instrument or none.
LEMMA BondAnswered ==
    ASSUME cap = "bond", NEW case, NEW p, IsPayload(case, p), IsTable(p), NEW identity,
           case.negative # "yes", EvaluateBond(case, identity, p).state = "completed", NEW top
    PROVE  p.status = 200 /\ AnsweredBy(p.rows, case, identity, top)
<1>1. PICK row, facts : /\ row = ExtractLatest(case, p)
                        /\ facts = IF row = Absent THEN NoFacts ELSE BondFacts(row, identity)
  OBVIOUS
<1>2. EvaluateDocument(case, p, row, facts).state = "completed"
  BY <1>1 DEF EvaluateBond
<1>3. p.status = 200 /\ row # Absent /\ facts.verified = "yes"
  BY <1>2, CompletedDocument
<1>4. BondRows(case, p) # {}
  BY <1>1, <1>3 DEF ExtractLatest
<1>5. PICK i \in 1..Len(p.rows) : row = p.rows[i] /\ InWindow(case, p.rows[i].date)
  BY <1>1, <1>4, LatestIsARow
<1>6. BondIdentity(row.symbol, identity).verified = "yes"
  BY <1>1, <1>3 DEF BondFacts
<1>7. row.symbol = Absent \/ row.symbol \in {identity.vendor} \cup identity.aliases
  BY <1>6 DEF BondIdentity
<1> QED BY <1>3, <1>5, <1>7 DEF AnsweredBy

LEMMA ActionAnswered ==
    ASSUME cap = "action", NEW case, NEW p, IsPayload(case, p), IsTable(p), NEW identity,
           identity.vendor.code = identity.canonical.code,
           case.negative # "yes", EvaluateAction(case, identity, p).state = "completed"
    PROVE  p.status = 200 /\ AnsweredBy(p.rows, case, identity, p.symbol)
<1>1. PICK row, facts : /\ row = ExtractEvent(case, p)
                        /\ facts = IF row = Absent THEN NoFacts ELSE ActionFacts(row, identity)
  OBVIOUS
<1>2. EvaluateDocument(case, p, row, facts).state = "completed"
  BY <1>1 DEF EvaluateAction
<1>3. p.status = 200 /\ row # Absent /\ facts.verified = "yes"
  BY <1>2, CompletedDocument
<1>4. PICK i \in 1..Len(p.rows) : /\ InWindow(case, p.rows[i].date)
                                  /\ row.symbol = FirstOf(p.rows[i].symbol, p.symbol)
  BY <1>1, <1>3, EventIsARow
<1>5. PICK symbol : symbol = row.symbol
  OBVIOUS
<1>6. ActionIdentity(symbol, identity).verified = "yes"
  BY <1>1, <1>3, <1>5 DEF ActionFacts
<1>7. \/ symbol = Absent \/ symbol \in {identity.canonical, identity.vendor}
      \/ /\ symbol.exchange = Absent
         /\ symbol.code \in {identity.canonical.code, identity.vendor.code}
  BY <1>6 DEF ActionIdentity
<1>8. \/ symbol = Absent
      \/ /\ symbol.code = identity.canonical.code
         /\ symbol.exchange \in {Absent, identity.canonical.exchange, identity.vendor.exchange}
  BY <1>7
<1> QED BY <1>3, <1>4, <1>5, <1>8 DEF AnsweredBy

LEMMA GenuineIsAnswered ==
    ASSUME cap \in Caps, NEW t, Genuine(t), t.outcome.state = "completed",
           NEW case, case = CaseOf(cap, t.cell), NEW doc, doc = t.raw.response,
           NEW id, id = Registries[t.commit.registry][t.cell].identity
    PROVE  IF case.negative = "yes"
           THEN IF doc.http >= 400 THEN doc.refuses = "yes" ELSE doc.result.rejects = "yes"
           ELSE /\ doc.http < 400 /\ doc.result.status = 200
                /\ AnsweredBy(doc.result.rows, case, id, doc.result.symbol)
<1>1. PICK p : p = PayloadOf(doc)
  OBVIOUS
<1>2. /\ Evaluate(cap, case, id, p).state = "completed"
      /\ doc \in Answers(cap, t.cell) /\ t.cell \in Cells
      /\ IdentityBound(cap, case, Registries[t.commit.registry][t.cell])
  BY <1>1 DEF Genuine
<1>3. /\ doc.http \in Nat /\ case.first \in Int /\ case.last \in Int
      /\ doc.result # NoResult => doc.result.status \in Nat /\ IsTable(doc.result)
  BY <1>2, AnswerTypes
<1>4. /\ p.status \in Nat
      /\ doc.http >= 400 => p.status = doc.http /\ p.rejects = doc.refuses
      /\ ~(doc.http >= 400) => doc.http < 400
      /\ ~(doc.http >= 400) /\ doc.result # NoResult => p = doc.result
      /\ ~(doc.http >= 400) /\ doc.result = NoResult => p.status = 520
  BY <1>1, <1>3, PayloadIsTheAnswer
<1>5. IsPayload(case, p)
  BY <1>3, <1>4 DEF IsPayload
<1>6. PICK extracted, facts : EvaluateDocument(case, p, extracted, facts).state = "completed"
  BY <1>2 DEF Evaluate, EvaluateBond, EvaluateAction
<1>7. /\ p.status < 500
      /\ case.negative = "yes" => p.rejects = "yes"
      /\ case.negative # "yes" => p.status = 200
  BY <1>5, <1>6, CompletedDocument
<1>8. ~(doc.http >= 400) => doc.result # NoResult /\ p = doc.result
  BY <1>4, <1>7
<1>9. CASE case.negative = "yes"
  BY <1>4, <1>7, <1>8, <1>9
<1>10. CASE case.negative # "yes"
  <2>1. ~(doc.http >= 400)
    BY <1>3, <1>4, <1>7, <1>10
  <2>2. p = doc.result /\ IsTable(p)
    BY <1>3, <1>8, <2>1
  <2>3. cap \in {"bond", "action"}
    BY GatewayOK DEF GatewayOK
  <2>4. CASE cap = "bond"
    <3>1. EvaluateBond(case, id, p).state = "completed"
      BY <1>2, <2>4 DEF Evaluate
    <3> QED BY <1>4, <1>5, <1>10, <2>1, <2>2, <2>4, <3>1, BondAnswered
  <2>5. CASE cap = "action"
    <3>1. EvaluateAction(case, id, p).state = "completed"
      BY <1>2, <2>5 DEF Evaluate
    <3>2. id.vendor.code = id.canonical.code
      BY <1>2, <2>5 DEF IdentityBound
    <3> QED BY <1>4, <1>5, <1>10, <2>1, <2>2, <2>5, <3>1, <3>2, ActionAnswered
  <2> QED BY <2>3, <2>4, <2>5
<1> QED BY <1>9, <1>10

\* A terminal that says completed has behind it an answer that the gateway and the
\* provider gave without an error, with a row in the case's window that names the
\* instrument asked for or none; a completed control has an answer that rejects it.
\* evaluate_bond_document, evaluate_action_document and what the jobs hand to them.
THEOREM CompletedCellsWereAnswered == Spec => []CompletedMeansAnswered
<1>1. KeptInv => CompletedMeansAnswered
  <2> SUFFICES ASSUME KeptInv, NEW a \in artifacts, NEW f \in a.entries,
                      f.of = "terminal", Intact(f), NEW t, t = f.content,
                      t.outcome.state = "completed",
                      NEW case, case = CaseOf(cap, t.cell), NEW doc, doc = t.raw.response,
                      NEW id, id = Registries[t.commit.registry][t.cell].identity
               PROVE  IF case.negative = "yes"
                      THEN IF doc.http >= 400 THEN doc.refuses = "yes"
                           ELSE doc.result.rejects = "yes"
                      ELSE /\ doc.http < 400 /\ doc.result.status = 200
                           /\ AnsweredBy(doc.result.rows, case, id, doc.result.symbol)
    BY DEF CompletedMeansAnswered
  <2>1. Genuine(t)
    BY DEF KeptInv, ArtifactsOK, Intact
  <2>2. cap \in Caps
    BY DEF KeptInv, TypeInv
  <2> QED BY <2>1, <2>2, GenuineIsAnswered
<1>2. Spec => []KeptInv
  BY KeptInit, KeptStep, PTL DEF Spec
<1> QED BY <1>1, <1>2, PTL
-----------------------------------------------------------------------------
(***************************************************************************)
(* What a run that succeeds at once leaves behind                          *)
(***************************************************************************)
\* In its first attempt a cell has no artifacts before its job has uploaded them.
FirstAttempt ==
    /\ run.id > 0 => run.attempt >= 1
    /\ run.attempt = 1 =>
        \A a \in artifacts : a.run = run.id =>
            a.name[2] \notin todo /\ (job # NoJob => a.name[2] # job.cell)

\* A cell has its two artifacts, no other, and they are those of a job that passed.
Uploaded(id, commit, c) ==
    \E p, q \in artifacts :
        /\ p.run = id /\ p.name = <<"public", c>>
        /\ q.run = id /\ q.name = <<"private", c>>
        /\ \A a \in artifacts : a.run = id /\ a.name[2] = c => a \in {p, q}
        /\ Finished(p.entries, q.entries)
        /\ \A f \in p.entries : /\ Genuine(f.digest) /\ f.digest.cell = c
                                /\ f.digest.run = id /\ f.digest.commit = commit

PassedOK == run.attempt = 1 => \A c \in run.passed : Uploaded(run.id, run.commit, c)

AtOnce(r) == r.success = "yes" /\ r.attempt = 1

\* A run that has been exported as a success at once is over.
ExportedOK ==
    \A b \in Builders : builder[b].pc # "ready" /\ AtOnce(builder[b].run) =>
        /\ builder[b].run.id \in Int /\ builder[b].run.id <= run.id
        /\ builder[b].run.id = run.id => run.passed = Cells /\ todo = {} /\ job = NoJob
        /\ \A c \in Cells : Uploaded(builder[b].run.id, builder[b].run.commit, c)

OwnRows(st) == st.rows # {} /\ \A r \in st.rows : r.run = st.run.id

\* The export of its artifacts misses none.
RowsAreAll ==
    \A b \in Builders :
        /\ builder[b].pc \notin {"ready", "exported"}
        /\ AtOnce(builder[b].run) /\ OwnRows(builder[b])
        => \A a \in artifacts : a.run = builder[b].run.id => a \in builder[b].rows

\* The documents of an unedited checkout are those that the builder has read.
ReadAlike ==
    edits = 0 => \A b \in Builders :
        /\ builder[b].pc \in {"digest", "assemble"} => builder[b].suite = checkout.suite
        /\ builder[b].pc = "assemble" => builder[b].registry = checkout.registry

Good(st) ==
    /\ cap = "bond" /\ AtOnce(st.run) /\ st.run.event = "workflow_dispatch" /\ OwnRows(st)
    /\ edits = 0 /\ checkout = st.run.commit
    /\ \A other \in Builders : builder[other].made = "no"

Unreadable(st) ==
    \E c \in Cells : \E f \in Entries(st.rows, "private", c) :
        f.of = "execute" /\ f.content.json # "object"

RefusedOK ==
    \A b \in Builders : builder[b].pc = "refused" /\ Good(builder[b]) => Unreadable(builder[b])

LastInv == FirstAttempt /\ PassedOK /\ ExportedOK /\ RowsAreAll /\ ReadAlike /\ RefusedOK

LEMMA UploadedStays ==
    ASSUME NEW id, NEW commit, NEW c, Uploaded(id, commit, c), cap' = cap,
           executed \subseteq executed', artifacts \subseteq artifacts',
           \A a \in artifacts' \ artifacts : ~(a.run = id /\ a.name[2] = c)
    PROVE  Uploaded(id, commit, c)'
<1>1. PICK p, q \in artifacts :
        /\ p.run = id /\ p.name = <<"public", c>>
        /\ q.run = id /\ q.name = <<"private", c>>
        /\ \A a \in artifacts : a.run = id /\ a.name[2] = c => a \in {p, q}
        /\ Finished(p.entries, q.entries)
        /\ \A f \in p.entries : /\ Genuine(f.digest) /\ f.digest.cell = c
                                /\ f.digest.run = id /\ f.digest.commit = commit
  BY DEF Uploaded
<1>2. \A f \in p.entries : Genuine(f.digest)'
  BY <1>1, GenuineStays
<1>3. p \in artifacts' /\ q \in artifacts'
  BY <1>1
<1>4. \A a \in artifacts' : a.run = id /\ a.name[2] = c => a \in {p, q}
  BY <1>1
<1> QED BY <1>1, <1>2, <1>3, <1>4 DEF Uploaded

\* The gateway adds no artifact to a run that is over.
LEMMA NothingIsAddedLater ==
    ASSUME KeptInv, ExportedOK, GatewayNext, NEW b \in Builders, NEW r, r = builder[b].run,
           builder[b].pc # "ready", AtOnce(r)
    PROVE  \A a \in artifacts' \ artifacts : a.run # r.id
<1>1. IsRun(run) /\ (job # NoJob => IsJob(job)) /\ run.id \in Int
  BY DEF KeptInv, TypeInv, RunTypes, JobTypes
<1>2. CASE Upload
  <2>1. job # NoJob /\ artifacts' \subseteq artifacts \cup {Offered("public"), Offered("private")}
    BY <1>1, <1>2, UploadEffect
  <2>2. r.id # run.id
    BY <2>1 DEF ExportedOK
  <2>3. \A a \in artifacts' \ artifacts : a.run = run.id
    BY <2>1 DEF Offered, Row
  <2> QED BY <2>2, <2>3
<1>3. CASE ~Upload
  <2>1. artifacts' = artifacts
    BY <1>3 DEF GatewayNext, JobStep, Launch, StartJob, Search, Describe, Execute,
                PersistEnvelope, Judge, Cancel
  <2> QED BY <2>1
<1> QED BY <1>2, <1>3

LEMMA GatewayKeepsFirst ==
    ASSUME KeptInv, FirstAttempt, GatewayNext PROVE FirstAttempt'
<1>1. IsRun(run) /\ (job # NoJob => IsJob(job)) /\ run.id \in Nat /\ run.attempt \in Nat
  BY GatewayOK DEF KeptInv, TypeInv, RunTypes, JobTypes, GatewayOK
<1>2. CASE Launch
  <2>1. job = NoJob /\ UNCHANGED <<job, artifacts>>
    BY <1>1, <1>2, LaunchEffect
  <2>2. CASE run'.id = run.id + 1 /\ run'.attempt = 1
    <3>1. \A a \in artifacts : a.run # run'.id
      BY <1>1, <2>2 DEF KeptInv, ArtifactsOK
    <3> QED BY <2>1, <2>2, <3>1 DEF FirstAttempt
  <2>3. CASE run.id > 0 /\ run'.id = run.id /\ run'.attempt = run.attempt + 1
    <3>1. run.attempt >= 1 /\ run'.attempt # 1 /\ run'.attempt >= 1
      BY <1>1, <2>3 DEF FirstAttempt
    <3> QED BY <2>1, <2>3, <3>1 DEF FirstAttempt
  <2> QED BY <1>1, <1>2, <2>2, <2>3, LaunchEffect
<1>3. CASE StartJob
  <2>1. UNCHANGED <<run, artifacts>> /\ job = NoJob
    BY <1>3, StartJobEffect DEF StartJob
  <2>2. PICK cell \in todo : todo' = todo \ {cell} /\ job'.cell = cell
    BY <1>3, StartJobEffect
  <2> QED BY <2>1, <2>2 DEF FirstAttempt
<1>4. CASE Upload
  <2>1. /\ UNCHANGED todo /\ job # NoJob /\ job' = NoJob
        /\ run'.id = run.id /\ run'.attempt = run.attempt
        /\ artifacts' \subseteq artifacts \cup {Offered("public"), Offered("private")}
    BY <1>1, <1>4, UploadEffect
  <2>2. job.cell \notin todo
    BY <2>1 DEF KeptInv, TypeInv, JobTypes
  <2>3. \A kind \in {"public", "private"} : Offered(kind).name[2] = job.cell
    BY DEF Offered, Row
  <2> QED BY <2>1, <2>2, <2>3 DEF FirstAttempt
<1>5. CASE Search \/ Describe \/ Execute \/ PersistEnvelope \/ Judge \/ Cancel
  <2>1. job # NoJob /\ UNCHANGED <<run, todo, artifacts>>
    BY <1>5 DEF Search, Describe, Execute, PersistEnvelope, Judge, Cancel
  <2>2. Gains(job', job)
    BY <1>1, <1>5, <2>1, SearchEffect, DescribeEffect, ExecuteEffect, PersistEffect,
       JudgeEffect, CancelEffect
  <2> QED BY <2>1, <2>2 DEF FirstAttempt, Gains
<1> QED BY <1>2, <1>3, <1>4, <1>5 DEF GatewayNext, JobStep

LEMMA UploadKeepsPassed ==
    ASSUME KeptInv, FirstAttempt, PassedOK, Upload PROVE PassedOK'
<1>0. IsRun(run)
  BY DEF KeptInv, TypeInv, RunTypes
<1>1. /\ UNCHANGED <<cap, executed>> /\ job # NoJob /\ job.pc = "upload"
      /\ run'.id = run.id /\ run'.commit = run.commit /\ run'.attempt = run.attempt
      /\ artifacts \subseteq artifacts'
      /\ artifacts' \subseteq artifacts \cup {Offered("public"), Offered("private")}
  BY <1>0, UploadEffect
<1>2. PICK p, q : p = Offered("public") /\ q = Offered("private")
  OBVIOUS
<1>3. PICK cell, id, commit : cell = job.cell /\ id = run.id /\ commit = run.commit
  OBVIOUS
<1>4. /\ p.run = id /\ p.name = <<"public", cell>> /\ p.entries = job.public
      /\ q.run = id /\ q.name = <<"private", cell>> /\ q.entries = job.raw
  BY <1>2, <1>3 DEF Offered, Row
<1>5. cell \notin run.passed
  BY <1>1, <1>3 DEF KeptInv, TypeInv, JobTypes
<1>6. SUFFICES ASSUME run.attempt = 1, NEW c \in run'.passed
               PROVE  Uploaded(id, commit, c)'
  BY <1>1, <1>3 DEF PassedOK
<1>7. CASE c \in run.passed
  <2>1. Uploaded(id, commit, c)
    BY <1>3, <1>6, <1>7 DEF PassedOK
  <2>2. c # cell
    BY <1>5, <1>7
  <2>3. \A a \in artifacts' \ artifacts : a.name[2] = cell
    BY <1>1, <1>2, <1>4
  <2>4. \A a \in artifacts' \ artifacts : ~(a.run = id /\ a.name[2] = c)
    BY <2>2, <2>3
  <2> QED BY <1>1, <2>1, <2>4, UploadedStays
<1>8. CASE c \notin run.passed
  <2>1. c = cell /\ job.ok = "yes" /\ p \in artifacts' /\ q \in artifacts'
    BY <1>0, <1>2, <1>3, <1>6, <1>8, UploadEffect
  <2>2. Finished(p.entries, q.entries)
    BY <1>1, <1>4, <2>1 DEF KeptInv, JobOK
  <2>3. \A f \in p.entries : /\ Genuine(f.digest) /\ f.digest.cell = c
                             /\ f.digest.run = id /\ f.digest.commit = commit
    BY <1>1, <1>3, <1>4, <2>1 DEF KeptInv, JobOK, OfThisRun
  <2>4. \A f \in p.entries : Genuine(f.digest)'
    BY <1>1, <2>3, GenuineStays
  <2>5. \A a \in artifacts : ~(a.run = id /\ a.name[2] = c)
    BY <1>1, <1>3, <1>6, <2>1 DEF FirstAttempt
  <2>6. \A a \in artifacts' : a.run = id /\ a.name[2] = c => a \in {p, q}
    BY <1>1, <1>2, <2>5
  <2> QED BY <1>4, <2>1, <2>2, <2>3, <2>4, <2>6 DEF Uploaded
<1> QED BY <1>7, <1>8

LEMMA GatewayKeepsPassed ==
    ASSUME KeptInv, FirstAttempt, PassedOK, GatewayNext PROVE PassedOK'
<1>1. IsRun(run) /\ run.id \in Nat /\ run.attempt \in Nat
  BY GatewayOK DEF KeptInv, TypeInv, RunTypes, GatewayOK
<1>2. CASE Launch
  <2>1. CASE run'.passed = {}
    BY <2>1 DEF PassedOK
  <2>2. CASE run.id > 0 /\ run'.attempt = run.attempt + 1
    BY <1>1, <2>2 DEF FirstAttempt, PassedOK
  <2> QED BY <1>1, <1>2, <2>1, <2>2, LaunchEffect
<1>3. CASE Upload
  BY <1>3, UploadKeepsPassed
<1>4. CASE StartJob \/ Search \/ Describe \/ Execute \/ PersistEnvelope \/ Judge \/ Cancel
  <2>1. UNCHANGED <<cap, run, artifacts>>
    BY <1>4 DEF StartJob, Search, Describe, Execute, PersistEnvelope, Judge, Cancel
  <2>2. executed \subseteq executed'
    BY GatewayOnlyAdds DEF KeptInv
  <2>3. PICK id, commit : id = run.id /\ commit = run.commit
    OBVIOUS
  <2>4. run.attempt = 1 => \A c \in run.passed : Uploaded(id, commit, c)
    BY <2>3 DEF PassedOK
  <2>5. run.attempt = 1 => \A c \in run.passed : Uploaded(id, commit, c)'
    BY <2>1, <2>2, <2>4, UploadedStays
  <2> QED BY <2>1, <2>3, <2>5 DEF PassedOK
<1> QED BY <1>2, <1>3, <1>4 DEF GatewayNext, JobStep

LEMMA GatewayKeepsExported ==
    ASSUME KeptInv, FirstAttempt, ExportedOK, GatewayNext, UNCHANGED builder
    PROVE  ExportedOK'
<1>1. IsRun(run) /\ (job # NoJob => IsJob(job)) /\ run.id \in Nat
  BY GatewayOK DEF KeptInv, TypeInv, RunTypes, JobTypes, GatewayOK
<1>2. SUFFICES ASSUME NEW b \in Builders, NEW r, r = builder[b].run, builder[b].pc # "ready",
                      AtOnce(r)
               PROVE  /\ r.id \in Int /\ r.id <= run'.id
                      /\ r.id = run'.id => run'.passed = Cells /\ todo' = {} /\ job' = NoJob
                      /\ \A c \in Cells : Uploaded(r.id, r.commit, c)'
  BY DEF ExportedOK
<1>3. /\ r.id \in Int /\ r.id <= run.id
      /\ r.id = run.id => run.passed = Cells /\ todo = {} /\ job = NoJob
      /\ \A c \in Cells : Uploaded(r.id, r.commit, c)
  BY <1>2 DEF ExportedOK
<1>4. /\ cap' = cap /\ artifacts \subseteq artifacts' /\ executed \subseteq executed'
      /\ \A a \in artifacts' \ artifacts : a.run # r.id
  BY <1>2, GatewayOnlyAdds, NothingIsAddedLater DEF KeptInv
<1>5. \A c \in Cells : Uploaded(r.id, r.commit, c)'
  <2> SUFFICES ASSUME NEW c \in Cells PROVE Uploaded(r.id, r.commit, c)'
    OBVIOUS
  <2>1. PICK id, commit : id = r.id /\ commit = r.commit
    OBVIOUS
  <2>2. Uploaded(id, commit, c)
    BY <1>3, <2>1
  <2>3. Uploaded(id, commit, c)'
    BY <1>4, <2>1, <2>2, UploadedStays
  <2> QED BY <2>1, <2>3
<1>6. r.id <= run'.id /\ (r.id = run'.id => run'.passed = Cells /\ todo' = {} /\ job' = NoJob)
  <2>1. CASE Launch
    <3>1. CASE run'.id = run.id + 1
      BY <1>1, <1>3, <3>1
    <3>2. CASE run'.id = run.id /\ run.passed # Cells
      BY <1>3, <2>1, <3>2, LaunchEffect
    <3> QED BY <1>1, <2>1, <3>1, <3>2, LaunchEffect
  <2>2. CASE Upload
    <3>1. run'.id = run.id /\ job # NoJob
      BY <1>1, <2>2, UploadEffect
    <3> QED BY <1>3, <3>1
  <2>3. CASE StartJob
    <3>1. run' = run /\ todo # {}
      BY <2>3, StartJobEffect
    <3> QED BY <1>3, <3>1
  <2>4. CASE Search \/ Describe \/ Execute \/ PersistEnvelope \/ Judge \/ Cancel
    <3>1. job # NoJob /\ run' = run
      BY <2>4 DEF Search, Describe, Execute, PersistEnvelope, Judge, Cancel
    <3> QED BY <1>3, <3>1
  <2> QED BY <2>1, <2>2, <2>3, <2>4 DEF GatewayNext, JobStep
<1> QED BY <1>3, <1>5, <1>6
-----------------------------------------------------------------------------
(***************************************************************************)
(* The bond validator and the adapter agree                                *)
(***************************************************************************)
\* Whatever the adapter can have published, the validator derives the same state again.
LEMMA BondJudgementsAgree ==
    ASSUME NEW case, NEW p, IsPayload(case, p), p.status = 200 => IsTable(p), NEW identity
    PROVE  LET o == EvaluateBond(case, identity, p)
           IN  ValidateBond(case, identity, o.facts) = Judgement(o)
<1>1. PICK row, facts, o :
        /\ row = ExtractLatest(case, p)
        /\ facts = IF row = Absent THEN NoFacts ELSE BondFacts(row, identity)
        /\ o = EvaluateDocument(case, p, row, facts)
  OBVIOUS
<1>2. o = EvaluateBond(case, identity, p)
  BY <1>1 DEF EvaluateBond
<1> SUFFICES ValidateBond(case, identity, o.facts) = Judgement(o)
  BY <1>2
<1>3. ASSUME NEW a \in PublishableFailures, o = InfraResult(case, a)
      PROVE  ValidateBond(case, identity, o.facts) = Judgement(o)
  <2>1. o.facts = Failure(a) /\ Judgement(o) = Judged("infra_blocked", case.conditions, a)
    BY <1>3 DEF InfraResult, Outcome, Judgement
  <2>2. IsPublishedFailure(o.facts) /\ o.facts.attribution = a
    BY <2>1 DEF IsPublishedFailure, Failure
  <2> QED BY <2>1, <2>2 DEF ValidateBond
<1>4. CASE BlockedInTransit(p)
  <2>1. o = InfraResult(case, TransportAttribution(p.status))
    BY <1>1, <1>4 DEF EvaluateDocument
  <2>2. TransportAttribution(p.status) \in PublishableFailures
    BY DEF TransportAttribution, PublishableFailures
  <2> QED BY <1>3, <2>1, <2>2
<1>5. CASE ~BlockedInTransit(p) /\ case.negative = "yes"
  <2>1. o = ControlResult(p)
    BY <1>1, <1>5 DEF EvaluateDocument
  <2>2. CASE ExplicitRejection(p)
    <3>1. o.facts = Rejection /\ Judgement(o) = Judged("completed", {}, "provider_validation_error")
      BY <2>1, <2>2 DEF ControlResult, Outcome, Judgement
    <3>2. ~IsPublishedFailure(o.facts)
      BY <3>1 DEF IsPublishedFailure, Rejection
    <3> QED BY <1>5, <3>1, <3>2 DEF ValidateBond, ControlJudgement
  <2>3. CASE ~ExplicitRejection(p)
    <3>1. o.facts = NoFacts /\ Judgement(o) =
            Judged("provider_negative", {"validation_error"}, "empty_or_partial_data")
      BY <2>1, <2>3 DEF ControlResult, Outcome, Judgement
    <3>2. ~IsPublishedFailure(o.facts) /\ o.facts # Rejection
      BY <3>1 DEF IsPublishedFailure, Rejection, NoFacts
    <3> QED BY <1>5, <3>1, <3>2 DEF ValidateBond, ControlJudgement
  <2> QED BY <2>2, <2>3
<1>6. CASE ~BlockedInTransit(p) /\ case.negative # "yes" /\ p.status # 200
  <2>1. o = InfraResult(case, "empty_or_partial_data")
    BY <1>1, <1>6 DEF EvaluateDocument
  <2> QED BY <1>3, <2>1 DEF PublishableFailures
<1>7. CASE ~BlockedInTransit(p) /\ case.negative # "yes" /\ p.status = 200 /\ row = Absent
  <2>1. o = NothingUsable(case)
    BY <1>1, <1>7 DEF EvaluateDocument
  <2>2. o.facts = NoFacts /\ Judgement(o) =
          Judged("provider_negative", case.conditions, "empty_or_partial_data")
    BY <2>1 DEF NothingUsable, Outcome, Judgement
  <2>3. ~IsPublishedFailure(o.facts) /\ o.facts.kind # "bond"
    BY <2>2 DEF IsPublishedFailure, NoFacts
  <2> QED BY <1>7, <2>2, <2>3 DEF ValidateBond
<1>8. CASE ~BlockedInTransit(p) /\ case.negative # "yes" /\ p.status = 200 /\ row # Absent
  <2>1. o = IdentityResult(facts) /\ facts = BondFacts(row, identity)
    BY <1>1, <1>8 DEF EvaluateDocument
  <2>2. BondRows(case, p) # {}
    BY <1>1, <1>8 DEF ExtractLatest
  <2>3. InWindow(case, row.date) /\ row.value # Absent
    BY <1>1, <1>8, <2>2, LatestIsARow
  <2>4. PICK symbol, id : symbol = row.symbol /\ id = BondIdentity(symbol, identity)
    OBVIOUS
  <2>5. /\ facts.kind = "bond" /\ facts.symbol = FirstOf(symbol, identity.vendor)
        /\ facts.date = row.date /\ facts.close = row.value
        /\ facts.verified = id.verified /\ facts.basis = id.basis
    BY <2>1, <2>4 DEF BondFacts
  <2>6. o.facts = facts /\ ~IsPublishedFailure(facts)
    BY <2>1, <2>5 DEF IdentityResult, Outcome, IsPublishedFailure
  <2>7. Judgement(o) = IF facts.verified = "yes" THEN Judged("completed", {}, "none")
          ELSE Judged("provider_negative", {"identity_verified"}, "empty_or_partial_data")
    BY <2>1 DEF IdentityResult, Outcome, Judgement
  <2>8. facts.verified \in {"yes", "no"}
    BY <2>4, <2>5 DEF BondIdentity
  <2>9. PICK expected : expected = IF facts.basis = "request_bound"
                    THEN [verified |-> IF facts.symbol = identity.vendor THEN "yes" ELSE "no",
                          basis |-> "request_bound"]
                    ELSE BondIdentity(facts.symbol, identity)
    OBVIOUS
  <2>10. facts.basis = expected.basis /\ expected.verified = facts.verified
    <3>1. CASE symbol = Absent
      <4>1. facts.basis = "request_bound" /\ facts.verified = "yes"
            /\ facts.symbol = identity.vendor
        BY <2>4, <2>5, <3>1 DEF BondIdentity, FirstOf
      <4> QED BY <2>9, <4>1
    <3>2. CASE symbol # Absent
      <4>1. facts.basis = "response_field" /\ facts.symbol = symbol
        BY <2>4, <2>5, <3>2 DEF BondIdentity, FirstOf
      <4> QED BY <2>4, <2>5, <2>9, <4>1
    <3> QED BY <3>1, <3>2
  <2>11. ValidateBond(case, identity, facts) =
           IF facts.verified = "yes" THEN Judged("completed", {}, "none")
           ELSE Judged("provider_negative", {"identity_verified"}, "empty_or_partial_data")
    BY <1>8, <2>3, <2>5, <2>6, <2>8, <2>9, <2>10 DEF ValidateBond
  <2> QED BY <2>6, <2>7, <2>11
<1> QED BY <1>4, <1>5, <1>6, <1>7, <1>8

LEMMA GenuineBondsAgree ==
    ASSUME cap \in Caps, cap = "bond", NEW t, Genuine(t), NEW c, t.cell = c,
           NEW identity, identity = Registries[t.commit.registry][c].identity
    PROVE  Judgement(t.outcome) = Validate(c, identity, t.outcome.facts)
<1>1. PICK case, doc, p : case = CaseOf(cap, c) /\ doc = t.raw.response /\ p = PayloadOf(doc)
  OBVIOUS
<1>2. /\ t.outcome = EvaluateBond(case, identity, p) /\ c \in Cells /\ doc \in Answers(cap, c)
  BY <1>1 DEF Genuine, Evaluate
<1>3. /\ doc.http \in Nat /\ case.first \in Int /\ case.last \in Int
      /\ doc.result # NoResult => doc.result.status \in Nat /\ IsTable(doc.result)
  BY <1>1, <1>2, AnswerTypes
<1>4. /\ p.status \in Nat
      /\ doc.http >= 400 => p.status = doc.http
      /\ ~(doc.http >= 400) /\ doc.result # NoResult => p = doc.result
      /\ ~(doc.http >= 400) /\ doc.result = NoResult => p.status = 520
  BY <1>1, <1>3, PayloadIsTheAnswer
<1>5. IsPayload(case, p) /\ (p.status = 200 => IsTable(p))
  BY <1>3, <1>4 DEF IsPayload
<1>6. ValidateBond(case, identity, t.outcome.facts) = Judgement(t.outcome)
  BY <1>2, <1>5, BondJudgementsAgree
<1> QED BY <1>1, <1>6 DEF Validate

-----------------------------------------------------------------------------
(***************************************************************************)
(* What a builder makes of it                                              *)
(***************************************************************************)
\* The export is of one run and misses no artifact of it.
AllOf(rows, id) ==
    /\ rows \subseteq artifacts
    /\ \A a \in rows : a.run = id
    /\ \A a \in artifacts : a.run = id => a \in rows

\* What it lists of one cell.
CellRows(rows, p, q, id, commit, c) ==
    /\ p.name = <<"public", c>> /\ q.name = <<"private", c>>
    /\ \A a \in rows : a.name[2] = c => a \in {p, q}
    /\ Finished(p.entries, q.entries)
    /\ \A f \in p.entries : /\ Genuine(f.digest) /\ f.digest.cell = c
                            /\ f.digest.run = id /\ f.digest.commit = commit

LEMMA RowsOfACell ==
    ASSUME NEW rows, NEW id, NEW commit, NEW c, AllOf(rows, id), Uploaded(id, commit, c)
    PROVE  \E p, q \in rows : CellRows(rows, p, q, id, commit, c)
<1>1. PICK p, q \in artifacts :
        /\ p.run = id /\ p.name = <<"public", c>>
        /\ q.run = id /\ q.name = <<"private", c>>
        /\ \A a \in artifacts : a.run = id /\ a.name[2] = c => a \in {p, q}
        /\ Finished(p.entries, q.entries)
        /\ \A f \in p.entries : /\ Genuine(f.digest) /\ f.digest.cell = c
                                /\ f.digest.run = id /\ f.digest.commit = commit
  BY DEF Uploaded
<1>2. p \in rows /\ q \in rows
  BY <1>1 DEF AllOf
<1>3. \A a \in rows : a.name[2] = c => a \in {p, q}
  BY <1>1 DEF AllOf
<1> QED BY <1>1, <1>2, <1>3 DEF CellRows

LEMMA FullRowsMatch ==
    ASSUME ArtifactsOK, NEW rows, NEW id, NEW commit, AllOf(rows, id),
           \A c \in Cells : Uploaded(id, commit, c)
    PROVE  RowsMatch(rows)
<1>1. \A a \in rows : a.name \in Names
  BY DEF ArtifactsOK, AllOf
<1>2. \A n \in Names : \E a \in rows : a.name = n
  <2> SUFFICES ASSUME NEW kind \in {"public", "private"}, NEW c \in Cells
               PROVE  \E a \in rows : a.name = <<kind, c>>
    BY DEF Names
  <2>1. Uploaded(id, commit, c)
    OBVIOUS
  <2>2. \E p, q \in rows : CellRows(rows, p, q, id, commit, c)
    BY <2>1, RowsOfACell
  <2> QED BY <2>2 DEF CellRows
<1>3. \A a, d \in rows : a.name = d.name => a = d
  <2> SUFFICES ASSUME NEW a \in rows, NEW d \in rows, a.name = d.name PROVE a = d
    OBVIOUS
  <2>1. PICK kind \in {"public", "private"}, c \in Cells : a.name = <<kind, c>>
    BY <1>1 DEF Names
  <2>2. PICK p, q \in rows : CellRows(rows, p, q, id, commit, c)
    <3>1. Uploaded(id, commit, c)
      OBVIOUS
    <3> QED BY <3>1, RowsOfACell
  <2>3. a \in {p, q} /\ d \in {p, q}
    <3>1. a.name[2] = c
      BY <2>1
    <3>2. d.name[2] = c
      BY <3>1
    <3> QED BY <2>2, <3>1, <3>2 DEF CellRows
  <2>4. p.name # q.name
    BY <2>2 DEF CellRows
  <2> QED BY <2>3, <2>4
<1>4. {a.name : a \in rows} = Names
  BY <1>1, <1>2
<1>5. IsFiniteSet(Names)
  <2>1. {"public", "private"} = {"public"} \cup {"private"}
    OBVIOUS
  <2>2. IsFiniteSet({"public"}) /\ IsFiniteSet({"private"})
    BY FS_Singleton
  <2>3. IsFiniteSet({"public"} \cup {"private"})
    BY <2>2, FS_Union
  <2> QED BY <2>1, <2>3, GatewayOK, FS_Product DEF Names, GatewayOK
<1>6. ExistsBijection(Names, rows)
  <2> DEFINE of == [n \in Names |-> CHOOSE a \in rows : a.name = n]
  <2>1. \A n \in Names : of[n] \in rows /\ of[n].name = n
    BY <1>2
  <2>2. of \in [Names -> rows]
    BY <2>1
  <2>3. \A a \in rows : of[a.name] = a
    BY <1>1, <1>3, <2>1
  <2>4. \A m, n \in Names : of[m] = of[n] => m = n
    BY <2>1
  <2> HIDE DEF of
  <2>5. of \in Bijection(Names, rows)
    BY <1>1, <2>2, <2>3, <2>4 DEF Bijection, Injection, Surjection, IsInjective
  <2> QED BY <2>5 DEF ExistsBijection
<1>7. Cardinality(rows) = Cardinality(Names)
  BY <1>5, <1>6, FS_Bijection
<1> QED BY <1>4, <1>7 DEF RowsMatch
\* No execute answer of the export was anything but a JSON object.
AllReadable(rows) ==
    \A c \in Cells : \A f \in Entries(rows, "private", c) :
        f.of = "execute" => f.content.json = "object"

LEMMA EntriesOfACell ==
    ASSUME NEW rows, RowsMatch(rows), NEW p \in rows, NEW q \in rows, NEW id, NEW commit,
           NEW c \in Cells, CellRows(rows, p, q, id, commit, c)
    PROVE  Entries(rows, "public", c) = p.entries /\ Entries(rows, "private", c) = q.entries
<1>1. \A a \in rows : a.name[2] = c => a \in {p, q}
  BY DEF CellRows
<1>2. p.name = <<"public", c>> /\ q.name = <<"private", c>>
  BY DEF CellRows
<1>3. ASSUME NEW a \in rows, a.name = <<"public", c>> PROVE a = p
  <2>1. a.name[2] = c /\ a.name # q.name
    BY <1>2, <1>3
  <2> QED BY <1>1, <2>1
<1>4. ASSUME NEW a \in rows, a.name = <<"private", c>> PROVE a = q
  <2>1. a.name[2] = c /\ a.name # p.name
    BY <1>2, <1>4
  <2> QED BY <1>1, <2>1
<1>5. \E a \in rows : a.name = <<"public", c>> /\ Entries(rows, "public", c) = a.entries
  BY NamedRow
<1>6. \E a \in rows : a.name = <<"private", c>> /\ Entries(rows, "private", c) = a.entries
  BY NamedRow
<1> QED BY <1>3, <1>4, <1>5, <1>6

\* A builder that reads the registry of the run's commit verifies what the run has left.
LEMMA UploadedIsVerified ==
    ASSUME cap = "bond", NEW rows, RowsMatch(rows), AllReadable(rows),
           NEW r, NEW c \in Cells, NEW registry, registry = r.commit.registry,
           AllOf(rows, r.id), Uploaded(r.id, r.commit, c)
    PROVE  /\ IdentityBound(cap, CaseOf(cap, c), Registries[registry][c])
           /\ Verified(rows, r, registry, c)
<1>1. PICK id, commit : id = r.id /\ commit = r.commit
  OBVIOUS
<1>2. PICK p, q \in rows : CellRows(rows, p, q, id, commit, c)
  BY <1>1, RowsOfACell
<1>3. PICK posted, raw : posted = Entries(rows, "public", c) /\ raw = Entries(rows, "private", c)
  OBVIOUS
<1>4. posted = p.entries /\ raw = q.entries
  BY <1>2, <1>3, EntriesOfACell
<1>5. PICK f \in posted : /\ posted = {f} /\ Intact(f)
                          /\ File("envelope", f.digest.raw) \in raw
                          /\ File("execute", f.digest.raw.response) \in raw
                          /\ \A g \in raw : Intact(g)
  BY <1>2, <1>4 DEF CellRows, Finished
<1>6. PICK t : t = f.digest
  OBVIOUS
<1>7. Genuine(t) /\ t.cell = c /\ t.run = id /\ t.commit = commit
  BY <1>2, <1>4, <1>5, <1>6 DEF CellRows
<1>8. PICK bound : bound = Registries[registry][c]
  OBVIOUS
<1>9. /\ IdentityBound(cap, CaseOf(cap, c), bound)
      /\ t.raw.call.tool = bound.tool /\ t.raw.call.parameters = bound.parameters
      /\ t.outcome = Evaluate(cap, CaseOf(cap, c), bound.identity, PayloadOf(t.raw.response))
  BY <1>1, <1>7, <1>8 DEF Genuine
<1>10. PICK file : file = CHOOSE g \in posted : TRUE
  OBVIOUS
<1>11. file = f /\ file.content = t
  BY <1>5, <1>6, <1>10 DEF Intact
<1>12. Cardinality(posted) = 1
  BY <1>5, FS_Singleton
<1>13. t.raw.response.json = "object"
  <2>1. PICK g : g = File("execute", t.raw.response)
    OBVIOUS
  <2>2. g \in raw /\ g.of = "execute" /\ g.content = t.raw.response
    BY <1>5, <1>6, <2>1 DEF File
  <2> QED BY <1>3, <2>2 DEF AllReadable
<1>14. FromRun(t, r)
  BY <1>1, <1>7 DEF FromRun
<1>15. PrivateExecution(rows, c, t, bound)
  BY <1>3, <1>5, <1>6, <1>9, <1>13 DEF PrivateExecution
<1>16. Reevaluates(c, t, bound)
  BY <1>9 DEF Reevaluates
<1>17. Verified(rows, r, registry, c)
  BY <1>3, <1>5, <1>7, <1>8, <1>10, <1>11, <1>12, <1>14, <1>15, <1>16 DEF Verified
<1> QED BY <1>8, <1>9, <1>17
\* A builder with all the artifacts of a run that succeeded at once, and readable ones,
\* does not refuse to collect.
LEMMA GoodRunsAreCollected ==
    ASSUME BuiltInv, ExportedOK, RowsAreAll, NEW b \in Builders, NEW st, st = builder[b],
           st.pc = "start", Good(st), ~Unreadable(st), NEW merge
    PROVE  Accepts(b, merge)
<1>1. PICK rows, r, registry : rows = st.rows /\ r = st.run /\ registry = checkout.registry
  OBVIOUS
<1>2. /\ cap = "bond" /\ AtOnce(r) /\ r.event = "workflow_dispatch" /\ OwnRows(st)
      /\ checkout = r.commit /\ \A other \in Builders : builder[other].made = "no"
  BY <1>1 DEF Good
<1>3. AllOf(rows, r.id)
  <2>1. rows \subseteq artifacts
    BY <1>1 DEF BuiltInv, RowsAreKept
  <2>2. \A a \in rows : a.run = r.id
    BY <1>1, <1>2 DEF OwnRows
  <2>3. \A a \in artifacts : a.run = r.id => a \in rows
    BY <1>1, <1>2 DEF RowsAreAll
  <2> QED BY <2>1, <2>2, <2>3 DEF AllOf
<1>4. \A c \in Cells : Uploaded(r.id, r.commit, c)
  BY <1>1, <1>2 DEF ExportedOK
<1>5. PICK id, commit : id = r.id /\ commit = r.commit
  OBVIOUS
<1>6. RowsMatch(rows)
  <2>1. AllOf(rows, id) /\ \A c \in Cells : Uploaded(id, commit, c)
    BY <1>3, <1>4, <1>5
  <2> QED BY <2>1, FullRowsMatch DEF BuiltInv, KeptInv
<1>7. AllReadable(rows)
  BY <1>1 DEF AllReadable, Unreadable
<1>8. ASSUME NEW c \in Cells
      PROVE  /\ IdentityBound(cap, CaseOf(cap, c), Registries[registry][c])
             /\ Verified(rows, r, registry, c)
  <2>1. registry = r.commit.registry
    BY <1>1, <1>2
  <2>2. Uploaded(r.id, r.commit, c)
    BY <1>4
  <2> QED BY <1>2, <1>3, <1>6, <1>7, <2>1, <2>2, UploadedIsVerified
<1>9. Trusted(r, merge)
  BY <1>2 DEF Trusted, AtOnce
<1> QED BY <1>1, <1>2, <1>6, <1>8, <1>9 DEF Accepts

\* Nor does the assembly refuse what it has collected.
LEMMA GoodRunsAreAssembled ==
    ASSUME BuiltInv, ReadAlike, NEW b \in Builders, NEW st, st = builder[b],
           st.pc = "assemble", Good(st)
    PROVE  Assembles(st)
<1>1. /\ cap = "bond" /\ cap \in Caps /\ checkout = st.run.commit
      /\ st.suite = checkout.suite /\ st.registry = checkout.registry
  BY DEF Good, ReadAlike, BuiltInv, KeptInv, TypeInv
<1>2. SUFFICES ASSUME NEW c \in Cells, NEW t, t = st.terminals[c]
               PROVE  /\ t.commit.registry = st.registry
                      /\ t.commit.suite = st.suite
                      /\ FromRun(t, st.run)
                      /\ Judgement(t.outcome)
                           = Validate(c, Registries[st.registry][c].identity, t.outcome.facts)
  BY DEF Assembles
<1>3. Genuine(t) /\ t.cell = c /\ FromRun(t, st.run)
  BY <1>2 DEF BuiltInv, Collected
<1>4. t.commit.registry = st.registry /\ t.commit.suite = st.suite
  BY <1>1, <1>3 DEF FromRun
<1>5. PICK identity : identity = Registries[st.registry][c].identity
  OBVIOUS
<1>6. Judgement(t.outcome) = Validate(c, identity, t.outcome.facts)
  <2>1. identity = Registries[t.commit.registry][c].identity
    BY <1>4, <1>5
  <2> QED BY <1>1, <1>3, <2>1, GenuineBondsAgree
<1> QED BY <1>3, <1>4, <1>5, <1>6
LEMMA OthersKeepFirst ==
    ASSUME FirstAttempt, PassedOK, UNCHANGED gatewayVars PROVE FirstAttempt' /\ PassedOK'
<1>1. FirstAttempt'
  BY DEF FirstAttempt, gatewayVars
<1>2. PICK id, commit : id = run.id /\ commit = run.commit
  OBVIOUS
<1>3. run.attempt = 1 => \A c \in run.passed : Uploaded(id, commit, c)
  BY <1>2 DEF PassedOK
<1>4. run.attempt = 1 => \A c \in run.passed : Uploaded(id, commit, c)'
  BY <1>3, UploadedStays DEF gatewayVars
<1> QED BY <1>1, <1>2, <1>4 DEF PassedOK, gatewayVars

\* A builder's step on what it knows; it may make the evidence directory.
LEMMA BuilderKeepsLast ==
    ASSUME LastInv, NEW b \in Builders, Only(b), UNCHANGED <<gatewayVars, checkout, edits>>,
           NEW new, new = builder'[b], new.made = "no" => builder[b].made = "no",
           new.pc # "ready" /\ AtOnce(new.run) =>
               /\ new.run.id \in Int /\ new.run.id <= run.id
               /\ new.run.id = run.id => run.passed = Cells /\ todo = {} /\ job = NoJob
               /\ \A c \in Cells : Uploaded(new.run.id, new.run.commit, c),
           new.pc \notin {"ready", "exported"} /\ AtOnce(new.run) /\ OwnRows(new) =>
               \A a \in artifacts : a.run = new.run.id => a \in new.rows,
           edits = 0 =>
               /\ new.pc \in {"digest", "assemble"} => new.suite = checkout.suite
               /\ new.pc = "assemble" => new.registry = checkout.registry,
           new.pc = "refused" /\ Good(new)' => Unreadable(new)
    PROVE  LastInv'
<1>1. \A d \in Builders \ {b} : builder'[d] = builder[d]
  BY DEF Only
<1>2. FirstAttempt' /\ PassedOK'
  BY OthersKeepFirst DEF LastInv
<1>3. ExportedOK'
  <2> SUFFICES ASSUME NEW d \in Builders, NEW st, st = builder'[d], st.pc # "ready",
                      AtOnce(st.run)
               PROVE  /\ st.run.id \in Int /\ st.run.id <= run'.id
                      /\ st.run.id = run'.id => run'.passed = Cells /\ todo' = {} /\ job' = NoJob
                      /\ \A c \in Cells : Uploaded(st.run.id, st.run.commit, c)'
    BY DEF ExportedOK
  <2>1. /\ st.run.id \in Int /\ st.run.id <= run.id
        /\ st.run.id = run.id => run.passed = Cells /\ todo = {} /\ job = NoJob
        /\ \A c \in Cells : Uploaded(st.run.id, st.run.commit, c)
    BY <1>1 DEF LastInv, ExportedOK
  <2>2. PICK id, commit : id = st.run.id /\ commit = st.run.commit
    OBVIOUS
  <2>3. \A c \in Cells : Uploaded(id, commit, c)
    BY <2>1, <2>2
  <2>4. \A c \in Cells : Uploaded(id, commit, c)'
    BY <2>3, UploadedStays DEF gatewayVars
  <2> QED BY <2>1, <2>2, <2>4 DEF gatewayVars
<1>4. RowsAreAll'
  <2> SUFFICES ASSUME NEW d \in Builders, NEW st, st = builder'[d],
                      st.pc \notin {"ready", "exported"}, AtOnce(st.run), OwnRows(st),
                      NEW a \in artifacts, a.run = st.run.id
               PROVE  a \in st.rows
    BY DEF RowsAreAll, gatewayVars
  <2> QED BY <1>1 DEF LastInv, RowsAreAll
<1>5. ReadAlike'
  <2> SUFFICES ASSUME edits = 0, NEW d \in Builders, NEW st, st = builder'[d]
               PROVE  /\ st.pc \in {"digest", "assemble"} => st.suite = checkout.suite
                      /\ st.pc = "assemble" => st.registry = checkout.registry
    BY DEF ReadAlike
  <2> QED BY <1>1 DEF LastInv, ReadAlike
<1>6. RefusedOK'
  <2> SUFFICES ASSUME NEW d \in Builders, NEW st, st = builder'[d], st.pc = "refused", Good(st)'
               PROVE  Unreadable(st)
    BY DEF RefusedOK
  <2>1. CASE d = b
    BY <2>1
  <2>2. CASE d # b
    <3>1. st = builder[d]
      BY <1>1, <2>2
    <3>2. \A other \in Builders : builder[other].made = "no"
      BY <1>1 DEF Good
    <3>3. Good(st)
      BY <3>2 DEF Good, gatewayVars
    <3> QED BY <3>1, <3>3 DEF LastInv, RefusedOK
  <2> QED BY <2>1, <2>2
<1> QED BY <1>2, <1>3, <1>4, <1>5, <1>6 DEF LastInv
LEMMA ExportRunKeepsLast ==
    ASSUME BuiltInv, LastInv, NEW b \in Builders, ExportRun(b) PROVE LastInv'
<1>1. PICK new : new = builder'[b]
  OBVIOUS
<1>2. /\ Only(b) /\ new.pc = "exported" /\ new.made = builder[b].made
      /\ new.run = [id |-> run.id, event |-> run.event, commit |-> run.commit,
                 attempt |-> run.attempt, success |-> IF run.passed = Cells THEN "yes" ELSE "no"]
  BY <1>1, ExportRunEffect DEF BuiltInv, WholeInv
<1>3. run.id \in Int /\ run.id <= run.id
  BY GatewayOK DEF BuiltInv, KeptInv, TypeInv, RunTypes, GatewayOK
<1>4. UNCHANGED <<gatewayVars, checkout, edits>> /\ job = NoJob /\ todo = {}
  BY DEF ExportRun
<1>5. ASSUME AtOnce(new.run)
      PROVE  run.passed = Cells /\ \A c \in Cells : Uploaded(new.run.id, new.run.commit, c)
  <2>1. run.passed = Cells /\ run.attempt = 1
    BY <1>2, <1>5 DEF AtOnce
  <2>2. \A c \in Cells : Uploaded(run.id, run.commit, c)
    BY <2>1 DEF LastInv, PassedOK
  <2>3. new.run.id = run.id /\ new.run.commit = run.commit
    BY <1>2
  <2> QED BY <2>1, <2>2, <2>3
<1> QED BY <1>1, <1>2, <1>3, <1>4, <1>5, BuilderKeepsLast

LEMMA ExportArtifactsKeepsLast ==
    ASSUME BuiltInv, LastInv, NEW b \in Builders, ExportArtifacts(b) PROVE LastInv'
<1>1. PICK st, new : st = builder[b] /\ new = builder'[b]
  OBVIOUS
<1>2. /\ Only(b) /\ st.pc = "exported" /\ new.pc = "start"
      /\ new.made = st.made /\ new.run = st.run
  BY <1>1, ExportArtifactsEffect DEF BuiltInv, WholeInv
<1>3. PICK id : new.rows = {a \in artifacts : a.run = id}
  BY <1>1, ExportArtifactsEffect DEF BuiltInv, WholeInv
<1>4. UNCHANGED <<gatewayVars, checkout, edits>>
  BY DEF ExportArtifacts
<1>5. AtOnce(new.run) =>
        /\ new.run.id \in Int /\ new.run.id <= run.id
        /\ new.run.id = run.id => run.passed = Cells /\ todo = {} /\ job = NoJob
        /\ \A c \in Cells : Uploaded(new.run.id, new.run.commit, c)
  BY <1>1, <1>2 DEF LastInv, ExportedOK
<1>6. OwnRows(new) => \A a \in artifacts : a.run = new.run.id => a \in new.rows
  BY <1>3 DEF OwnRows
<1> QED BY <1>1, <1>2, <1>4, <1>5, <1>6, BuilderKeepsLast

\* A later step, of a builder that keeps the run and the artifacts it has exported.
LEMMA LaterStepKeepsLast ==
    ASSUME LastInv, NEW b \in Builders, Only(b), UNCHANGED <<gatewayVars, checkout, edits>>,
           NEW st, st = builder[b], NEW new, new = builder'[b],
           new.made = "no" => st.made = "no",
           st.pc \notin {"ready", "exported"}, new.run = st.run, new.rows = st.rows,
           edits = 0 =>
               /\ new.pc \in {"digest", "assemble"} => new.suite = checkout.suite
               /\ new.pc = "assemble" => new.registry = checkout.registry,
           new.pc = "refused" /\ Good(new)' => Unreadable(new)
    PROVE  LastInv'
<1>1. AtOnce(new.run) =>
        /\ new.run.id \in Int /\ new.run.id <= run.id
        /\ new.run.id = run.id => run.passed = Cells /\ todo = {} /\ job = NoJob
        /\ \A c \in Cells : Uploaded(new.run.id, new.run.commit, c)
  BY DEF LastInv, ExportedOK
<1>2. AtOnce(new.run) /\ OwnRows(new) =>
        \A a \in artifacts : a.run = new.run.id => a \in new.rows
  BY DEF LastInv, RowsAreAll, OwnRows
<1> QED BY <1>1, <1>2, BuilderKeepsLast

\* A builder that refuses keeps what made it good.
LEMMA GoodBefore ==
    ASSUME NEW b \in Builders, Only(b), UNCHANGED <<gatewayVars, checkout, edits>>,
           NEW st, st = builder[b], NEW new, new = builder'[b],
           new.run = st.run, new.rows = st.rows, new.made = st.made, Good(new)'
    PROVE  Good(st)
<1>1. \A other \in Builders : builder[other].made = "no"
  BY DEF Good, Only
<1> QED BY <1>1 DEF Good, OwnRows, gatewayVars

LEMMA CollectKeepsLast ==
    ASSUME BuiltInv, LastInv, NEW b \in Builders, Collect(b) PROVE LastInv'
<1>1. PICK st, new : st = builder[b] /\ new = builder'[b]
  OBVIOUS
<1>2. PICK merge \in {"none", "binds"} :
        \/ new.pc = "refused" /\ ~Accepts(b, merge)
        \/ new.pc = "digest" /\ new.suite = checkout.suite
  BY <1>1, CollectEffect DEF BuiltInv, WholeInv
<1>3. /\ Only(b) /\ st.pc = "start"
      /\ new.run = st.run /\ new.rows = st.rows /\ new.made = st.made
  BY <1>1, CollectEffect DEF BuiltInv, WholeInv
<1>4. UNCHANGED <<gatewayVars, checkout, edits>>
  BY DEF Collect
<1>5. ASSUME new.pc = "refused", Good(new)' PROVE Unreadable(new)
  <2>1. Good(st)
    BY <1>1, <1>3, <1>4, <1>5, GoodBefore
  <2>2. Unreadable(st)
    BY <1>1, <1>2, <1>3, <1>5, <2>1, GoodRunsAreCollected DEF LastInv
  <2> QED BY <1>3, <2>2 DEF Unreadable
<1> QED BY <1>1, <1>2, <1>3, <1>4, <1>5, LaterStepKeepsLast

LEMMA AssembleKeepsLast ==
    ASSUME BuiltInv, LastInv, NEW b \in Builders, Assemble(b) PROVE LastInv'
<1>1. PICK st, new : st = builder[b] /\ new = builder'[b]
  OBVIOUS
<1>2. /\ Only(b) /\ st.pc = "assemble" /\ new.run = st.run /\ new.rows = st.rows
      /\ \/ /\ new.pc = "refused" /\ new.made = st.made
            /\ ~Assembles(st) \/ \E other \in Builders : builder[other].made = "yes"
         \/ new.pc = "write" /\ new.made = "yes"
  BY <1>1, AssembleEffect DEF BuiltInv, WholeInv
<1>3. UNCHANGED <<gatewayVars, checkout, edits>>
  BY DEF Assemble
<1>4. ASSUME new.pc = "refused", Good(new)' PROVE FALSE
  <2>1. new.made = st.made
    BY <1>2, <1>4
  <2>2. Good(st)
    BY <1>1, <1>2, <1>3, <1>4, <2>1, GoodBefore
  <2>3. Assembles(st)
    BY <1>1, <1>2, <2>2, GoodRunsAreAssembled DEF LastInv
  <2> QED BY <1>2, <1>4, <2>2, <2>3 DEF Good
<1> QED BY <1>1, <1>2, <1>3, <1>4, LaterStepKeepsLast

LEMMA BuildStepKeepsLast ==
    ASSUME BuiltInv, LastInv, NEW b \in Builders, BuildStep(b) PROVE LastInv'
<1>0. BuilderShape /\ UNCHANGED <<gatewayVars, checkout, edits>>
  BY DEF BuiltInv, WholeInv, BuildStep, ExportRun, ExportArtifacts, Collect, Digest, Assemble,
         WriteEvidence, WriteRelease, BuilderDies
<1>1. PICK st, new : st = builder[b] /\ new = builder'[b]
  OBVIOUS
<1>2. CASE ExportRun(b) \/ ExportArtifacts(b)
  BY <1>2, ExportRunKeepsLast, ExportArtifactsKeepsLast
<1>3. CASE Collect(b) \/ Assemble(b)
  BY <1>3, CollectKeepsLast, AssembleKeepsLast
<1>4. CASE Digest(b)
  <2>1. /\ Only(b) /\ st.pc = "digest" /\ new.pc = "assemble"
        /\ new.registry = checkout.registry /\ new.suite = st.suite
        /\ new.run = st.run /\ new.rows = st.rows /\ new.made = st.made
    BY <1>0, <1>1, <1>4, DigestEffect
  <2>2. edits = 0 => new.suite = checkout.suite
    BY <1>1, <2>1 DEF LastInv, ReadAlike
  <2> QED BY <1>0, <1>1, <2>1, <2>2, LaterStepKeepsLast
<1>5. CASE WriteEvidence(b) \/ WriteRelease(b)
  <2>1. /\ Only(b) /\ st.pc = "write" /\ new.pc \in {"write", "done"}
        /\ new.run = st.run /\ new.rows = st.rows /\ new.made = st.made
    BY <1>0, <1>1, <1>5, WriteEvidenceEffect, WriteReleaseEffect
  <2> QED BY <1>0, <1>1, <2>1, LaterStepKeepsLast
<1>6. CASE BuilderDies(b)
  <2>1. /\ Only(b) /\ st.pc \notin {"ready", "exported"} /\ new.pc = "dead"
        /\ new.run = st.run /\ new.rows = st.rows /\ new.made = st.made
    BY <1>0, <1>1, <1>6, BuilderDiesEffect DEF Keeps, BuilderDies
  <2> QED BY <1>0, <1>1, <2>1, LaterStepKeepsLast
<1> QED BY <1>2, <1>3, <1>4, <1>5, <1>6 DEF BuildStep

LEMMA GatewayKeepsLast ==
    ASSUME KeptInv, LastInv, GatewayNext, UNCHANGED assemblyVars PROVE LastInv'
<1>1. FirstAttempt' /\ PassedOK' /\ ExportedOK'
  BY GatewayKeepsFirst, GatewayKeepsPassed, GatewayKeepsExported DEF LastInv, assemblyVars
<1>2. RowsAreAll'
  <2> SUFFICES ASSUME NEW b \in Builders, NEW st, st = builder[b],
                      st.pc \notin {"ready", "exported"}, AtOnce(st.run), OwnRows(st),
                      NEW a \in artifacts', a.run = st.run.id
               PROVE  a \in st.rows
    BY DEF RowsAreAll, assemblyVars
  <2>1. a \in artifacts
    BY NothingIsAddedLater DEF LastInv
  <2> QED BY <2>1 DEF LastInv, RowsAreAll
<1>3. ReadAlike'
  BY DEF LastInv, ReadAlike, assemblyVars
<1>4. RefusedOK'
  <2>1. cap' = cap
    BY GatewayOnlyAdds DEF KeptInv
  <2> QED BY <2>1 DEF LastInv, RefusedOK, Good, Unreadable, assemblyVars, OwnRows
<1> QED BY <1>1, <1>2, <1>3, <1>4 DEF LastInv

LEMMA EditKeepsLast ==
    ASSUME KeptInv, LastInv, EditCheckout PROVE LastInv'
<1>1. UNCHANGED gatewayVars /\ builder' = builder /\ edits' = edits + 1
  BY DEF EditCheckout
<1>2. edits' # 0
  BY <1>1, GatewayOK DEF KeptInv, TypeInv, GatewayOK
<1>3. FirstAttempt' /\ PassedOK'
  BY <1>1, OthersKeepFirst DEF LastInv
<1>4. ExportedOK'
  <2> SUFFICES ASSUME NEW b \in Builders, NEW st, st = builder[b], st.pc # "ready",
                      AtOnce(st.run)
               PROVE  /\ st.run.id \in Int /\ st.run.id <= run'.id
                      /\ st.run.id = run'.id => run'.passed = Cells /\ todo' = {} /\ job' = NoJob
                      /\ \A c \in Cells : Uploaded(st.run.id, st.run.commit, c)'
    BY <1>1 DEF ExportedOK
  <2>1. /\ st.run.id \in Int /\ st.run.id <= run.id
        /\ st.run.id = run.id => run.passed = Cells /\ todo = {} /\ job = NoJob
        /\ \A c \in Cells : Uploaded(st.run.id, st.run.commit, c)
    BY DEF LastInv, ExportedOK
  <2>2. PICK id, commit : id = st.run.id /\ commit = st.run.commit
    OBVIOUS
  <2>3. \A c \in Cells : Uploaded(id, commit, c)
    BY <2>1, <2>2
  <2>4. \A c \in Cells : Uploaded(id, commit, c)'
    BY <1>1, <2>3, UploadedStays DEF gatewayVars
  <2> QED BY <1>1, <2>1, <2>2, <2>4 DEF gatewayVars
<1>5. RowsAreAll' /\ ReadAlike' /\ RefusedOK'
  BY <1>1, <1>2 DEF LastInv, RowsAreAll, ReadAlike, RefusedOK, Good, gatewayVars
<1> QED BY <1>3, <1>4, <1>5 DEF LastInv
LEMMA LastInit == Init => LastInv
<1> SUFFICES ASSUME Init PROVE LastInv
  OBVIOUS
<1>1. /\ run.id = 0 /\ run.attempt = 0 /\ artifacts = {}
      /\ \A b \in Builders : builder[b].pc = "ready"
  BY DEF Init, GatewayInit
<1> QED BY <1>1 DEF LastInv, FirstAttempt, PassedOK, ExportedOK, RowsAreAll, ReadAlike, RefusedOK

LEMMA LastStep == BuiltInv /\ LastInv /\ [Next]_vars => LastInv'
<1> SUFFICES ASSUME BuiltInv, LastInv, [Next]_vars PROVE LastInv'
  OBVIOUS
<1>1. CASE UNCHANGED vars
  <2>1. UNCHANGED <<gatewayVars, builder, checkout, edits>>
    BY <1>1 DEF vars, assemblyVars
  <2>2. FirstAttempt' /\ PassedOK'
    BY <2>1, OthersKeepFirst DEF LastInv
  <2>3. ExportedOK'
    <3>1. ASSUME NEW id, NEW commit, NEW c, Uploaded(id, commit, c)
          PROVE  Uploaded(id, commit, c)'
      BY <2>1, <3>1, UploadedStays DEF gatewayVars
    <3>2. \A b \in Builders : builder'[b] = builder[b]
      BY <2>1
    <3> SUFFICES ASSUME NEW b \in Builders, NEW st, st = builder[b], st.pc # "ready",
                        AtOnce(st.run)
                 PROVE  /\ st.run.id \in Int /\ st.run.id <= run'.id
                        /\ st.run.id = run'.id => /\ run'.passed = Cells
                                                  /\ todo' = {} /\ job' = NoJob
                        /\ \A c \in Cells : Uploaded(st.run.id, st.run.commit, c)'
      BY <2>1 DEF ExportedOK
    <3>3. PICK id, commit : id = st.run.id /\ commit = st.run.commit
      OBVIOUS
    <3>4. \A c \in Cells : Uploaded(id, commit, c)
      BY <3>3 DEF LastInv, ExportedOK
    <3>5. \A c \in Cells : Uploaded(id, commit, c)'
      BY <3>1, <3>4
    <3> QED BY <2>1, <3>3, <3>5 DEF LastInv, ExportedOK, gatewayVars
  <2>4. RowsAreAll' /\ ReadAlike' /\ RefusedOK'
    BY <2>1 DEF LastInv, RowsAreAll, ReadAlike, RefusedOK, Good, gatewayVars
  <2> QED BY <2>2, <2>3, <2>4 DEF LastInv
<1>2. CASE GatewayNext /\ UNCHANGED assemblyVars
  BY <1>2, GatewayKeepsLast DEF BuiltInv
<1>3. CASE EditCheckout
  BY <1>3, EditKeepsLast DEF BuiltInv
<1>4. ASSUME NEW b \in Builders, BuildStep(b) PROVE LastInv'
  BY <1>4, BuildStepKeepsLast
<1> QED BY <1>1, <1>2, <1>3, <1>4 DEF Next

\* A bond run that succeeded at once can be released from the commit it ran on: a builder
\* with the run's own artifacts refuses only an answer that was not a JSON object.
\* build_govt_bond_yield_release.py; validate_public_bond_outcome.
THEOREM GoodRunsCanBeReleased == Spec => []GoodRunsAreReleasable
<1>1. LastInv => GoodRunsAreReleasable
  <2> SUFFICES ASSUME LastInv, NEW b \in Builders, NEW st, st = builder[b],
                      cap = "bond", st.pc = "refused",
                      st.run.success = "yes", st.run.attempt = 1,
                      st.run.event = "workflow_dispatch",
                      st.rows # {}, \A r \in st.rows : r.run = st.run.id,
                      edits = 0, checkout = st.run.commit,
                      \A other \in Builders : builder[other].made = "no"
               PROVE  \E c \in Cells : \E f \in Entries(st.rows, "private", c) :
                         f.of = "execute" /\ f.content.json # "object"
    BY DEF GoodRunsAreReleasable, At
  <2>1. Good(st)
    BY DEF Good, AtOnce, OwnRows
  <2>2. Unreadable(st)
    BY <2>1 DEF LastInv, RefusedOK
  <2> QED BY <2>2 DEF Unreadable
<1>2. Spec => [](BuiltInv /\ LastInv)
  <2>1. Init => BuiltInv /\ LastInv
    BY BuiltInit, LastInit
  <2>2. (BuiltInv /\ LastInv) /\ [Next]_vars => (BuiltInv /\ LastInv)'
    BY BuiltStep, LastStep
  <2> QED BY <2>1, <2>2, PTL DEF Spec
<1> QED BY <1>1, <1>2, PTL
-----------------------------------------------------------------------------
(***************************************************************************)
(* Dividend events: the two judgements                                     *)
(***************************************************************************)
\* The two kinds of cases, and answers whose rows are dated by numbers.
DividendCase(case) ==
    /\ case.last \in Nat
    /\ \/ case.negative = "yes"
       \/ case.negative = "no" /\ {"effective_date", "amount"} \subseteq case.conditions

DividendAnswer(p) ==
    Len(p.rows) \in Nat /\ \A i \in 1..Len(p.rows) : p.rows[i].date \in Nat \cup {Absent}

LEMMA LatestDividendIsARow ==
    ASSUME NEW case, NEW p, DividendCase(case), DividendAnswer(p), DividendRows(case, p) # {}
    PROVE  \E i \in 1..Len(p.rows) :
              /\ LatestDividend(case, p) = p.rows[i]
              /\ p.rows[i].date # Absent => InWindow(case, p.rows[i].date)
<1> DEFINE n       == Len(p.rows)
           when(i) == IF p.rows[i].date = Absent THEN 0 ELSE p.rows[i].date
           rows    == DividendRows(case, p)
           best(i) == \A j \in rows : \/ when(j) < when(i)
                                      \/ when(j) = when(i) /\ i <= j
<1>1. rows \subseteq 1..n /\ n \in Nat
  BY DEF DividendRows, DividendAnswer
<1>2. \A i \in rows : when(i) \in Nat /\ when(i) <= case.last
  BY <1>1 DEF DividendRows, DividendAnswer, DividendCase, InWindow
<1>3. PICK dated : dated = [i \in rows |-> [date |-> when(i)]]
  OBVIOUS
<1>4. \A i \in rows : dated[i].date = when(i)
  BY <1>3
<1>5. PICK i \in rows : \A j \in rows : \/ dated[j].date < dated[i].date
                                        \/ dated[j].date = dated[i].date /\ i <= j
  <2>1. \A j \in rows : dated[j].date \in Int /\ dated[j].date <= case.last
    BY <1>2, <1>4
  <2>2. case.last \in Int
    BY DEF DividendCase
  <2> HIDE DEF rows, n, when
  <2> QED BY <1>1, <2>1, <2>2, LatestRow DEF rows
<1>6. \E k \in rows : best(k)
  BY <1>4, <1>5
<1>7. PICK k : k = CHOOSE x \in rows : best(x)
  OBVIOUS
<1>8. k \in rows
  BY <1>6, <1>7
<1>9. LatestDividend(case, p) = p.rows[k]
  BY <1>7 DEF LatestDividend
<1> QED BY <1>1, <1>8, <1>9 DEF DividendRows

\* What the adapter has found in an answer.
LEMMA DividendExtracted ==
    ASSUME NEW case, NEW identity, NEW p, case.negative # "yes"
    PROVE  \/ ExtractDividend(case, identity, p).kind = "raises"
           \/ ExtractDividend(case, identity, p)
                 = DividendFacts(case, identity, NoDividend, Absent)
           \/ /\ DividendRows(case, p) # {}
              /\ ExtractDividend(case, identity, p)
                    = DividendFacts(case, identity, LatestDividend(case, p),
                                    FirstOf(LatestDividend(case, p).symbol, p.symbol))
BY DEF ExtractDividend

\* The outcome of a case that is no control.
LEMMA DividendOutcome ==
    ASSUME NEW case, NEW identity, NEW p, NEW facts,
           facts = ExtractDividend(case, identity, p), facts.kind = "dividend",
           NEW unmet, unmet = Unmet(case, facts) \cup
                                IF facts.verified = "yes" THEN {} ELSE {"identity_verified"},
           NEW o, o = EvaluateDividend(case, identity, p)
    PROVE  /\ Judgement(o) = DividendJudgement(unmet) /\ o.facts = facts
           /\ o.state = "completed" <=> unmet = {}
<1>1. PICK j : j = DividendJudgement(unmet)
  OBVIOUS
<1>2. j = Judged(j.state, j.unmet, j.attribution)
  BY <1>1 DEF DividendJudgement, Judged
<1>3. o = WithFacts(j, facts)
  BY <1>1 DEF EvaluateDividend
<1>4. j.state = "completed" <=> unmet = {}
  BY <1>1 DEF DividendJudgement, Judged
<1> QED BY <1>1, <1>2, <1>3, <1>4 DEF WithFacts, Outcome, Judgement, Judged

\* A completed outcome has an answer behind it.
LEMMA DividendAnswered ==
    ASSUME NEW case, NEW identity, NEW p, DividendCase(case), DividendAnswer(p),
           EvaluateDividend(case, identity, p).state = "completed"
    PROVE  AnsweredIn(case, identity, p)
<1>1. CASE case.negative = "yes"
  BY <1>1 DEF EvaluateDividend, ExtractDividend, Outcome, AnsweredIn, Refused, Malformed
<1>2. CASE case.negative # "yes"
  <2> DEFINE facts == ExtractDividend(case, identity, p)
  <2>1. facts.kind # "raises"
    BY DEF EvaluateDividend, Outcome
  <2>2. facts.kind = "dividend"
    BY <1>2, <2>1, DividendExtracted DEF DividendFacts
  <2>3. Unmet(case, facts) = {} /\ facts.verified = "yes"
    <3>1. PICK unmet : unmet = Unmet(case, facts) \cup
                                 IF facts.verified = "yes" THEN {} ELSE {"identity_verified"}
      OBVIOUS
    <3>2. PICK o : o = EvaluateDividend(case, identity, p)
      OBVIOUS
    <3>3. o.state = "completed"
      BY <3>2
    <3>4. unmet = {}
      <4> HIDE DEF facts
      <4> QED BY <2>2, <3>1, <3>2, <3>3, DividendOutcome DEF facts
    <3> QED BY <3>1, <3>4
  <2>4. facts.date # Absent /\ facts.amount # Absent
    BY <1>2, <2>3 DEF Unmet, DividendCase
  <2>5. PICK row : /\ row = LatestDividend(case, p) /\ DividendRows(case, p) # {}
                   /\ facts = DividendFacts(case, identity, row, FirstOf(row.symbol, p.symbol))
    BY <1>2, <2>1, <2>4, DividendExtracted DEF DividendFacts, NoDividend
  <2>6. PICK i \in 1..Len(p.rows) : /\ row = p.rows[i]
                                    /\ p.rows[i].date # Absent => InWindow(case, p.rows[i].date)
    BY <2>5, LatestDividendIsARow
  <2>7. facts.date = row.date /\ facts.amount = row.value
    BY <2>5 DEF DividendFacts
  <2>8. LET symbol == FirstOf(row.symbol, p.symbol)
        IN  symbol = Absent \/ symbol.code \in {identity.vendor.code, identity.canonical.code}
    BY <2>3, <2>5 DEF DividendFacts, DividendIdentity
  <2> QED BY <1>2, <2>4, <2>6, <2>7, <2>8 DEF AnsweredIn
<1> QED BY <1>1, <1>2

\* Adapter and validator agree, but for a control that is answered with rows.
LEMMA DividendJudgementsAgree ==
    ASSUME NEW case, NEW identity, NEW p, NEW o, o = EvaluateDividend(case, identity, p),
           o.state # "raises",
           case.negative = "yes" => o.state # "provider_negative",
           case.negative # "yes" => identity.canonical = case.symbol
    PROVE  Judgement(o) = ValidateDividend(case, identity, o.facts)
<1> DEFINE facts == ExtractDividend(case, identity, p)
<1>1. facts.kind # "raises"
  BY DEF EvaluateDividend, Outcome
<1>2. CASE case.negative = "yes"
  <2>1. facts.kind # "control_failed"
    BY <1>2 DEF EvaluateDividend, Outcome
  <2>2. facts = Rejection
    BY <1>1, <1>2, <2>1 DEF ExtractDividend, Refused, Malformed
  <2>3. o = WithFacts(DividendJudgement({}), Rejection)
    BY <2>2 DEF EvaluateDividend, Rejection
  <2>4. o.facts.kind = "rejection" /\ Judgement(o) = DividendJudgement({})
    BY <2>3 DEF WithFacts, DividendJudgement, Judged, Judgement, Outcome, Rejection
  <2> QED BY <1>2, <2>4 DEF ValidateDividend
<1>3. CASE case.negative # "yes"
  <2>1. PICK row, symbol : facts = DividendFacts(case, identity, row, symbol)
    BY <1>1, <1>3, DividendExtracted
  <2>2. facts.kind = "dividend"
    BY <2>1 DEF DividendFacts
  <2> DEFINE unmet == Unmet(case, facts) \cup
                        IF facts.verified = "yes" THEN {} ELSE {"identity_verified"}
  <2>3. Judgement(o) = DividendJudgement(unmet) /\ o.facts = facts
    BY <2>2, DividendOutcome
  <2> DEFINE valid == /\ facts.symbol = case.symbol /\ identity.canonical = case.symbol
                      /\ \/ facts.basis = "request_bound" /\ facts.returned = Absent
                         \/ /\ facts.basis = "response_field" /\ facts.returned # Absent
                            /\ facts.returned.code \in {identity.vendor.code,
                                                        identity.canonical.code}
  <2>4. facts.verified = "yes" <=> valid
    BY <1>3, <2>1 DEF DividendFacts, DividendIdentity
  <2>5. ValidateDividend(case, identity, facts)
           = DividendJudgement(Unmet(case, facts) \cup
                                 IF valid THEN {} ELSE {"identity_verified"})
    BY <1>3, <2>2 DEF ValidateDividend
  <2> QED BY <2>3, <2>4, <2>5
<1> QED BY <1>2, <1>3

-----------------------------------------------------------------------------
(***************************************************************************)
(* Dividend events: runs, evidence directory and scripts                   *)
(***************************************************************************)
MarketTerminals ==
    {MarketTerminal(id, r, c, p) : id \in 1..MaxMarketRuns, r \in MarketRevisions,
                                   c \in MarketCells, p \in UNION {MarketAnswers(d) : d \in MarketCells}}

MarketRecords ==
    [revision : MarketRevisions, tries : [MarketCells -> Int],
     kept : UNION {[S -> MarketTerminals] : S \in SUBSET MarketCells}]

\* A terminal of a run is what the run made of an answer to its cell.
OfRun(t, id, r, c) ==
    \E p \in MarketAnswers(c) : t = MarketTerminal(id, r, c, p) /\ t.outcome.state # "raises"

RunsOK ==
    /\ runs \in Seq(MarketRecords) /\ Len(runs) <= MaxMarketRuns
    /\ \A id \in 1..Len(runs) : \A c \in DOMAIN runs[id].kept :
          OfRun(runs[id].kept[c], id, runs[id].revision, c)

\* What nothing that happens later changes.
Over(id)     == id \in 1..Len(runs) /\ Completed(id) /\ Succeeded(id)
AttestsTo(a) == Over(a.run) /\ a.terminals = runs[a.run].kept
MadeOf(b)    == /\ Over(b.run)
                /\ troubles <= 1 => /\ b.terminals = runs[b.run].kept
                                    /\ runs[b.run].revision = b.revision

FilesOK ==
    /\ troubles \in Nat
    /\ public = [c \in MarketCells |-> public[c]]
    /\ bundle = [f \in DOMAIN bundle |-> bundle[f]]
    /\ attestation \notin {NoDocument, Partial} => AttestsTo(attestation)
    /\ \A f \in DOMAIN bundle : bundle[f] \notin {NoDocument, Partial} => MadeOf(bundle[f])

Building == {"compiled", "attested", "parsed"}

\* What a script has in memory.
ScriptOK ==
    /\ script.pc = "compare" =>
          /\ script = [pc |-> "compare", run |-> script.run, left |-> script.left,
                       same |-> script.same]
          /\ Over(script.run)
    /\ script.pc \in Building =>
          /\ script = [pc |-> script.pc, compiled |-> script.compiled,
                       attested |-> script.attested, registry |-> script.registry,
                       terminals |-> script.terminals]
          /\ RequestsBound(script.compiled)
    /\ script.pc \in {"attested", "parsed"} => AttestsTo(script.attested)
    /\ script.pc = "writing" =>
          /\ script = [pc |-> "writing", next |-> script.next, run |-> script.run,
                       revision |-> script.revision, terminals |-> script.terminals]
          /\ MadeOf(script)

\* What one edit may have done since the attestation was compared.
EditsOK ==
    /\ script.pc = "attested" /\ troubles = 0 => public = script.attested.terminals
    /\ script.pc = "parsed" /\ troubles <= 1 =>
          \/ script.terminals = script.attested.terminals
          \/ troubles = 1 /\ script.terminals = public

\* Without any trouble, memory and files agree.
CalmOK ==
    troubles = 0 =>
    /\ script.pc \in Building => script.compiled = revision
    /\ script.pc \in {"attested", "parsed"} => script.attested = attestation
    /\ script.pc = "parsed" => script.registry = revision /\ script.terminals = public

MarketInv == RunsOK /\ FilesOK /\ ScriptOK /\ EditsOK /\ CalmOK /\ GoodDividendRunsAreReleasable

LEMMA MarketStart == MarketInit => MarketInv
<1> SUFFICES ASSUME MarketInit PROVE MarketInv
  OBVIOUS
<1> USE DEF MarketInit, NoScript
<1>1. RunsOK
  BY MarketOK DEF MarketOK, RunsOK
<1>2. FilesOK
  BY DEF FilesOK
<1>3. ScriptOK /\ EditsOK /\ CalmOK
  BY DEF ScriptOK, EditsOK, CalmOK, Building
<1>4. GoodDividendRunsAreReleasable
  BY DEF GoodDividendRunsAreReleasable
<1> QED BY <1>1, <1>2, <1>3, <1>4 DEF MarketInv

-----------------------------------------------------------------------------
\* One run changes, if any does, and that one is not over.
OneRunGoesOn ==
    \E id \in 1..Len(runs) :
        /\ ~Over(id) /\ runs' \in Seq(MarketRecords) /\ Len(runs') = Len(runs)
        /\ \A k \in 1..Len(runs) : k # id => runs'[k] = runs[k]
        /\ runs'[id].revision = runs[id].revision
        /\ \A c \in DOMAIN runs'[id].kept :
              OfRun(runs'[id].kept[c], id, runs[id].revision, c)

LEMMA MarketRunEffect ==
    ASSUME RunsOK, MarketRun
    PROVE  /\ runs' \in Seq(MarketRecords) /\ Len(runs') = Len(runs) + 1
           /\ Len(runs) < MaxMarketRuns
           /\ \A k \in 1..Len(runs) : runs'[k] = runs[k]
           /\ DOMAIN runs'[Len(runs')].kept = {}
<1>1. PICK nothing, twice : /\ nothing = [c \in {} |-> NoDocument]
                            /\ twice = [c \in MarketCells |-> 2]
  OBVIOUS
<1>2. PICK r, new :
        /\ r \in MarketRevisions
        /\ new = [revision |-> r, tries |-> twice, kept |-> nothing]
        /\ runs' = Append(runs, new)
  BY <1>1 DEF MarketRun
<1>3. nothing \in [{} -> MarketTerminals] /\ DOMAIN nothing = {}
  BY <1>1
<1>4. nothing \in UNION {[S -> MarketTerminals] : S \in SUBSET MarketCells}
  BY <1>3
<1>5. new \in MarketRecords /\ DOMAIN new.kept = {}
  <2>1. twice \in [MarketCells -> Int]
    BY <1>1
  <2>2. new.kept = nothing
    BY <1>2
  <2> QED BY <1>2, <1>3, <1>4, <2>1, <2>2 DEF MarketRecords
<1>6. runs \in Seq(MarketRecords)
  BY DEF RunsOK
<1>7. /\ runs' \in Seq(MarketRecords) /\ Len(runs') = Len(runs) + 1
      /\ \A k \in 1..Len(runs) : runs'[k] = runs[k]
      /\ runs'[Len(runs)+1] = new
  BY <1>2, <1>5, <1>6
<1>8. Len(runs) < MaxMarketRuns
  BY DEF MarketRun
<1> QED BY <1>5, <1>7, <1>8

LEMMA MarketRerunEffect ==
    ASSUME RunsOK, MarketRerun
    PROVE  OneRunGoesOn
<1>1. PICK id, old, tries, new :
        /\ id = Len(runs) /\ old = runs[id]
        /\ tries = [c \in MarketCells |-> IF c \in DOMAIN runs[id].kept THEN 0 ELSE 2]
        /\ new = [old EXCEPT !.tries = tries]
  OBVIOUS
<1>2. runs \in Seq(MarketRecords) /\ id \in 1..Len(runs) /\ ~Succeeded(id)
  BY <1>1 DEF RunsOK, MarketRerun
<1>3. runs' = [runs EXCEPT ![id] = new]
  BY <1>1 DEF MarketRerun
<1>4. old \in MarketRecords
  BY <1>1, <1>2
<1>5. tries \in [MarketCells -> Int]
  BY <1>1
<1>6. new \in MarketRecords /\ new.revision = old.revision /\ new.kept = old.kept
  BY <1>1, <1>4, <1>5 DEF MarketRecords
<1>7. /\ runs' \in Seq(MarketRecords) /\ Len(runs') = Len(runs) /\ runs'[id] = new
      /\ \A k \in 1..Len(runs) : k # id => runs'[k] = runs[k]
  BY <1>2, <1>3, <1>6
<1>8. \A c \in DOMAIN old.kept : OfRun(old.kept[c], id, old.revision, c)
  BY <1>1, <1>2 DEF RunsOK
<1> QED BY <1>1, <1>2, <1>6, <1>7, <1>8 DEF OneRunGoesOn, Over

LEMMA MarketTestEffect ==
    ASSUME RunsOK, NEW cell \in MarketCells, MarketTest(cell)
    PROVE  OneRunGoesOn /\ (Calm \/ Trouble)
<1>1. PICK id, old : id = Len(runs) /\ old = runs[id]
  OBVIOUS
<1>2. /\ runs \in Seq(MarketRecords) /\ id \in 1..Len(runs) /\ id \in 1..MaxMarketRuns
      /\ ~Completed(id)
  BY <1>1, MarketOK DEF MarketOK, RunsOK, MarketTest, Completed
<1>3. old \in MarketRecords
  BY <1>1, <1>2
<1>4. \A c \in DOMAIN old.kept : OfRun(old.kept[c], id, old.revision, c)
  BY <1>1, <1>2 DEF RunsOK
<1>5. SUFFICES \E new \in MarketRecords :
        /\ runs' = [runs EXCEPT ![id] = new] /\ new.revision = old.revision
        /\ \A c \in DOMAIN new.kept : OfRun(new.kept[c], id, old.revision, c)
  <2>1. PICK new \in MarketRecords :
        /\ runs' = [runs EXCEPT ![id] = new] /\ new.revision = old.revision
        /\ \A c \in DOMAIN new.kept : OfRun(new.kept[c], id, old.revision, c)
    BY <1>5
  <2>2. /\ runs' \in Seq(MarketRecords) /\ Len(runs') = Len(runs) /\ runs'[id] = new
        /\ \A k \in 1..Len(runs) : k # id => runs'[k] = runs[k]
    BY <1>2, <2>1
  <2>3. Calm \/ Trouble
    BY DEF MarketTest
  <2> QED BY <1>1, <1>2, <2>1, <2>2, <2>3 DEF OneRunGoesOn, Over
<1>6. CASE runs' = [runs EXCEPT ![Len(runs)].tries[cell] = @ - 1]
  <2>1. PICK tries, new : /\ tries = [old.tries EXCEPT ![cell] = @ - 1]
                          /\ new = [old EXCEPT !.tries = tries]
    OBVIOUS
  <2>2. tries \in [MarketCells -> Int]
    BY <1>3, <2>1 DEF MarketRecords
  <2>3. new \in MarketRecords /\ new.revision = old.revision /\ new.kept = old.kept
    BY <1>3, <2>1, <2>2 DEF MarketRecords
  <2>4. runs' = [runs EXCEPT ![id] = new]
    BY <1>1, <1>6, <2>1
  <2> QED BY <1>4, <2>3, <2>4
<1>7. ASSUME NEW p \in MarketAnswers(cell), NEW t,
             t = MarketTerminal(Len(runs), runs[Len(runs)].revision, cell, p), t.outcome.state # "raises",
             runs' = [runs EXCEPT
                        ![Len(runs)].tries[cell] = 0,
                        ![Len(runs)].kept = [d \in DOMAIN @ \cup {cell} |-> IF d = cell THEN t ELSE @[d]]]
      PROVE  \E new \in MarketRecords :
        /\ runs' = [runs EXCEPT ![id] = new] /\ new.revision = old.revision
        /\ \A c \in DOMAIN new.kept : OfRun(new.kept[c], id, old.revision, c)
  <2>1. PICK tries, kept, new :
          /\ tries = [old.tries EXCEPT ![cell] = 0]
          /\ kept = [d \in DOMAIN old.kept \cup {cell} |-> IF d = cell THEN t ELSE old.kept[d]]
          /\ new = [old EXCEPT !.tries = tries, !.kept = kept]
    OBVIOUS
  <2>2. tries \in [MarketCells -> Int]
    BY <1>3, <2>1 DEF MarketRecords
  <2>3. t \in MarketTerminals
    BY <1>1, <1>2, <1>3, <1>7 DEF MarketTerminals, MarketRecords
  <2>4. PICK S \in SUBSET MarketCells : old.kept \in [S -> MarketTerminals]
    BY <1>3 DEF MarketRecords
  <2>5. kept \in [S \cup {cell} -> MarketTerminals] /\ S \cup {cell} \in SUBSET MarketCells
    BY <2>1, <2>3, <2>4
  <2>6. kept \in UNION {[T -> MarketTerminals] : T \in SUBSET MarketCells}
    BY <2>5
  <2>7. new \in MarketRecords /\ new.revision = old.revision /\ new.kept = kept
    BY <1>3, <2>1, <2>2, <2>6 DEF MarketRecords
  <2>8. OfRun(t, id, old.revision, cell)
    BY <1>1, <1>7 DEF OfRun
  <2>9. \A c \in DOMAIN kept : OfRun(kept[c], id, old.revision, c)
    BY <1>4, <2>1, <2>8
  <2>10. runs' = [runs EXCEPT ![id] = new]
    BY <1>1, <1>7, <2>1
  <2> QED BY <2>7, <2>9, <2>10
<1>8. \/ runs' = [runs EXCEPT ![Len(runs)].tries[cell] = @ - 1]
      \/ \E p \in MarketAnswers(cell) : LET t == MarketTerminal(Len(runs), runs[Len(runs)].revision, cell, p) IN
            /\ t.outcome.state # "raises"
            /\ runs' = [runs EXCEPT
                  ![Len(runs)].tries[cell] = 0,
                  ![Len(runs)].kept = [d \in DOMAIN @ \cup {cell} |-> IF d = cell THEN t ELSE @[d]]]
  BY DEF MarketTest
<1> QED BY <1>1, <1>6, <1>7, <1>8

\* A run that is over stays as it is, and troubles are never forgotten.
RunsGoOn ==
    /\ RunsOK'
    /\ \A id : Over(id) => Over(id)' /\ runs'[id] = runs[id]
    /\ troubles' \in {troubles, troubles + 1}

LEMMA WorkflowGoesOn ==
    ASSUME RunsOK, \/ MarketRun \/ MarketRerun
                   \/ \E c \in MarketCells : MarketTest(c)
    PROVE  RunsGoOn
<1> USE DEF RunsGoOn
<1>1. CASE MarketRun
  <2>1. /\ runs' \in Seq(MarketRecords) /\ Len(runs') = Len(runs) + 1
        /\ Len(runs) < MaxMarketRuns
        /\ \A k \in 1..Len(runs) : runs'[k] = runs[k]
        /\ DOMAIN runs'[Len(runs')].kept = {}
    BY <1>1, MarketRunEffect
  <2>2. Len(runs) \in Nat
    BY DEF RunsOK
  <2>3. RunsOK'
    BY <2>1, <2>2, MarketOK DEF RunsOK, MarketOK
  <2>4. \A id : Over(id) => Over(id)' /\ runs'[id] = runs[id]
    BY <2>1, <2>2 DEF Over, Completed, Succeeded
  <2> QED BY <1>1, <2>3, <2>4 DEF MarketRun
<1>2. CASE OneRunGoesOn /\ (Calm \/ Trouble)
  <2>1. PICK id \in 1..Len(runs) :
          /\ ~Over(id) /\ runs' \in Seq(MarketRecords) /\ Len(runs') = Len(runs)
          /\ \A k \in 1..Len(runs) : k # id => runs'[k] = runs[k]
          /\ runs'[id].revision = runs[id].revision
          /\ \A c \in DOMAIN runs'[id].kept :
                OfRun(runs'[id].kept[c], id, runs[id].revision, c)
    BY <1>2 DEF OneRunGoesOn
  <2>2. RunsOK'
    BY <2>1 DEF RunsOK
  <2>3. \A k : Over(k) => Over(k)' /\ runs'[k] = runs[k]
    BY <2>1 DEF Over, Completed, Succeeded
  <2> QED BY <1>2, <2>2, <2>3 DEF Calm, Trouble
<1> QED BY <1>1, <1>2, MarketRerunEffect, MarketTestEffect DEF MarketRerun, Calm

LEMMA OthersLeaveRuns ==
    ASSUME RunsOK, UNCHANGED runs, Calm \/ Trouble
    PROVE  RunsGoOn
BY DEF RunsGoOn, RunsOK, Over, Completed, Succeeded, Calm, Trouble

LEMMA AttestedStays ==
    ASSUME RunsGoOn, NEW a, AttestsTo(a)
    PROVE  AttestsTo(a)'
BY DEF RunsGoOn, AttestsTo

LEMMA BuiltStays ==
    ASSUME RunsGoOn, troubles \in Nat, NEW b, MadeOf(b)
    PROVE  MadeOf(b)'
BY DEF RunsGoOn, MadeOf

\* Whatever becomes of the evidence files, attestation and release stay.
LEMMA FilesStay ==
    ASSUME RunsGoOn, FilesOK, UNCHANGED <<attestation, bundle>>,
           public' = [c \in MarketCells |-> public'[c]]
    PROVE  FilesOK'
<1>1. troubles' \in Nat
  BY DEF FilesOK, RunsGoOn
<1>2. attestation' \notin {NoDocument, Partial} => AttestsTo(attestation)'
  BY AttestedStays DEF FilesOK
<1>3. \A f \in DOMAIN bundle : bundle[f] \notin {NoDocument, Partial} => MadeOf(bundle[f])'
  BY BuiltStays DEF FilesOK
<1> QED BY <1>1, <1>2, <1>3 DEF FilesOK

\* No script does anything.
LEMMA ScriptStays ==
    ASSUME RunsGoOn, FilesOK, ScriptOK, UNCHANGED script
    PROVE  ScriptOK'
<1>1. script.pc = "compare" => Over(script.run)'
  BY DEF ScriptOK, RunsGoOn
<1>2. script.pc \in {"attested", "parsed"} => AttestsTo(script.attested)'
  BY AttestedStays DEF ScriptOK
<1>3. script.pc = "writing" => MadeOf(script)'
  BY BuiltStays DEF ScriptOK, FilesOK
<1> QED BY <1>1, <1>2, <1>3 DEF ScriptOK, RequestsBound

\* The property itself is about nothing that a script, an editor or a run that is over changes.
LEMMA FailureStays ==
    ASSUME RunsGoOn, FilesOK, GoodDividendRunsAreReleasable,
           UNCHANGED <<public, attestation, script>>
    PROVE  GoodDividendRunsAreReleasable'
<1>1. troubles' = 0 => troubles = 0
  BY DEF RunsGoOn, FilesOK
<1>2. attestation \notin {NoDocument, Partial} => runs'[attestation.run] = runs[attestation.run]
  BY DEF RunsGoOn, FilesOK, AttestsTo
<1> QED BY <1>1, <1>2 DEF GoodDividendRunsAreReleasable, RequestsBound

LEMMA WorkflowKeeps ==
    ASSUME MarketInv, \/ MarketRun \/ MarketRerun
                      \/ \E c \in MarketCells : MarketTest(c)
    PROVE  MarketInv'
<1>1. RunsGoOn
  BY WorkflowGoesOn DEF MarketInv
<1>2. UNCHANGED <<public, attestation, bundle, script, revision>>
  BY DEF MarketRun, MarketRerun, MarketTest
<1>3. public' = [c \in MarketCells |-> public'[c]]
  BY <1>2 DEF MarketInv, FilesOK
<1>4. RunsOK' /\ FilesOK' /\ ScriptOK' /\ GoodDividendRunsAreReleasable'
  BY <1>1, <1>2, <1>3, FilesStay, ScriptStays, FailureStays DEF MarketInv, RunsGoOn
<1>5. troubles \in Nat /\ troubles' \in {troubles, troubles + 1}
  BY <1>1 DEF RunsGoOn, MarketInv, FilesOK
<1>6. EditsOK' /\ CalmOK'
  BY <1>2, <1>5 DEF MarketInv, EditsOK, CalmOK
<1> QED BY <1>4, <1>6 DEF MarketInv

LEMMA CopyKeeps ==
    ASSUME MarketInv, NEW c \in MarketCells, CopyTerminal(c)
    PROVE  MarketInv'
<1>1. /\ script.pc = "none" /\ UNCHANGED <<runs, attestation, bundle, script, revision, troubles>>
      /\ \E t : public' = [public EXCEPT ![c] = t]
  BY DEF CopyTerminal, NoScript
<1>2. RunsGoOn
  BY <1>1, OthersLeaveRuns DEF MarketInv, Calm
<1>3. FilesOK'
  <2>1. public' = [d \in MarketCells |-> public'[d]]
    BY <1>1 DEF MarketInv, FilesOK
  <2> QED BY <1>1, <1>2, <2>1, FilesStay DEF MarketInv
<1>4. ScriptOK'
  BY <1>1, <1>2, ScriptStays DEF MarketInv
<1>5. EditsOK' /\ CalmOK' /\ GoodDividendRunsAreReleasable'
  BY <1>1 DEF EditsOK, CalmOK, GoodDividendRunsAreReleasable, Building
<1> QED BY <1>2, <1>3, <1>4, <1>5 DEF MarketInv, RunsGoOn

LEMMA EditKeeps ==
    ASSUME MarketInv, EditMarket
    PROVE  MarketInv'
<1>1. /\ UNCHANGED <<runs, attestation, bundle, script>>
      /\ troubles' = troubles + 1 /\ troubles \in Nat
      /\ \/ UNCHANGED public
         \/ \E c \in MarketCells : \E t : public' = [public EXCEPT ![c] = t]
  BY DEF EditMarket, Trouble, MarketInv, FilesOK
<1>2. RunsGoOn
  BY <1>1, OthersLeaveRuns DEF MarketInv, EditMarket
<1>3. FilesOK'
  <2>1. public' = [d \in MarketCells |-> public'[d]]
    BY <1>1 DEF MarketInv, FilesOK
  <2> QED BY <1>1, <1>2, <2>1, FilesStay DEF MarketInv
<1>4. ScriptOK'
  BY <1>1, <1>2, ScriptStays DEF MarketInv
<1>5. EditsOK' /\ CalmOK' /\ GoodDividendRunsAreReleasable'
  BY <1>1 DEF MarketInv, EditsOK, CalmOK, GoodDividendRunsAreReleasable
<1> QED BY <1>2, <1>3, <1>4, <1>5 DEF MarketInv, RunsGoOn

\* A script that reads.
LEMMA ReadingGoesOn ==
    ASSUME MarketInv, Calm \/ Trouble, UNCHANGED <<runs, public, attestation, bundle, revision>>
    PROVE  RunsGoOn /\ RunsOK' /\ FilesOK'
<1>1. RunsGoOn
  BY OthersLeaveRuns DEF MarketInv
<1>2. public' = [c \in MarketCells |-> public'[c]]
  BY DEF MarketInv, FilesOK
<1> QED BY <1>1, <1>2, FilesStay DEF MarketInv, RunsGoOn

\* What is over stays over, and attested what is attested, while nothing happens to the runs.
LEMMA SameRuns ==
    ASSUME MarketInv, Calm, UNCHANGED runs
    PROVE  /\ troubles \in Nat /\ troubles' = troubles
           /\ \A id : Over(id) => Over(id)'
           /\ \A a : AttestsTo(a) => AttestsTo(a)'
           /\ \A b : MadeOf(b) => MadeOf(b)'
           /\ \A r : RequestsBound(r)' = RequestsBound(r)
BY DEF MarketInv, FilesOK, Calm, Over, Completed, Succeeded, AttestsTo, MadeOf, RequestsBound

LEMMA ExportKeeps ==
    ASSUME MarketInv, ExportMarketRun \/ CompareTerminal
    PROVE  MarketInv'
<1>1. Calm /\ UNCHANGED <<runs, public, attestation, bundle, revision>>
  BY DEF ExportMarketRun, CompareTerminal
<1>2. RunsOK' /\ FilesOK'
  BY <1>1, ReadingGoesOn
<1>3. \/ script' = NoScript
      \/ \E id, left, same : /\ script' = [pc |-> "compare", run |-> id, left |-> left, same |-> same]
                             /\ Over(id)
  <2>1. CASE ExportMarketRun
    BY <2>1 DEF ExportMarketRun, Go, Over
  <2>2. CASE CompareTerminal
    <3>1. PICK old : old = script
      OBVIOUS
    <3>2. PICK id, l, s : old = [pc |-> "compare", run |-> id, left |-> l, same |-> s] /\ Over(id)
      BY <2>2, <3>1 DEF CompareTerminal, MarketInv, ScriptOK
    <3>3. \/ script' = NoScript
          \/ \E left, same : script' = [old EXCEPT !.left = left, !.same = same]
      BY <2>2, <3>1 DEF CompareTerminal, Go, Ends
    <3>4. ASSUME NEW left, NEW same, script' = [old EXCEPT !.left = left, !.same = same]
          PROVE  script' = [pc |-> "compare", run |-> id, left |-> left, same |-> same]
      BY <3>2, <3>4
    <3> QED BY <3>2, <3>3, <3>4
  <2> QED BY <2>1, <2>2
<1>4. ScriptOK'
  BY <1>1, <1>3, SameRuns DEF ScriptOK, NoScript, Building
<1>5. script'.pc \in {"none", "compare"}
  BY <1>3 DEF NoScript
<1>6. EditsOK' /\ CalmOK' /\ GoodDividendRunsAreReleasable'
  BY <1>5 DEF EditsOK, CalmOK, GoodDividendRunsAreReleasable, Building
<1> QED BY <1>2, <1>4, <1>6 DEF MarketInv

LEMMA StopKeeps ==
    ASSUME MarketInv, ScriptStops
    PROVE  MarketInv'
<1>1. /\ script'.pc = "none" /\ (Calm \/ Trouble)
      /\ UNCHANGED <<runs, public, attestation, bundle, revision>>
  BY DEF ScriptStops, Ends, NoScript
<1>2. RunsOK' /\ FilesOK'
  BY <1>1, ReadingGoesOn
<1>3. ScriptOK' /\ EditsOK' /\ CalmOK' /\ GoodDividendRunsAreReleasable'
  BY <1>1 DEF ScriptOK, EditsOK, CalmOK, GoodDividendRunsAreReleasable, Building
<1> QED BY <1>2, <1>3 DEF MarketInv

LEMMA AttestKeeps ==
    ASSUME MarketInv, Attest
    PROVE  MarketInv'
<1>1. /\ Calm /\ UNCHANGED <<runs, public, bundle, revision>> /\ script.pc = "compare"
      /\ script' = NoScript \/ script' = script
      /\ \/ attestation' = attestation
         \/ attestation' = Partial
         \/ attestation' = [run |-> script.run, terminals |-> runs[script.run].kept]
  BY DEF Attest, Ends
<1>2. RunsGoOn
  BY <1>1, OthersLeaveRuns DEF MarketInv
<1>3. attestation' \notin {NoDocument, Partial} => AttestsTo(attestation')
  <2>1. CASE attestation' = [run |-> script.run, terminals |-> runs[script.run].kept]
    <3>1. Over(script.run)
      BY <1>1 DEF MarketInv, ScriptOK
    <3> QED BY <2>1, <3>1 DEF AttestsTo
  <2> QED BY <1>1, <2>1 DEF MarketInv, FilesOK
<1>4. FilesOK'
  <2>1. /\ troubles' \in Nat
        /\ public' = [c \in MarketCells |-> public'[c]]
        /\ bundle' = [f \in DOMAIN bundle' |-> bundle'[f]]
    BY <1>1 DEF MarketInv, FilesOK, Calm
  <2>2. attestation' \notin {NoDocument, Partial} => AttestsTo(attestation)'
    BY <1>1, <1>3, SameRuns DEF AttestsTo, Over, Completed, Succeeded
  <2>3. \A f \in DOMAIN bundle : bundle[f] \notin {NoDocument, Partial} => MadeOf(bundle[f])'
    BY <1>1, SameRuns DEF MarketInv, FilesOK
  <2> QED BY <1>1, <2>1, <2>2, <2>3 DEF FilesOK
<1>5. ScriptOK'
  <2>1. CASE script' = script
    BY <1>2, <2>1, ScriptStays DEF MarketInv
  <2>2. CASE script' = NoScript
    BY <2>2 DEF ScriptOK, NoScript, Building
  <2> QED BY <1>1, <2>1, <2>2
<1>6. script'.pc \in {"none", "compare"}
  BY <1>1 DEF NoScript
<1>7. EditsOK' /\ CalmOK' /\ GoodDividendRunsAreReleasable'
  BY <1>6 DEF EditsOK, CalmOK, GoodDividendRunsAreReleasable, Building
<1> QED BY <1>2, <1>4, <1>5, <1>7 DEF MarketInv, RunsGoOn

LEMMA WriteKeeps ==
    ASSUME MarketInv, WriteMarket
    PROVE  MarketInv'
<1>1. /\ Calm /\ UNCHANGED <<runs, public, attestation, revision>> /\ script.pc = "writing"
      /\ \/ script' = NoScript \/ script' = script
         \/ script' = [script EXCEPT !.next = @ + 1]
      /\ \E f : \/ bundle' = [bundle EXCEPT ![f] = Partial]
                \/ bundle' = [bundle EXCEPT ![f] =
                      [run |-> script.run, revision |-> script.revision,
                       terminals |-> script.terminals]]
  BY DEF WriteMarket, Ends, Go
<1>2. RunsGoOn
  BY <1>1, OthersLeaveRuns DEF MarketInv
<1>3. PICK old : old = script
  OBVIOUS
<1>4. /\ old = [pc |-> "writing", next |-> old.next, run |-> old.run,
                revision |-> old.revision, terminals |-> old.terminals]
      /\ MadeOf(old)
  BY <1>1, <1>3 DEF MarketInv, ScriptOK
<1>5. PICK made : made = [run |-> old.run, revision |-> old.revision, terminals |-> old.terminals]
  OBVIOUS
<1>6. MadeOf(made)
  BY <1>4, <1>5 DEF MadeOf
<1>7. DOMAIN bundle' = DOMAIN bundle /\ bundle' = [f \in DOMAIN bundle |-> bundle'[f]]
  BY <1>1 DEF MarketInv, FilesOK
<1>8. \A f \in DOMAIN bundle : bundle'[f] \in {bundle[f], Partial, made}
  BY <1>1, <1>3, <1>5 DEF MarketInv, FilesOK
<1>9. FilesOK'
  <2>1. \A f \in DOMAIN bundle' : bundle'[f] \notin {NoDocument, Partial} => MadeOf(bundle'[f])
    BY <1>6, <1>7, <1>8 DEF MarketInv, FilesOK
  <2>2. \A f \in DOMAIN bundle' : bundle'[f] \notin {NoDocument, Partial} => MadeOf(bundle[f])'
    BY <1>1, <2>1, SameRuns DEF MadeOf, Over, Completed, Succeeded
  <2>3. attestation' \notin {NoDocument, Partial} => AttestsTo(attestation)'
    BY <1>1, SameRuns DEF MarketInv, FilesOK
  <2> QED BY <1>1, <1>7, <2>2, <2>3 DEF MarketInv, FilesOK, Calm
<1>10. ScriptOK' /\ script'.pc \in {"none", "writing"}
  <2>1. CASE script' = NoScript
    BY <2>1 DEF ScriptOK, NoScript, Building
  <2>2. CASE script' = script
    BY <1>1, <1>2, <2>2, ScriptStays DEF MarketInv
  <2>3. CASE script' = [script EXCEPT !.next = @ + 1]
    <3>1. PICK new : new = [old EXCEPT !.next = @ + 1]
      OBVIOUS
    <3>2. /\ new = [pc |-> "writing", next |-> new.next, run |-> new.run,
                    revision |-> new.revision, terminals |-> new.terminals]
          /\ MadeOf(new)
      BY <1>4, <3>1 DEF MadeOf
    <3>3. script' = new /\ MadeOf(new)'
      BY <1>1, <1>3, <2>3, <3>1, <3>2, SameRuns
    <3> QED BY <3>2, <3>3 DEF ScriptOK, Building
  <2> QED BY <1>1, <2>1, <2>2, <2>3
<1>11. EditsOK' /\ CalmOK' /\ GoodDividendRunsAreReleasable'
  BY <1>10 DEF EditsOK, CalmOK, GoodDividendRunsAreReleasable, Building
<1> QED BY <1>2, <1>9, <1>10, <1>11 DEF MarketInv, RunsGoOn

\* The terminals of a run that succeeded are one for each cell.
LEMMA KeptIsWhole ==
    ASSUME RunsOK, NEW id, Over(id)
    PROVE  /\ runs[id] \in MarketRecords /\ id \in 1..MaxMarketRuns
           /\ runs[id].revision \in MarketRevisions
           /\ runs[id].kept = [c \in MarketCells |-> runs[id].kept[c]]
           /\ \A c \in MarketCells : OfRun(runs[id].kept[c], id, runs[id].revision, c)
<1>1. id \in 1..Len(runs) /\ DOMAIN runs[id].kept = MarketCells
  BY DEF Over, Succeeded
<1>2. runs[id] \in MarketRecords /\ id \in 1..MaxMarketRuns
  BY <1>1, MarketOK DEF RunsOK, MarketOK
<1>3. PICK S : runs[id].kept \in [S -> MarketTerminals]
  BY <1>2 DEF MarketRecords
<1> QED BY <1>1, <1>2, <1>3 DEF RunsOK, MarketRecords

\* What a builder has in memory.
Memory(pc, compiled, attested, registry, terminals) ==
    [pc |-> pc, compiled |-> compiled, attested |-> attested, registry |-> registry,
     terminals |-> terminals]

LEMMA CompileKeeps ==
    ASSUME MarketInv, CompileMarket
    PROVE  MarketInv'
<1>1. /\ Calm /\ UNCHANGED <<runs, public, attestation, bundle, revision>>
      /\ script' = Memory(IF RequestsBound(revision) THEN "compiled" ELSE "failed",
                          revision, NoDocument, revision, public)
  BY DEF CompileMarket, Go, Memory
<1>2. RunsOK' /\ FilesOK'
  BY <1>1, ReadingGoesOn
<1>3. /\ script'.compiled = revision /\ script'.pc \in {"compiled", "failed"}
      /\ script'.pc = "compiled" <=> RequestsBound(revision)
  BY <1>1 DEF Memory
<1>4. ScriptOK'
  BY <1>1, <1>3, SameRuns DEF ScriptOK, Building, Memory
<1>5. EditsOK' /\ CalmOK'
  BY <1>1, <1>3 DEF EditsOK, CalmOK, Building
<1>6. GoodDividendRunsAreReleasable'
  BY <1>1, <1>3, SameRuns DEF GoodDividendRunsAreReleasable
<1> QED BY <1>2, <1>4, <1>5, <1>6 DEF MarketInv

LEMMA ReadKeeps ==
    ASSUME MarketInv, ReadAttestation
    PROVE  MarketInv'
<1>1. PICK old : old = script
  OBVIOUS
<1>2. /\ Calm /\ UNCHANGED <<runs, public, attestation, bundle, revision>> /\ old.pc = "compiled"
      /\ old = Memory(old.pc, old.compiled, old.attested, old.registry, old.terminals)
      /\ RequestsBound(old.compiled)
      /\ troubles = 0 => old.compiled = revision
  BY <1>1 DEF ReadAttestation, MarketInv, ScriptOK, CalmOK, Building, Memory
<1>3. RunsOK' /\ FilesOK'
  BY <1>2, ReadingGoesOn
<1>4. CASE /\ attestation \notin {NoDocument, Partial} /\ attestation.terminals = public
           /\ script' = [old EXCEPT !.pc = "attested", !.attested = attestation]
  <2>1. script' = Memory("attested", old.compiled, attestation, old.registry, old.terminals)
    BY <1>2, <1>4 DEF Memory
  <2>2. AttestsTo(attestation)
    BY <1>4 DEF MarketInv, FilesOK
  <2>3. AttestsTo(script.attested)'
    BY <1>2, <2>1, <2>2, SameRuns DEF Memory
  <2>4. ScriptOK'
    BY <1>2, <2>1, <2>3, SameRuns DEF ScriptOK, Building, Memory
  <2>5. EditsOK' /\ CalmOK' /\ GoodDividendRunsAreReleasable'
    BY <1>2, <1>4, <2>1, SameRuns DEF EditsOK, CalmOK, GoodDividendRunsAreReleasable, Building, Memory
  <2> QED BY <1>3, <2>4, <2>5 DEF MarketInv
<1>5. CASE /\ ~(attestation \notin {NoDocument, Partial} /\ attestation.terminals = public)
           /\ script' = [old EXCEPT !.pc = "failed"]
  <2>1. script' = Memory("failed", old.compiled, old.attested, old.registry, old.terminals)
    BY <1>2, <1>5 DEF Memory
  <2>2. ScriptOK' /\ EditsOK' /\ CalmOK'
    BY <2>1 DEF ScriptOK, EditsOK, CalmOK, Building, Memory
  <2>3. GoodDividendRunsAreReleasable'
    <3> SUFFICES ASSUME attestation \notin {NoDocument, Partial},
                        \A c \in MarketCells : public[c] = attestation.terminals[c]
                 PROVE  FALSE
      BY <1>2 DEF GoodDividendRunsAreReleasable
    <3>1. AttestsTo(attestation)
      BY DEF MarketInv, FilesOK
    <3>2. attestation.terminals = [c \in MarketCells |-> attestation.terminals[c]]
      BY <3>1, KeptIsWhole DEF AttestsTo, MarketInv
    <3>3. public = [c \in MarketCells |-> public[c]]
      BY DEF MarketInv, FilesOK
    <3> QED BY <1>5, <3>2, <3>3
  <2> QED BY <1>3, <2>2, <2>3 DEF MarketInv
<1> QED BY <1>1, <1>4, <1>5 DEF ReadAttestation, Go, BuildFails

LEMMA ParseKeeps ==
    ASSUME MarketInv, ParseTerminals
    PROVE  MarketInv'
<1>1. PICK old : old = script
  OBVIOUS
<1>2. /\ Calm /\ UNCHANGED <<runs, public, attestation, bundle, revision>> /\ old.pc = "attested"
      /\ old = Memory(old.pc, old.compiled, old.attested, old.registry, old.terminals)
      /\ RequestsBound(old.compiled) /\ AttestsTo(old.attested)
      /\ troubles = 0 => /\ old.compiled = revision /\ old.attested = attestation
                         /\ public = old.attested.terminals
      /\ script' = [old EXCEPT !.pc = "parsed", !.registry = revision, !.terminals = public]
  BY <1>1 DEF ParseTerminals, Go, MarketInv, ScriptOK, EditsOK, CalmOK, Building, Memory
<1>3. RunsOK' /\ FilesOK'
  BY <1>2, ReadingGoesOn
<1>4. script' = Memory("parsed", old.compiled, old.attested, revision, public)
  BY <1>2 DEF Memory
<1>5. ScriptOK'
  <2>1. AttestsTo(script.attested)'
    BY <1>2, <1>4, SameRuns DEF Memory
  <2> QED BY <1>2, <1>4, <2>1, SameRuns DEF ScriptOK, Building, Memory
<1>6. EditsOK' /\ CalmOK' /\ GoodDividendRunsAreReleasable'
  <2>1. troubles \in Nat /\ troubles' = troubles
    BY <1>2, SameRuns
  <2> QED BY <1>2, <1>4, <2>1 DEF EditsOK, CalmOK, GoodDividendRunsAreReleasable, Building, Memory
<1> QED BY <1>3, <1>5, <1>6 DEF MarketInv

\* In a calm build of a good run only a control that is answered with rows can disagree.
LEMMA GoodTerminalsAgree ==
    ASSUME RunsOK, NEW c \in MarketCells, NEW id, Over(id), NEW r, r = runs[id].revision,
           RequestsBound(r), NEW t, t = runs[id].kept[c],
           MarketCase(c).negative = "yes" => t.outcome.state # "provider_negative"
    PROVE  /\ t # NoDocument /\ t.revision = r /\ t.run = id
           /\ Judgement(t.outcome) = ValidateDividend(MarketCase(c), MarketIdentity(r, c),
                                                      t.outcome.facts)
<1>1. /\ OfRun(t, id, r, c) /\ id \in 1..MaxMarketRuns /\ r \in MarketRevisions
  BY KeptIsWhole
<1>2. PICK p \in MarketAnswers(c) : t = MarketTerminal(id, r, c, p) /\ t.outcome.state # "raises"
  BY <1>1 DEF OfRun
<1>3. t # NoDocument
  BY <1>1, <1>2, MarketAnswersOK DEF MarketAnswersOK
<1>4. /\ t.revision = r /\ t.run = id
      /\ t.outcome = EvaluateDividend(MarketCase(c), MarketIdentity(r, c), p)
  BY <1>2 DEF MarketTerminal
<1>5. MarketCase(c).negative # "yes" => MarketIdentity(r, c).canonical = MarketCase(c).symbol
  BY MarketAnswersOK DEF MarketAnswersOK, RequestsBound
<1> QED BY <1>2, <1>3, <1>4, <1>5, DividendJudgementsAgree

LEMMA AssembleKeeps ==
    ASSUME MarketInv, AssembleMarket
    PROVE  MarketInv'
<1>1. PICK old : old = script
  OBVIOUS
<1>2. /\ Calm /\ UNCHANGED <<runs, public, attestation, bundle, revision>> /\ old.pc = "parsed"
      /\ old = Memory(old.pc, old.compiled, old.attested, old.registry, old.terminals)
      /\ RequestsBound(old.compiled) /\ AttestsTo(old.attested)
      /\ troubles = 0 => /\ old.compiled = revision /\ old.attested = attestation
                         /\ old.registry = revision /\ old.terminals = public
      /\ troubles <= 1 => \/ old.terminals = old.attested.terminals
                          \/ troubles = 1 /\ old.terminals = public
  BY <1>1 DEF AssembleMarket, MarketInv, ScriptOK, EditsOK, CalmOK, Building, Memory
<1>3. RunsOK' /\ FilesOK'
  BY <1>2, ReadingGoesOn
<1>4. PICK id : id = old.attested.run
  OBVIOUS
<1>5. /\ Over(id) /\ old.attested.terminals = runs[id].kept
      /\ runs[id].kept = [c \in MarketCells |-> runs[id].kept[c]]
      /\ \A c \in MarketCells : OfRun(runs[id].kept[c], id, runs[id].revision, c)
  BY <1>2, <1>4, KeptIsWhole DEF AttestsTo, MarketInv
<1>6. public = [c \in MarketCells |-> public[c]]
  BY DEF MarketInv, FilesOK
<1>7. CASE /\ \A c \in MarketCells : TerminalAgrees(old.terminals[c], c)
           /\ script' = [pc |-> "writing", next |-> 1, run |-> id,
                         revision |-> old.compiled, terminals |-> old.terminals]
  <2>1. public = runs[id].kept
    <3>1. \A c \in MarketCells : runs[id].kept[c] = public[c]
      BY <1>1, <1>5, <1>7 DEF TerminalAgrees
    <3> QED BY <1>5, <1>6, <3>1
  <2>2. troubles <= 1 => old.terminals = runs[id].kept
    BY <1>2, <1>5, <2>1
  <2>3. troubles <= 1 => runs[id].revision = old.compiled
    <3> SUFFICES ASSUME troubles <= 1 PROVE runs[id].revision = old.compiled
      OBVIOUS
    <3>1. PICK c : c \in MarketCells
      BY MarketOK DEF MarketOK
    <3>2. old.terminals[c].revision = old.compiled
      BY <1>1, <1>7, <3>1 DEF TerminalAgrees
    <3>3. OfRun(old.terminals[c], id, runs[id].revision, c)
      BY <1>5, <2>2, <3>1
    <3> QED BY <3>2, <3>3 DEF OfRun, MarketTerminal
  <2>4. PICK new : new = [pc |-> "writing", next |-> 1, run |-> id,
                          revision |-> old.compiled, terminals |-> old.terminals]
    OBVIOUS
  <2>5. MadeOf(new)
    BY <1>5, <2>2, <2>3, <2>4 DEF MadeOf
  <2>6. script' = new /\ MadeOf(new)'
    BY <1>2, <1>7, <2>4, <2>5, SameRuns
  <2>7. ScriptOK'
    BY <2>4, <2>6 DEF ScriptOK, Building
  <2>8. EditsOK' /\ CalmOK' /\ GoodDividendRunsAreReleasable'
    BY <1>7 DEF EditsOK, CalmOK, GoodDividendRunsAreReleasable, Building
  <2> QED BY <1>3, <2>7, <2>8 DEF MarketInv
<1>8. CASE /\ ~(\A c \in MarketCells : TerminalAgrees(old.terminals[c], c))
           /\ script' = [old EXCEPT !.pc = "failed"]
  <2>1. script' = Memory("failed", old.compiled, old.attested, old.registry, old.terminals)
    BY <1>2, <1>8 DEF Memory
  <2>2. ScriptOK' /\ EditsOK' /\ CalmOK'
    BY <2>1 DEF ScriptOK, EditsOK, CalmOK, Building, Memory
  <2>3. GoodDividendRunsAreReleasable'
    <3> SUFFICES ASSUME troubles = 0, runs[attestation.run].revision = old.compiled,
                        \A c \in MarketCells : public[c] = attestation.terminals[c]
                 PROVE  \E c \in MarketCells : /\ MarketCase(c).negative = "yes"
                                               /\ public[c].outcome.state = "provider_negative"
      BY <1>2, <2>1 DEF GoodDividendRunsAreReleasable, Calm, Memory
    <3>1. PICK c \in MarketCells : ~TerminalAgrees(old.terminals[c], c)
      BY <1>8
    <3>2. PICK t : t = runs[id].kept[c]
      OBVIOUS
    <3>3. /\ public[c] = t /\ old.terminals[c] = t /\ old.attested.terminals[c] = t
          /\ runs[id].revision = old.compiled /\ old.registry = old.compiled
      BY <1>2, <1>4, <1>5, <3>2
    <3>4. ~(/\ t # NoDocument /\ t.revision = old.compiled /\ t.run = id
            /\ Judgement(t.outcome) = ValidateDividend(MarketCase(c),
                                         MarketIdentity(old.compiled, c), t.outcome.facts))
      BY <1>1, <1>4, <3>1, <3>3 DEF TerminalAgrees
    <3>5. MarketCase(c).negative = "yes" /\ t.outcome.state = "provider_negative"
      BY <1>2, <1>5, <3>2, <3>3, <3>4, GoodTerminalsAgree DEF MarketInv
    <3> QED BY <3>3, <3>5
  <2> QED BY <1>3, <2>2, <2>3 DEF MarketInv
<1> QED BY <1>1, <1>4, <1>7, <1>8 DEF AssembleMarket, Go, BuildFails

LEMMA MarketStep == MarketInv /\ [MarketNext]_marketVars => MarketInv'
<1> SUFFICES ASSUME MarketInv, [MarketNext]_marketVars PROVE MarketInv'
  OBVIOUS
<1>1. CASE UNCHANGED marketVars
  <2>1. Calm /\ UNCHANGED <<runs, public, attestation, bundle, script, revision>>
    BY <1>1 DEF marketVars, Calm
  <2>2. RunsGoOn /\ RunsOK' /\ FilesOK'
    BY <2>1, ReadingGoesOn
  <2>3. ScriptOK' /\ GoodDividendRunsAreReleasable'
    BY <2>1, <2>2, ScriptStays, FailureStays DEF MarketInv
  <2>4. EditsOK' /\ CalmOK'
    BY <2>1 DEF MarketInv, EditsOK, CalmOK, Calm
  <2> QED BY <2>2, <2>3, <2>4 DEF MarketInv
<1>2. CASE MarketNext
  BY <1>2, WorkflowKeeps, CopyKeeps, EditKeeps, ExportKeeps, StopKeeps, AttestKeeps, WriteKeeps,
     CompileKeeps, ReadKeeps, ParseKeeps, AssembleKeeps DEF MarketNext
<1> QED BY <1>1, <1>2

\* For any number of cells, runs and answers: a release that one edit at most has come
\* between is made of the terminals that one successful run uploaded for the suite it is
\* compiled from, and what it calls completed is backed by an answer
\* (export_dividend_market_github_artifacts.py, build_dividend_market_release.py).
THEOREM DividendReleasesBindTheirRun == MarketSpec => []DividendReleaseIsOfOneRun
<1>1. MarketInv => DividendReleaseIsOfOneRun
  <2> SUFFICES ASSUME MarketInv, troubles <= 1, NEW f \in DOMAIN bundle,
                      bundle[f] \notin {NoDocument, Partial}
               PROVE  /\ Succeeded(bundle[f].run)
                      /\ runs[bundle[f].run].revision = bundle[f].revision
                      /\ bundle[f].terminals = runs[bundle[f].run].kept
                      /\ \A c \in MarketCells :
                            bundle[f].terminals[c].outcome.state = "completed" =>
                               AnsweredIn(MarketCase(c), MarketIdentity(bundle[f].revision, c),
                                          bundle[f].terminals[c].raw)
    BY DEF DividendReleaseIsOfOneRun
  <2>1. PICK b : b = bundle[f]
    OBVIOUS
  <2>2. /\ Over(b.run) /\ b.terminals = runs[b.run].kept
        /\ runs[b.run].revision = b.revision
    BY <2>1 DEF MarketInv, FilesOK, MadeOf
  <2>3. ASSUME NEW c \in MarketCells, b.terminals[c].outcome.state = "completed"
        PROVE  AnsweredIn(MarketCase(c), MarketIdentity(b.revision, c), b.terminals[c].raw)
    <3>1. PICK t : t = b.terminals[c]
      OBVIOUS
    <3>2. OfRun(t, b.run, b.revision, c)
      BY <2>2, <3>1, KeptIsWhole DEF MarketInv
    <3>3. PICK p \in MarketAnswers(c) : t = MarketTerminal(b.run, b.revision, c, p)
      BY <3>2 DEF OfRun
    <3>4. /\ t.raw = p
          /\ t.outcome = EvaluateDividend(MarketCase(c), MarketIdentity(b.revision, c), p)
      BY <3>3 DEF MarketTerminal
    <3>5. DividendCase(MarketCase(c)) /\ DividendAnswer(p)
      BY MarketAnswersOK DEF MarketAnswersOK, DividendCase, DividendAnswer
    <3> QED BY <2>3, <3>1, <3>4, <3>5, DividendAnswered
  <2> QED BY <2>1, <2>2, <2>3 DEF Over
<1>2. MarketSpec => []MarketInv
  BY MarketStart, MarketStep, PTL DEF MarketSpec
<1> QED BY <1>1, <1>2, PTL

\* For any number of cells, runs and answers, a successful run that is exported and built
\* without any trouble becomes a release: adapter and validator agree on every answer, but
\* for a control that is answered with rows (cap_packs/dividend_events/direct.py:33-152).
THEOREM GoodDividendRunsCanBeReleased == MarketSpec => []GoodDividendRunsAreReleasable
<1>1. MarketSpec => []MarketInv
  BY MarketStart, MarketStep, PTL DEF MarketSpec
<1>2. MarketInv => GoodDividendRunsAreReleasable
  BY DEF MarketInv
<1> QED BY <1>1, <1>2, PTL
=============================================================================
