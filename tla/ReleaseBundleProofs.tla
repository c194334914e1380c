------------------------ MODULE ReleaseBundleProofs ------------------------
(***************************************************************************)
(* Theorems about ReleaseBundle, for any number of cells, runs, builders,  *)
(* edits and crashes.                                                      *)
(***************************************************************************)
EXTENDS ReleaseBundle, FiniteSetTheorems, SequenceTheorems, TLAPS

-----------------------------------------------------------------------------
(***************************************************************************)
(* The order in which a bundle is written                                  *)
(***************************************************************************)
\* The two directories hold different files.
LEMMA FilesApart == Files \cap Applicable = {}
  BY BundleOK DEF BundleOK, Files, FileOrder

\* The eight files of releases/<id>/ are written one by one.
LEMMA FilesOnce ==
    /\ FileOrder \in Seq(Files)
    /\ Len(FileOrder) = 8
    /\ \A i, j \in 1..8 : FileOrder[i] = FileOrder[j] => i = j
  BY DEF Files, FileOrder

\* No file is written twice: the evidence files come first, then the others.
LEMMA WrittenOnce ==
    /\ Last \in Nat \ {0}
    /\ \A i \in 1..Last : WriteOrder[i] \in Items
    /\ \A i, j \in 1..Last : WriteOrder[i] = WriteOrder[j] => i = j
<1> DEFINE E == EvidenceOrder
           n == Len(E)
<1>1. E \in Seq(Applicable) /\ n \in Nat /\ \A i \in 1..n : E[i] \in Applicable
  BY BundleOK DEF BundleOK
<1>2. E \in Seq(Items) /\ FileOrder \in Seq(Items)
  BY <1>1, FilesOnce DEF Items
<1>3. /\ Len(WriteOrder) = n + 8
      /\ \A i \in 1..(n + 8) : WriteOrder[i] = IF i <= n THEN E[i] ELSE FileOrder[i - n]
  <2>1. /\ Len(E \o FileOrder) = Len(E) + Len(FileOrder)
        /\ \A i \in 1..(Len(E) + Len(FileOrder)) :
              (E \o FileOrder)[i] = IF i <= Len(E) THEN E[i]
                                    ELSE FileOrder[i - Len(E)]
    <3> HIDE DEF E
    <3> QED BY <1>2, ConcatProperties, Zenon
  <2> QED BY <2>1, FilesOnce DEF WriteOrder
<1>4. Last = n + 8 /\ Last \in Nat \ {0}
  BY <1>1, <1>3 DEF Last
<1> HIDE DEF n
<1>5. \A i \in 1..Last :
         /\ i <= n => i \in 1..n /\ WriteOrder[i] = E[i]
         /\ ~(i <= n) => i - n \in 1..8 /\ WriteOrder[i] = FileOrder[i - n]
  BY <1>1, <1>3, <1>4
<1>6. \A i \in 1..n, j \in 1..n : E[i] = E[j] => i = j
  BY BundleOK DEF BundleOK, n
<1>7. \A i \in 1..8 : FileOrder[i] \in Files
  BY DEF Files
<1> HIDE DEF E
<1>8. \A i \in 1..Last : WriteOrder[i] \in IF i <= n THEN Applicable ELSE Files
  BY <1>1, <1>5, <1>7
<1>9. \A i \in 1..Last : WriteOrder[i] \in Items
  BY <1>8 DEF Items
<1>10. ASSUME NEW i \in 1..Last, NEW j \in 1..Last, WriteOrder[i] = WriteOrder[j]
       PROVE  i = j
  <2>1. i <= n <=> j <= n
    BY <1>8, <1>10, FilesApart
  <2>2. CASE i <= n
    BY <2>1, <2>2, <1>5, <1>6, <1>10
  <2>3. CASE ~(i <= n)
    <3>1. i - n = j - n
      BY <2>1, <2>3, <1>5, <1>10, FilesOnce
    <3> QED BY <3>1, <1>1, <1>4
  <2> QED BY <2>2, <2>3
<1> QED BY <1>4, <1>9, <1>10

-----------------------------------------------------------------------------
(***************************************************************************)
(* One builder writes, and writes every file once                          *)
(***************************************************************************)
Types ==
    /\ claimed \in {"no", "yes"}
    /\ DOMAIN dir = Items
    /\ pc \in [Builders -> {"idle", "claim", "truncate", "fill"}]
    /\ at \in [Builders -> 1..Last]
    /\ edits \in Nat

Writes(b) == pc[b] \in {"truncate", "fill"}

\* Before the evidence directory exists nothing has been written.
Untouched ==
    claimed = "no" =>
        /\ \A f \in Items : dir[f] = Missing
        /\ \A b \in Builders : ~Writes(b)
        /\ published = None

\* Only the builder that made the directory writes.
OneWriter == \A b, d \in Builders : Writes(b) /\ Writes(d) => b = d

\* The file a builder fills is the one it has emptied; those that follow in its
\* order do not exist yet.
Ahead ==
    \A b \in Builders : Writes(b) =>
        /\ published = None
        /\ dir[WriteOrder[at[b]]] = IF pc[b] = "fill" THEN Partial ELSE Missing
        /\ \A i \in 1..Last : at[b] < i => dir[WriteOrder[i]] = Missing

WriteInv == Types /\ Untouched /\ OneWriter /\ Ahead

LEMMA WriteInit == Init => WriteInv
  BY WrittenOnce, BundleOK
     DEF Init, WriteInv, Types, Untouched, OneWriter, Ahead, Writes, BundleOK

\* What a builder does leaves the invariant as it is, action by action.
LEMMA StartWrites ==
    ASSUME WriteInv, NEW b \in Builders, NEW r \in Runs, NEW s \in Suites,
           Start(b, r, s)
    PROVE  WriteInv'
<1> USE DEF WriteInv, Start
<1>1. Types'
  BY DEF Types
<1>2. \A d \in Builders : Writes(d)' <=> Writes(d)
  BY DEF Types, Writes
<1>3. \A d \in Builders : Writes(d) => pc'[d] = pc[d]
  BY DEF Types, Writes
<1>4. Untouched' /\ OneWriter'
  BY <1>2 DEF Untouched, OneWriter
<1>5. Ahead'
  BY <1>2, <1>3 DEF Ahead
<1> QED BY <1>1, <1>4, <1>5

LEMMA ClaimWrites ==
    ASSUME WriteInv, NEW b \in Builders, Claim(b)
    PROVE  WriteInv'
<1> USE DEF WriteInv, Claim
<1>1. Types'
  BY WrittenOnce DEF Types, Quit
<1>2. Untouched'
  BY DEF Untouched
<1>3. CASE claimed = "no"
  <2>1. pc' = [pc EXCEPT ![b] = "truncate"] /\ at' = at
    BY <1>3
  <2>2. \A d \in Builders : Writes(d)' <=> d = b
    BY <1>3, <2>1 DEF Types, Untouched, Writes
  <2>3. dir[WriteOrder[at[b]]] = Missing
    BY <1>3, WrittenOnce DEF Types, Untouched
  <2>4. \A i \in 1..Last : dir[WriteOrder[i]] = Missing
    BY <1>3, WrittenOnce DEF Untouched
  <2>5. OneWriter'
    BY <2>2 DEF OneWriter
  <2>6. Ahead'
    BY <1>3, <2>1, <2>2, <2>3, <2>4 DEF Ahead, Types, Untouched
  <2> QED BY <1>1, <1>2, <2>5, <2>6
<1>4. CASE claimed = "yes"
  <2>1. \A d \in Builders : Writes(d)' <=> Writes(d)
    BY <1>4 DEF Types, Writes, Quit
  <2>2. \A d \in Builders : Writes(d) => pc'[d] = pc[d] /\ at'[d] = at[d]
    BY <1>4 DEF Types, Writes, Quit
  <2>3. OneWriter' /\ Ahead'
    BY <2>1, <2>2 DEF OneWriter, Ahead
  <2> QED BY <1>1, <1>2, <2>3
<1> QED BY <1>3, <1>4 DEF Types

LEMMA TruncateWrites ==
    ASSUME WriteInv, NEW b \in Builders, Truncate(b)
    PROVE  /\ WriteInv'
           /\ \A f \in Items : dir[f] \notin {Missing, Partial} => dir'[f] = dir[f]
<1> USE DEF WriteInv, Truncate
<1>1. Types'
  BY DEF Types
<1>2. Writes(b) /\ claimed = "yes"
  BY DEF Types, Untouched, Writes
<1>3. at[b] \in 1..Last /\ WriteOrder[at[b]] \in Items
  BY WrittenOnce DEF Types
<1>4. \A d \in Builders : Writes(d)' <=> d = b
  BY <1>2 DEF Types, OneWriter, Writes
<1>5. Untouched' /\ OneWriter'
  BY <1>2, <1>4 DEF Untouched, OneWriter
<1>6. /\ dir'[WriteOrder[at[b]]] = Partial /\ pc'[b] = "fill" /\ at' = at
      /\ published' = None
  BY <1>2, <1>3 DEF Types, Ahead
<1>7. \A i \in 1..Last : at[b] < i => dir'[WriteOrder[i]] = Missing
  <2> TAKE i \in 1..Last
  <2> HAVE at[b] < i
  <2>1. WriteOrder[i] \in Items /\ WriteOrder[i] # WriteOrder[at[b]]
    BY <1>3, WrittenOnce
  <2> QED BY <1>2, <2>1 DEF Types, Ahead
<1>8. Ahead'
  BY <1>4, <1>6, <1>7 DEF Ahead
<1>9. dir[WriteOrder[at[b]]] = Missing
  BY <1>2 DEF Ahead
<1> QED BY <1>1, <1>5, <1>8, <1>9 DEF Types

LEMMA FillWrites ==
    ASSUME WriteInv, NEW b \in Builders, Fill(b)
    PROVE  /\ WriteInv'
           /\ \A f \in Items : dir[f] \notin {Missing, Partial} => dir'[f] = dir[f]
           /\ published = None
<1> USE DEF WriteInv
<1>1. /\ pc[b] = "fill" /\ UNCHANGED <<claimed, edits>>
      /\ dir' = [dir EXCEPT ![WriteOrder[at[b]]] =
                    Document(runs[job[b]], WriteOrder[at[b]])]
  BY DEF Fill
<1>2. Writes(b) /\ claimed = "yes" /\ published = None
  BY <1>1 DEF Types, Untouched, Ahead, Writes
<1>3. at[b] \in 1..Last /\ WriteOrder[at[b]] \in Items
  BY WrittenOnce DEF Types
<1>4. \A f \in Items : dir[f] \notin {Missing, Partial} => dir'[f] = dir[f]
  <2>1. dir[WriteOrder[at[b]]] = Partial
    BY <1>1, <1>2 DEF Ahead
  <2> QED BY <1>1, <2>1 DEF Types
<1>5. Untouched'
  BY <1>1, <1>2 DEF Untouched
<1>6. CASE at[b] < Last
  <2>1. /\ pc' = [pc EXCEPT ![b] = "truncate"] /\ at' = [at EXCEPT ![b] = @ + 1]
        /\ published' = published
    BY <1>6 DEF Fill
  <2>2. Types'
    BY <1>1, <1>3, <1>6, <2>1, WrittenOnce DEF Types
  <2>3. \A d \in Builders : Writes(d)' <=> d = b
    BY <1>2, <2>1 DEF Types, OneWriter, Writes
  <2>4. \A i \in 1..Last : at[b] < i => dir'[WriteOrder[i]] = Missing
    <3> TAKE i \in 1..Last
    <3> HAVE at[b] < i
    <3>1. WriteOrder[i] \in Items /\ WriteOrder[i] # WriteOrder[at[b]]
      BY <1>3, WrittenOnce
    <3> QED BY <1>1, <1>2, <3>1 DEF Types, Ahead
  <2>5. /\ at'[b] = at[b] + 1 /\ pc'[b] = "truncate"
        /\ at'[b] \in 1..Last /\ at[b] < at'[b]
        /\ \A i \in 1..Last : at'[b] < i => at[b] < i
    BY <1>3, <1>6, <2>1, WrittenOnce DEF Types
  <2>6. Ahead'
    BY <1>2, <2>1, <2>3, <2>4, <2>5 DEF Ahead
  <2>7. OneWriter'
    BY <2>3 DEF OneWriter
  <2> QED BY <1>2, <1>4, <1>5, <2>2, <2>6, <2>7
<1>7. CASE ~(at[b] < Last)
  <2>1. Quit(b)
    BY <1>7 DEF Fill
  <2>2. Types'
    BY <1>1, <2>1, WrittenOnce DEF Types, Quit
  <2>3. \A d \in Builders : ~Writes(d)'
    BY <1>2, <2>1 DEF Types, OneWriter, Writes, Quit
  <2>4. OneWriter' /\ Ahead'
    BY <2>3 DEF OneWriter, Ahead
  <2> QED BY <1>2, <1>4, <1>5, <2>2, <2>4
<1> QED BY <1>6, <1>7

LEMMA DieWrites ==
    ASSUME WriteInv, NEW b \in Builders, Die(b)
    PROVE  WriteInv'
<1> USE DEF WriteInv, Die, Quit
<1>1. Types'
  BY WrittenOnce DEF Types
<1>2. \A d \in Builders : Writes(d)' => Writes(d)
  BY DEF Types, Writes
<1>3. \A d \in Builders : Writes(d)' => pc'[d] = pc[d] /\ at'[d] = at[d]
  BY DEF Types, Writes
<1>4. Untouched' /\ OneWriter'
  BY <1>2 DEF Untouched, OneWriter
<1>5. Ahead'
  BY <1>2, <1>3 DEF Ahead
<1> QED BY <1>1, <1>4, <1>5

\* Edits happen while nobody writes.
LEMMA EditWrites ==
    ASSUME WriteInv, Edit \/ Rebuild
    PROVE  WriteInv' /\ edits' # edits
<1> USE DEF WriteInv
<1>1. /\ claimed = "yes" /\ NobodyWrites /\ edits' = edits + 1
      /\ UNCHANGED <<claimed, pc, at>> /\ DOMAIN dir' = DOMAIN dir
  BY DEF Edit, Rebuild, builders
<1>2. \A d \in Builders : ~Writes(d)'
  BY <1>1 DEF NobodyWrites, Writes
<1>3. Types' /\ edits' # edits
  BY <1>1 DEF Types
<1>4. Untouched' /\ OneWriter' /\ Ahead'
  BY <1>1, <1>2 DEF Untouched, OneWriter, Ahead
<1> QED BY <1>3, <1>4

\* Runs and replays write nothing.
LEMMA OthersWrite ==
    ASSUME WriteInv, UNCHANGED <<claimed, dir, pc, at, published, edits>>
    PROVE  WriteInv'
  BY DEF WriteInv, Types, Untouched, OneWriter, Ahead, Writes

\* A step of the system, seen from the directory.
StepWrites ==
    /\ edits' = edits =>
          \A f \in Items : dir[f] \notin {Missing, Partial} => dir'[f] = dir[f]
    /\ published # None => published' = published

LEMMA WriteStep ==
    ASSUME WriteInv, [Next]_vars
    PROVE  WriteInv' /\ StepWrites
<1>1. CASE UNCHANGED vars
  BY <1>1, OthersWrite DEF vars, StepWrites
<1>2. ASSUME NEW r \in Runs, Measure(r)
      PROVE  WriteInv' /\ StepWrites
  BY <1>2, OthersWrite DEF Measure, builders, StepWrites
<1>3. CASE Edit \/ Rebuild
  BY <1>3, EditWrites DEF Edit, Rebuild, StepWrites
<1>4. ASSUME NEW b \in Builders, NEW r \in Runs, NEW s \in Suites, Start(b, r, s)
      PROVE  WriteInv' /\ StepWrites
  BY <1>4, StartWrites DEF Start, StepWrites
<1>5. ASSUME NEW b \in Builders, Claim(b)
      PROVE  WriteInv' /\ StepWrites
  BY <1>5, ClaimWrites DEF Claim, StepWrites
<1>6. ASSUME NEW b \in Builders, Truncate(b)
      PROVE  WriteInv' /\ StepWrites
  BY <1>6, TruncateWrites DEF Truncate, StepWrites
<1>7. ASSUME NEW b \in Builders, Fill(b)
      PROVE  WriteInv' /\ StepWrites
  BY <1>7, FillWrites DEF StepWrites
<1>8. ASSUME NEW b \in Builders, Die(b)
      PROVE  WriteInv' /\ StepWrites
  BY <1>8, DieWrites DEF Die, StepWrites
<1>9. CASE StartReplay \/ Read
  BY <1>9, OthersWrite DEF StartReplay, Read, builders, StepWrites
<1> QED BY <1>1, <1>2, <1>3, <1>4, <1>5, <1>6, <1>7, <1>8, <1>9 DEF Next

THEOREM WriteInvariant == Spec => []WriteInv
<1>1. WriteInv /\ [Next]_vars => WriteInv'
  BY WriteStep
<1> QED BY <1>1, WriteInit, PTL DEF Spec

\* "releases are immutable" (build_corporate_actions_v2_release.py:75): whatever
\* builders race for a release id and however they die, none of them touches a file
\* another one has written, and only one digest is ever printed.
THEOREM Immutability == Spec => ReleasesAreImmutable
<1>1. WriteInv /\ [Next]_vars => [StepWrites]_vars
  BY WriteStep
<1>2. [StepWrites]_vars <=>
         [/\ edits' = edits =>
                \A f \in Items : dir[f] \notin {Missing, Partial} => dir'[f] = dir[f]
          /\ published # None => published' = published]_vars
  BY DEF StepWrites
<1> QED BY <1>1, <1>2, WriteInvariant, PTL DEF Spec, ReleasesAreImmutable

-----------------------------------------------------------------------------
(***************************************************************************)
(* What the gate and the replay accept                                     *)
(***************************************************************************)
\* The set of the elements with a property that exactly one element has.
LEMMA ExactlyOne ==
    ASSUME NEW S, NEW T, NEW x \in S, T \subseteq S, x \in T,
           \A y \in T : y = x
    PROVE  Cardinality(T) = 1
<1>1. T = {x}
  OBVIOUS
<1> QED BY <1>1, FS_Singleton

\* Replay accepts only a bundle whose cells are backed by its evidence: what
\* ReplayedIsBacked says of the files a replay has read, for any files.
Backed(v) ==
    /\ \A p \in v["plan"].cells :
          /\ Cardinality({c \in v["cells"] : c.cell = p.cell}) = 1
          /\ Cardinality({e \in v["evidence"] : e.key = p.key}) =
                IF p.applicable = "yes" THEN 1 ELSE 0
    /\ \A c \in v["cells"] :
          /\ c.state \notin {"planned", "running"}
          /\ c.state = "provider_negative" => c.attribution \in ProviderSide
          /\ c.state = "infra_blocked" => c.attribution # Unattributed
    /\ \A e \in v["evidence"] :
          /\ e.safe = "yes"
          /\ \E p \in v["plan"].cells : p.key = e.key
          /\ v["manifest"] # Missing => v[e.id] = e.digest

LEMMA AcceptsBacked ==
    ASSUME NEW v, NEW expected, ReplayAccepts(v, expected)
    PROVE  Backed(v)
<1> DEFINE planned == v["plan"].cells
           cells == v["cells"]
           bundles == v["evidence"]
<1>1. SameTopology(planned, cells) /\ PlanIsCanonical(v["plan"])
  BY DEF ReplayAccepts, PlanAgrees
<1>2. /\ NoneOpen(cells) /\ EvidenceMatches(v["input"], cells, bundles)
      /\ Publishable(v["input"], bundles) /\ Attributed(cells)
  BY DEF ReplayAccepts, GateAccepts
<1>3. PublicEvidenceAgrees(v)
  BY DEF ReplayAccepts
<1> HIDE DEF planned, cells, bundles
<1>4. ASSUME NEW p \in planned
      PROVE  Cardinality({c \in cells : c.cell = p.cell}) = 1
  <2>1. PICK c \in cells : c.key = p.key
    BY <1>1 DEF SameTopology, KeysOf
  <2>2. c.cell = p.cell
    BY <1>1, <2>1 DEF SameTopology
  <2>3. ASSUME NEW d \in cells, d.cell = p.cell
        PROVE  d = c
    <3>1. PICK q \in planned : q.key = d.key
      BY <1>1 DEF SameTopology, KeysOf
    <3>2. q.cell = p.cell
      BY <1>1, <2>3, <3>1 DEF SameTopology
    <3>3. q.key = p.key
      BY <1>1, <3>2 DEF PlanIsCanonical, planned
    <3> QED BY <1>1, <2>1, <3>1, <3>3 DEF SameTopology, KeysUnique
  <2> QED BY <2>2, <2>3, ExactlyOne
<1>5. ASSUME NEW p \in planned
      PROVE  Cardinality({e \in bundles : e.key = p.key}) =
                IF p.applicable = "yes" THEN 1 ELSE 0
  <2>1. PICK c \in cells : c.key = p.key
    BY <1>1 DEF SameTopology, KeysOf
  <2>2. c.applicable = p.applicable
    BY <1>1, <2>1 DEF SameTopology
  <2>3. CASE p.applicable = "yes"
    <3>1. PICK e \in bundles : e.key = p.key
      BY <1>2, <2>1, <2>2, <2>3 DEF EvidenceMatches, ApplicableKeys, KeysOf
    <3>2. \A f \in bundles : f.key = p.key => f = e
      BY <1>2, <3>1 DEF EvidenceMatches, KeysUnique
    <3> QED BY <2>3, <3>1, <3>2, ExactlyOne
  <2>4. CASE p.applicable # "yes"
    <3>1. \A d \in cells : d.key = p.key => d.applicable # "yes"
      BY <1>1, <2>4 DEF SameTopology
    <3>2. {e \in bundles : e.key = p.key} = {}
      BY <1>2, <3>1 DEF EvidenceMatches, ApplicableKeys, KeysOf
    <3> QED BY <2>4, <3>2, FS_EmptySet
  <2> QED BY <2>3, <2>4
<1>6. \A c \in cells :
          /\ c.state \notin {"planned", "running"}
          /\ c.state = "provider_negative" => c.attribution \in ProviderSide
          /\ c.state = "infra_blocked" => c.attribution # Unattributed
  BY <1>2 DEF NoneOpen, Terminal, Attributed
<1>7. ASSUME NEW e \in bundles
      PROVE  /\ e.safe = "yes"
             /\ \E p \in planned : p.key = e.key
             /\ v["manifest"] # Missing => v[e.id] = e.digest
  <2>1. e.safe = "yes"
    BY <1>2 DEF Publishable
  <2>2. \E p \in planned : p.key = e.key
    BY <1>1, <1>2 DEF SameTopology, EvidenceMatches, ApplicableKeys, KeysOf
  <2>3. ASSUME v["manifest"] # Missing
        PROVE  v[e.id] = e.digest
    <3> DEFINE x == [id |-> e.id, key |-> e.key, digest |-> e.digest]
    <3>1. x \in v["manifest"].entries
      BY <1>3, <2>3 DEF PublicEvidenceAgrees, EntriesAgree, bundles
    <3>2. ArtifactAgrees(v, x.id)
      BY <1>3, <2>3, <3>1 DEF PublicEvidenceAgrees
    <3> QED BY <3>1, <3>2 DEF ArtifactAgrees
  <2> QED BY <2>1, <2>2, <2>3
<1> QED BY <1>4, <1>5, <1>6, <1>7 DEF Backed, planned, cells, bundles

\* A verdict is the one replay_release_dir reaches on the files it has read.
Verdict == replay = "accepted" => ReplayAccepts(seen, trusted)

LEMMA VerdictStep ==
    ASSUME Verdict, [Next]_vars
    PROVE  Verdict'
<1>1. CASE UNCHANGED reader
  BY <1>1 DEF Verdict, reader, ReplayAccepts, PlanAgrees, PublicEvidenceAgrees,
              ManifestAgrees, AttestationAgrees, BindingsAgree, ArtifactAgrees,
              EntriesAgree
<1>2. CASE StartReplay
  BY <1>2 DEF StartReplay, Verdict
<1>3. CASE Read
  <2>1. PICK f : ReadFile(f)
    BY <1>3 DEF Read
  <2>2. replay = "reading"
    BY <1>3 DEF Read
  <2>3. replay' = "accepted" => ReplayAccepts(seen', trusted')
    BY <2>1, <2>2 DEF ReadFile, Reject
  <2> QED BY <2>3 DEF Verdict
<1>4. [Next]_vars => UNCHANGED reader \/ StartReplay \/ Read
  BY DEF Next, vars, reader, Measure, Edit, Rebuild, Start, Claim, Truncate, Fill, Die
<1> QED BY <1>1, <1>2, <1>3, <1>4

THEOREM VerdictInvariant == Spec => []Verdict
<1>1. Init => Verdict
  BY DEF Init, Verdict
<1>2. Verdict /\ [Next]_vars => Verdict'
  BY VerdictStep
<1> QED BY <1>1, <1>2, PTL DEF Spec

\* Whatever was edited, merged or written while a replay read the bundle, what it
\* accepts is backed: each applicable cell of the plan by one publishable bundle of
\* its own (gate.py 34-72 with replay.py 208-249).
THEOREM ReplayIsBacked == Spec => []ReplayedIsBacked
<1>1. Verdict => ReplayedIsBacked
  BY AcceptsBacked DEF Verdict, Backed, ReplayedIsBacked
<1> QED BY <1>1, VerdictInvariant, PTL

-----------------------------------------------------------------------------
(***************************************************************************)
(* The published digest                                                    *)
(***************************************************************************)
\* What is printed, and what a replay is told to trust, is the digest of the
\* release of a run that has been made; a builder works on such a run.
Jobs ==
    /\ \A b \in Builders : pc[b] # "idle" => job[b] \in Runs /\ runs[job[b]] # None
    /\ pc \in [Builders -> {"idle", "claim", "truncate", "fill"}]
    /\ job \in [Builders -> Runs \cup {None}]

Published ==
    /\ published # None => \E r \in Runs : runs[r] # None /\ published = Release(runs[r])
    /\ trusted # None => trusted = published
    /\ DOMAIN runs = Runs
    /\ Jobs

LEMMA PublishedInit == Init => Published
  BY DEF Init, Published, Jobs

LEMMA PublishedStep ==
    ASSUME WriteInv, Published, [Next]_vars
    PROVE  Published'
<1> USE DEF Published
<1>1. /\ \A r \in Runs : runs[r] # None => runs'[r] = runs[r]
      /\ DOMAIN runs' = Runs
  BY DEF Next, vars, Measure, Edit, Rebuild, Start, Claim, Truncate, Fill, Die,
         StartReplay, Read
<1>2. published # None => published' = published
  BY WriteStep DEF StepWrites
<1>3. \A r \in Runs : runs[r] # None =>
         runs'[r] # None /\ Release(runs'[r]) = Release(runs[r])
  BY <1>1
<1>4. published' = published
         \/ \E b \in Builders : pc[b] = "fill" /\ published' = Release(runs[job[b]])
  BY DEF Next, vars, Measure, Edit, Rebuild, Start, Claim, Truncate, Fill, Die,
         StartReplay, Read
<1>5. published' # None =>
         \E r \in Runs : runs'[r] # None /\ published' = Release(runs'[r])
  <2>1. CASE published' = published
    BY <2>1, <1>3
  <2>2. ASSUME NEW b \in Builders, pc[b] = "fill", published' = Release(runs[job[b]])
        PROVE  \E r \in Runs : runs'[r] # None /\ published' = Release(runs'[r])
    BY <2>2, <1>3 DEF Jobs
  <2> QED BY <2>1, <2>2, <1>4
<1>6. trusted' # None => trusted' = published'
  BY <1>2 DEF Next, vars, reader, Measure, Edit, Rebuild, Start, Claim, Truncate,
         Fill, Die, StartReplay, Read, ReadFile, Reject
<1>7. Jobs'
  <2>1. CASE UNCHANGED builders
    BY <2>1, <1>1 DEF Jobs, builders
  <2>2. ASSUME NEW b \in Builders, NEW r \in Runs, NEW s \in Suites, Start(b, r, s)
        PROVE  Jobs'
    BY <2>2, <1>1 DEF Jobs, Start, Assembles, Releasable
  <2>3. ASSUME NEW b \in Builders, Claim(b) \/ Truncate(b) \/ Fill(b) \/ Die(b)
        PROVE  Jobs'
    BY <2>3, <1>1 DEF Jobs, Claim, Truncate, Fill, Die, Quit
  <2> QED
    BY <2>1, <2>2, <2>3 DEF Next, vars, builders, Measure, Edit, Rebuild,
       StartReplay, Read
<1> QED BY <1>1, <1>5, <1>6, <1>7

THEOREM PublishedInvariant == Spec => []Published
<1>1. WriteInv /\ Published /\ [Next]_vars => Published'
  BY PublishedStep
<1> QED BY <1>1, PublishedInit, WriteInvariant, PTL DEF Spec

\* A bundle that replays as the release of a run holds what that run's builder
\* writes, file by file.
LEMMA AcceptsOneBuild ==
    ASSUME NEW m, NEW v, ReplayAccepts(v, Release(m)), Release(m) # None
    PROVE  \A f \in Items : f \in Required \/ v["manifest"] # Missing =>
                               v[f] = Document(m, f)
<1>1. /\ v["input"] = Input(m) /\ v["cells"] = CellsOf(m)
      /\ v["evidence"] = EvidenceOf(m) /\ v["release"] = Release(m)
  <2>1. /\ v["release"] = Release(m)
        /\ v["release"] = ReleaseBytes(v["input"], v["cells"], v["evidence"])
    BY DEF ReplayAccepts
  <2>2. ReleaseBytes(v["input"], v["cells"], v["evidence"])
           = ReleaseBytes(Input(m), CellsOf(m), EvidenceOf(m))
    BY <2>1 DEF Release
  <2> QED BY <2>1, <2>2 DEF ReleaseBytes
<1>2. v["plan"] = Plan(m.suite)
  BY <1>1 DEF ReplayAccepts, PlanAgrees, Input
<1>3. \A f \in Required : v[f] = Document(m, f)
  BY <1>1, <1>2 DEF Required, Document
<1>4. ASSUME v["manifest"] # Missing, NEW f \in Items
      PROVE  v[f] = Document(m, f)
  <2>1. /\ v["manifest"] = v["input"].manifest
        /\ v["attestation"] = v["manifest"].attestation
        /\ v["bindings"] = v["manifest"].bindings
        /\ \A e \in v["manifest"].entries : ArtifactAgrees(v, e.id)
    BY <1>4 DEF ReplayAccepts, PublicEvidenceAgrees, ManifestAgrees,
                AttestationAgrees, BindingsAgree
  <2>2. v["manifest"] = Manifest(m)
    BY <1>1, <2>1 DEF Input
  <2>3. v["attestation"] = Attestation(m) /\ v["bindings"] = m.suite
    BY <2>1, <2>2 DEF Manifest
  <2>4. CASE f \in Files
    <3>1. f \in Required \cup {"manifest", "bindings", "attestation"}
      BY <2>4 DEF Files, FileOrder, Required
    <3> QED BY <3>1, <1>3, <2>2, <2>3 DEF Document
  <2>5. CASE f \in Applicable
    <3>1. Document(m, f) = TerminalOf(m, f)
      BY <2>5, BundleOK DEF Document, BundleOK
    <3> DEFINE x == [id |-> f, key |-> Key(m.suite, f),
                     digest |-> TerminalOf(m, f)]
    <3>2. x \in v["manifest"].entries
      BY <2>2, <2>5 DEF Manifest
    <3>3. ArtifactAgrees(v, x.id)
      BY <2>1, <3>2
    <3> QED BY <3>1, <3>2, <3>3 DEF ArtifactAgrees
  <2> QED BY <2>4, <2>5 DEF Items
<1> QED BY <1>3, <1>4

\* "The expected digest authenticates the published bundle identity"
\* (docs/release-replay.md): what a replay with the published digest accepts is the
\* release that was published, whatever happened to the directory meanwhile.
THEOREM DigestIdentifies == Spec => []TrustedIsThePublished
<1>1. Verdict /\ Published => TrustedIsThePublished
  <2> SUFFICES ASSUME Verdict, Published, replay = "accepted", trusted # None
               PROVE  \A f \in Items : f \in Required \/ seen["manifest"] # Missing =>
                         seen[f] = Document(runs[PublishedRun], f)
    BY DEF TrustedIsThePublished
  <2>1. trusted = published /\ ReplayAccepts(seen, published)
    BY DEF Verdict, Published
  <2>2. PublishedRun \in Runs /\ Release(runs[PublishedRun]) = published
    BY <2>1 DEF Published, PublishedRun
  <2> QED BY <2>1, <2>2, AcceptsOneBuild
<1> QED BY <1>1, VerdictInvariant, PublishedInvariant, PTL
-----------------------------------------------------------------------------
(***************************************************************************)
(* Types                                                                   *)
(***************************************************************************)
LEMMA TypeInit == Init => BundleTypeOK
<1> SUFFICES ASSUME Init PROVE BundleTypeOK
  OBVIOUS
<1>1. 1 \in 1..Last /\ 0 \in 0..MaxEdits /\ 0 \in 0..MaxFaults
  BY WrittenOnce, BundleOK DEF BundleOK
<1> QED BY <1>1 DEF Init, BundleTypeOK

LEMMA TypeStep == WriteInv /\ BundleTypeOK /\ [Next]_vars => BundleTypeOK'
<1> SUFFICES ASSUME WriteInv, BundleTypeOK, [Next]_vars PROVE BundleTypeOK'
  OBVIOUS
<1>1. (DOMAIN dir = Items)' /\ (pc \in [Builders -> {"idle", "claim", "truncate", "fill"}])'
      /\ (at \in [Builders -> 1..Last])' /\ (claimed \in {"no", "yes"})'
  BY WriteStep DEF WriteInv, Types
<1>2. (runs \in [Runs -> Measured \cup {None}])'
  BY DEF BundleTypeOK, Measured, Next, vars, Measure, Edit, Rebuild, Start, Claim,
     Truncate, Fill, Die, StartReplay, Read
<1>3. (job \in [Builders -> Runs \cup {None}])'
  BY DEF BundleTypeOK, Next, vars, builders, Measure, Edit, Rebuild, Start, Claim,
     Truncate, Fill, Die, Quit, StartReplay, Read
<1>4. replay' \in {"idle", "reading", "accepted", "rejected"} /\ DOMAIN seen' = Items
  BY DEF BundleTypeOK, Next, vars, reader, Measure, Edit, Rebuild, Start, Claim,
     Truncate, Fill, Die, StartReplay, Read, ReadFile, Reject, NothingSeen
<1>5. edits' = edits \/ (edits < MaxEdits /\ edits' = edits + 1)
  BY DEF Next, vars, Measure, Edit, Rebuild, Start, Claim, Truncate, Fill, Die,
     StartReplay, Read
<1>6. faults' = faults \/ (faults < MaxFaults /\ faults' = faults + 1)
  BY DEF Next, vars, Measure, Edit, Rebuild, Start, Claim, Truncate, Fill, Die,
     StartReplay, Read
<1>7. edits' \in 0..MaxEdits /\ faults' \in 0..MaxFaults
  BY <1>5, <1>6, BundleOK DEF BundleOK, BundleTypeOK
<1> QED BY <1>1, <1>2, <1>3, <1>4, <1>7 DEF BundleTypeOK

\* The variables of builders, runs and replays have their types.
THEOREM TypeCorrect == Spec => []BundleTypeOK
<1> QED BY TypeInit, TypeStep, WriteInvariant, PTL DEF Spec

-----------------------------------------------------------------------------
(***************************************************************************)
(* A bundle that is left alone                                             *)
(***************************************************************************)
\* Every file of a bundle has its place in the builder's order.
LEMMA AllAreWritten == \A f \in Items : \E i \in 1..Last : WriteOrder[i] = f
<1> DEFINE E == EvidenceOrder
           n == Len(E)
<1>1. /\ n \in Nat
      /\ \A c \in Applicable : \E i \in 1..n : E[i] = c
  BY BundleOK DEF BundleOK
<1>2. E \in Seq(Items) /\ FileOrder \in Seq(Items)
  BY BundleOK, FilesOnce DEF BundleOK, Items
<1>3. /\ Len(WriteOrder) = n + 8
      /\ \A i \in 1..(n + 8) : WriteOrder[i] = IF i <= n THEN E[i] ELSE FileOrder[i - n]
  <2>1. /\ Len(E \o FileOrder) = Len(E) + Len(FileOrder)
        /\ \A i \in 1..(Len(E) + Len(FileOrder)) :
              (E \o FileOrder)[i] = IF i <= Len(E) THEN E[i]
                                    ELSE FileOrder[i - Len(E)]
    <3> HIDE DEF E
    <3> QED BY <1>2, ConcatProperties, Zenon
  <2> QED BY <2>1, FilesOnce DEF WriteOrder
<1>4. Last = n + 8
  BY <1>3 DEF Last
<1> HIDE DEF n, E
<1>5. ASSUME NEW c \in Applicable PROVE \E i \in 1..Last : WriteOrder[i] = c
  <2>1. PICK i \in 1..n : E[i] = c
    BY <1>1
  <2>2. i \in 1..(n + 8) /\ i <= n
    BY <1>1
  <2> QED BY <1>3, <1>4, <2>1, <2>2
<1>6. ASSUME NEW j \in 1..8 PROVE \E i \in 1..Last : WriteOrder[i] = FileOrder[j]
  <2>1. n + j \in 1..(n + 8) /\ ~(n + j <= n) /\ (n + j) - n = j
    BY <1>1
  <2> QED BY <1>3, <1>4, <2>1
<1> QED BY <1>5, <1>6 DEF Items, Files

LEMMA KeysAreTheirCells ==
    ASSUME NEW s
    PROVE  \A c, d \in Cells : Key(s, c) = Key(s, d) => c = d
  BY DEF Key

\* The five fields that the cells of the plan and of the release share.
LEMMA CellFields ==
    ASSUME NEW m, NEW c
    PROVE  /\ PlannedCell(m.suite, c).cell = c
           /\ PlannedCell(m.suite, c).key = Key(m.suite, c)
           /\ PlannedCell(m.suite, c).state =
                 IF PlannedCell(m.suite, c).applicable = "yes" THEN "planned"
                 ELSE "not_applicable"
           /\ ReleasedCell(m, c).cell = c
           /\ ReleasedCell(m, c).key = Key(m.suite, c)
           /\ ReleasedCell(m, c).applicable = PlannedCell(m.suite, c).applicable
  BY DEF PlannedCell, ReleasedCell

\* The cells an expanded plan lists are those a release of its suite states.
LEMMA OwnTopology ==
    ASSUME NEW m
    PROVE  /\ SameTopology(Plan(m.suite).cells, CellsOf(m))
           /\ PlanIsCanonical(Plan(m.suite))
<1> DEFINE planned == {PlannedCell(m.suite, c) : c \in Cells}
           cells == {ReleasedCell(m, c) : c \in Cells}
<1>1. \A p \in planned : \E c \in Cells : p = PlannedCell(m.suite, c)
  OBVIOUS
<1>2. \A r \in cells : \E c \in Cells : r = ReleasedCell(m, c)
  OBVIOUS
<1>3. \A c \in Cells : PlannedCell(m.suite, c) \in planned /\ ReleasedCell(m, c) \in cells
  OBVIOUS
<1> HIDE DEF planned, cells
<1>4. KeysUnique(planned)
  BY <1>1, CellFields, KeysAreTheirCells DEF KeysUnique
<1>5. KeysUnique(cells)
  BY <1>2, CellFields, KeysAreTheirCells DEF KeysUnique
<1>6. \A k : k \in KeysOf(planned) <=> \E c \in Cells : k = Key(m.suite, c)
  BY <1>1, <1>3, CellFields DEF KeysOf
<1>7. \A k : k \in KeysOf(cells) <=> \E c \in Cells : k = Key(m.suite, c)
  BY <1>2, <1>3, CellFields DEF KeysOf
<1>8. KeysOf(planned) = KeysOf(cells)
  BY <1>6, <1>7
<1>9. \A p \in planned, r \in cells :
         p.key = r.key => p.cell = r.cell /\ p.applicable = r.applicable
  <2> SUFFICES ASSUME NEW p \in planned, NEW r \in cells, p.key = r.key
               PROVE  p.cell = r.cell /\ p.applicable = r.applicable
    OBVIOUS
  <2>1. PICK c \in Cells : p = PlannedCell(m.suite, c)
    BY <1>1
  <2>2. PICK d \in Cells : r = ReleasedCell(m, d)
    BY <1>2
  <2>3. Key(m.suite, c) = Key(m.suite, d)
    BY <2>1, <2>2, CellFields
  <2>4. c = d
    BY <2>3 DEF Key
  <2> QED BY <2>1, <2>2, <2>4, CellFields
<1>10. SameTopology(planned, cells)
  BY <1>4, <1>5, <1>8, <1>9 DEF SameTopology
<1>11. \A p \in planned :
          /\ p.state = IF p.applicable = "yes" THEN "planned" ELSE "not_applicable"
          /\ p.key = Key(m.suite, p.cell)
  <2> TAKE p \in planned
  <2>1. PICK c \in Cells : p = PlannedCell(m.suite, c)
    BY <1>1
  <2>2. p.cell = c /\ p.key = Key(m.suite, c)
    BY <2>1, CellFields
  <2>3. p.state = IF p.applicable = "yes" THEN "planned" ELSE "not_applicable"
    BY <2>1 DEF PlannedCell
  <2> QED BY <2>2, <2>3
<1> QED BY <1>10, <1>11 DEF planned, cells, Plan, CellsOf, PlanIsCanonical

\* What a builder writes for a run the gate accepts, replay accepts and verify
\* accepts, under the digest the builder prints.
LEMMA OwnBundleReplays ==
    ASSUME NEW m \in Measured, NEW v,
           GateAccepts(Input(m), CellsOf(m), EvidenceOf(m), "required"),
           \A f \in Items : v[f] = Document(m, f)
    PROVE  ReplayAccepts(v, Release(m)) /\ Verifies(v["release"], Release(m))
<1>1. \A f \in Items : v[f] \notin {Missing, Partial, None}
  BY DocumentsOK DEF DocumentsOK
<1>2. {"plan", "cells", "evidence", "input", "release", "manifest", "bindings",
       "attestation"} \subseteq Files
  BY DEF Files, FileOrder
<1>3. /\ v["plan"] = Plan(m.suite) /\ v["cells"] = CellsOf(m)
      /\ v["evidence"] = EvidenceOf(m) /\ v["input"] = Input(m)
      /\ v["release"] = Release(m) /\ v["manifest"] = Manifest(m)
      /\ v["bindings"] = m.suite /\ v["attestation"] = Attestation(m)
  BY <1>2 DEF Items, Document
<1>4. \A c \in Applicable : v[c] = TerminalOf(m, c)
  BY BundleOK DEF Items, Document, BundleOK
<1>5. \A f \in Required \cup {"manifest"} : v[f] \notin {Missing, Partial, None}
  BY <1>1, <1>2 DEF Required, Items
<1>6. PlanAgrees(v)
  BY <1>3, <1>5, OwnTopology DEF PlanAgrees, Input, Plan
<1>7. ManifestAgrees(v) /\ AttestationAgrees(v) /\ BindingsAgree(v)
  <2>1. /\ Input(m).manifest = Manifest(m) /\ Input(m).attestation = Attestation(m)
        /\ Manifest(m).attestation = Attestation(m) /\ Manifest(m).bindings = m.suite
    BY DEF Input, Manifest
  <2> QED BY <1>3, <1>5, <2>1 DEF ManifestAgrees, AttestationAgrees, BindingsAgree
<1>8. \A e \in v["manifest"].entries : ArtifactAgrees(v, e.id)
  BY <1>3, <1>4 DEF ArtifactAgrees, Manifest
<1>9. EntriesAgree(v)
  <2>1. v["manifest"].entries = {[id |-> c, key |-> Key(m.suite, c),
                                  digest |-> TerminalOf(m, c)] : c \in Applicable}
    BY <1>3 DEF Manifest
  <2>2. v["evidence"] = {BundleOf(m, c) : c \in Applicable}
    BY <1>3 DEF EvidenceOf
  <2>3. \A c \in Applicable : /\ BundleOf(m, c).id = c
                              /\ BundleOf(m, c).key = Key(m.suite, c)
                              /\ BundleOf(m, c).digest = TerminalOf(m, c)
    BY DEF BundleOf
  <2> QED BY <2>1, <2>2, <2>3 DEF EntriesAgree
<1>10. ReplayAccepts(v, Release(m))
  BY <1>3, <1>5, <1>6, <1>7, <1>8, <1>9
     DEF ReplayAccepts, PublicEvidenceAgrees, Release
<1>11. Verifies(v["release"], Release(m))
  <2>1. /\ Release(m).input = Input(m) /\ Release(m).cells = CellsOf(m)
        /\ Release(m).evidence = EvidenceOf(m)
    BY DEF Release, ReleaseBytes
  <2>2. GateAccepts(Input(m), CellsOf(m), EvidenceOf(m), "ignored")
    BY DEF GateAccepts
  <2>3. Release(m) \notin {Missing, Partial}
    BY <1>3, <1>5 DEF Required
  <2> QED BY <1>3, <2>1, <2>2, <2>3 DEF Verifies
<1> QED BY <1>10, <1>11

\* The release of run r stands in the directory.
Stands(r) ==
    /\ Releasable(r)
    /\ published = Release(runs[r])
    /\ \A f \in Items : dir[f] = Document(runs[r], f)

\* While nobody has edited the bundle: a builder has written its own documents up to
\* the file it is at, and what has been published stands in the directory.
Alone ==
    /\ \A b \in Builders : pc[b] # "idle" => Releasable(job[b])
    /\ \A b \in Builders : at[b] = 1 \/ Writes(b)
    /\ edits = 0 =>
         /\ \A b \in Builders : Writes(b) =>
               \A i \in 1..Last : i < at[b] =>
                  dir[WriteOrder[i]] = Document(runs[job[b]], WriteOrder[i])
         /\ published # None => \E r \in Runs : Stands(r)

AloneInv == WriteInv /\ BundleTypeOK /\ Published /\ Alone

LEMMA AloneInit == Init => Alone
  BY DEF Init, Alone, Writes

\* A run that has been measured stays as it is.
LEMMA RunsStay ==
    ASSUME AloneInv, [Next]_vars, NEW r \in Runs, runs[r] # None
    PROVE  runs'[r] = runs[r]
  BY DEF AloneInv, Published, Next, vars, Measure, Edit, Rebuild, Start, Claim,
     Truncate, Fill, Die, StartReplay, Read

LEMMA ReleasableStays ==
    ASSUME NEW r, runs'[r] = runs[r], Releasable(r)
    PROVE  Releasable(r)'
  BY DEF Releasable, GateAccepts, NoneOpen, EvidenceMatches, Publishable, Attributed

\* The builders that are at work after a step were before it, on the same run, but
\* for the one that starts.
LEMMA WorkersStay ==
    ASSUME AloneInv, [Next]_vars
    PROVE  /\ \A b \in Builders : pc'[b] # "idle" => Releasable(job[b])'
           /\ \A b \in Builders : at'[b] = 1 \/ Writes(b)'
<1>0. \A b \in Builders : at'[b] = 1 \/ Writes(b)'
  <2>1. CASE UNCHANGED builders
    BY <2>1 DEF builders, AloneInv, Alone, Writes
  <2>2. ASSUME NEW d \in Builders, NEW r \in Runs, NEW s \in Suites, Start(d, r, s)
        PROVE  \A b \in Builders : at'[b] = 1 \/ Writes(b)'
    BY <2>2 DEF Start, AloneInv, Alone, BundleTypeOK, Writes
  <2>3. ASSUME NEW d \in Builders, Claim(d) \/ Truncate(d) \/ Fill(d) \/ Die(d)
        PROVE  \A b \in Builders : at'[b] = 1 \/ Writes(b)'
    BY <2>3 DEF Claim, Truncate, Fill, Die, Quit, AloneInv, Alone, BundleTypeOK, Writes
  <2> QED
    BY <2>1, <2>2, <2>3 DEF Next, vars, builders, Measure, Edit, Rebuild,
       StartReplay, Read
<1> SUFFICES ASSUME NEW b \in Builders, pc'[b] # "idle" PROVE Releasable(job[b])'
  BY <1>0
<1>1. CASE pc[b] # "idle" /\ job'[b] = job[b]
  <2>1. job[b] \in Runs /\ runs[job[b]] # None /\ Releasable(job[b])
    BY <1>1 DEF AloneInv, Published, Jobs, Alone
  <2>2. runs'[job[b]] = runs[job[b]]
    BY <2>1, RunsStay
  <2>3. runs'[job'[b]] = runs[job[b]]
    BY <1>1, <2>2
  <2> QED
    BY <2>1, <2>3 DEF Releasable, GateAccepts, NoneOpen, EvidenceMatches, Publishable,
       Attributed
<1>2. CASE \E r \in Runs, s \in Suites : Start(b, r, s)
  <2>1. PICK r \in Runs, s \in Suites : Start(b, r, s)
    BY <1>2
  <2>2. Releasable(r) /\ job'[b] = r /\ runs' = runs
    BY <2>1 DEF Start, Assembles, AloneInv, BundleTypeOK
  <2> QED
    BY <2>2 DEF Releasable, GateAccepts, NoneOpen, EvidenceMatches, Publishable,
       Attributed
<1>3. \/ pc[b] # "idle" /\ job'[b] = job[b]
      \/ \E r \in Runs, s \in Suites : Start(b, r, s)
  <2>1. CASE UNCHANGED builders
    BY <2>1 DEF builders
  <2>2. ASSUME NEW d \in Builders, NEW r \in Runs, NEW s \in Suites, Start(d, r, s)
        PROVE  \/ pc[b] # "idle" /\ job'[b] = job[b]
               \/ \E r1 \in Runs, s1 \in Suites : Start(b, r1, s1)
    <3>1. CASE d = b
      BY <2>2, <3>1
    <3>2. CASE d # b
      BY <2>2, <3>2 DEF Start, AloneInv, BundleTypeOK
    <3> QED BY <3>1, <3>2
  <2>3. ASSUME NEW d \in Builders, Claim(d) \/ Truncate(d) \/ Fill(d) \/ Die(d)
        PROVE  pc[b] # "idle" /\ job'[b] = job[b]
    BY <2>3 DEF Claim, Truncate, Fill, Die, Quit, AloneInv, BundleTypeOK
  <2> QED
    BY <2>1, <2>2, <2>3 DEF Next, vars, builders, Measure, Edit, Rebuild,
       StartReplay, Read
<1> QED BY <1>1, <1>2, <1>3

\* Steps that leave the directory and the printed digest alone.
LEMMA QuietKeeps ==
    ASSUME AloneInv, [Next]_vars, UNCHANGED <<dir, published, edits>>,
           \A b \in Builders : Writes(b)' =>
              \/ Writes(b) /\ at'[b] = at[b] /\ job'[b] = job[b]
              \/ at'[b] = 1
    PROVE  Alone'
<1>1. /\ \A b \in Builders : pc'[b] # "idle" => Releasable(job[b])'
      /\ \A b \in Builders : at'[b] = 1 \/ Writes(b)'
  BY WorkersStay
<1>2. ASSUME edits = 0, NEW b \in Builders, Writes(b)', NEW i \in 1..Last, i < at'[b]
      PROVE  dir[WriteOrder[i]] = Document(runs'[job'[b]], WriteOrder[i])
  <2>1. Writes(b) /\ at'[b] = at[b] /\ job'[b] = job[b]
    BY <1>2, WrittenOnce
  <2>2. job[b] \in Runs /\ runs[job[b]] # None
    BY <2>1 DEF AloneInv, Published, Jobs, Writes
  <2>3. runs'[job'[b]] = runs[job[b]]
    BY <2>1, <2>2, RunsStay
  <2> QED BY <1>2, <2>1, <2>3 DEF AloneInv, Alone
<1>3. ASSUME edits = 0, published # None PROVE \E r \in Runs : Stands(r)'
  <2>1. PICK r \in Runs : Stands(r)
    BY <1>3 DEF AloneInv, Alone
  <2>2. runs[r] # None /\ runs'[r] = runs[r]
    BY <2>1, RunsStay DEF Stands, Releasable
  <2>3. Releasable(r)'
    BY <2>1, <2>2, ReleasableStays DEF Stands
  <2> QED BY <2>1, <2>2, <2>3 DEF Stands
<1> QED BY <1>1, <1>2, <1>3 DEF Alone

LEMMA TruncateKeeps ==
    ASSUME AloneInv, NEW b \in Builders, Truncate(b)
    PROVE  Alone'
<1>1. [Next]_vars
  BY DEF Next
<1>2. Writes(b) /\ published = None /\ published' = None
  BY DEF AloneInv, WriteInv, Ahead, Writes, Truncate
<1>3. \A d \in Builders : Writes(d)' => d = b
  BY <1>2 DEF AloneInv, WriteInv, OneWriter, Types, Truncate, Writes
<1>4. at[b] \in 1..Last /\ UNCHANGED <<runs, at, job, edits>>
  BY DEF AloneInv, BundleTypeOK, Truncate
<1>5. ASSUME NEW i \in 1..Last, i < at[b] PROVE dir'[WriteOrder[i]] = dir[WriteOrder[i]]
  <2>1. WriteOrder[i] # WriteOrder[at[b]]
    BY <1>4, <1>5, WrittenOnce
  <2> QED BY <2>1, WrittenOnce DEF Truncate, AloneInv, BundleTypeOK
<1>6. edits' = 0 => \A d \in Builders : Writes(d)' =>
         \A i \in 1..Last : i < at'[d] =>
            dir'[WriteOrder[i]] = Document(runs'[job'[d]], WriteOrder[i])
  BY <1>2, <1>3, <1>4, <1>5 DEF AloneInv, Alone
<1> QED BY <1>1, <1>2, <1>6, WorkersStay DEF Alone

LEMMA FillKeeps ==
    ASSUME AloneInv, NEW b \in Builders, Fill(b)
    PROVE  Alone'
<1> DEFINE Doc(f) == Document(runs[job[b]], f)
<1>1. [Next]_vars
  BY DEF Next
<1>2. Writes(b) /\ published = None
  BY DEF AloneInv, WriteInv, Ahead, Writes, Fill
<1>3. at[b] \in 1..Last /\ UNCHANGED <<runs, edits>> /\ Last \in Nat
  BY WrittenOnce DEF AloneInv, BundleTypeOK, Fill
<1>4. dir'[WriteOrder[at[b]]] = Doc(WriteOrder[at[b]])
  BY <1>3, WrittenOnce DEF Fill, AloneInv, BundleTypeOK
<1>5. ASSUME edits = 0, NEW i \in 1..Last, i < at[b]
      PROVE  dir'[WriteOrder[i]] = Doc(WriteOrder[i])
  <2>1. WriteOrder[i] # WriteOrder[at[b]] /\ WriteOrder[i] \in Items
    BY <1>3, <1>5, WrittenOnce
  <2>2. dir'[WriteOrder[i]] = dir[WriteOrder[i]]
    BY <2>1 DEF Fill, AloneInv, BundleTypeOK
  <2> QED BY <1>2, <1>5, <2>2 DEF AloneInv, Alone
<1>6. job[b] \in Runs /\ runs[job[b]] # None /\ Releasable(job[b])
  BY <1>2 DEF AloneInv, Alone, Published, Jobs, Writes
<1> HIDE DEF Doc
<1>7. CASE at[b] < Last
  <2>1. /\ published' = None /\ at'[b] = at[b] + 1 /\ job' = job
        /\ \A d \in Builders : Writes(d)' => d = b
    BY <1>2, <1>7 DEF Fill, AloneInv, BundleTypeOK, WriteInv, OneWriter, Writes
  <2>2. edits = 0 => \A i \in 1..Last : i < at'[b] =>
                        dir'[WriteOrder[i]] = Doc(WriteOrder[i])
    <3>1. \A i \in 1..Last : i < at'[b] => i < at[b] \/ i = at[b]
      BY <1>3, <2>1
    <3> QED BY <3>1, <1>4, <1>5
  <2> QED BY <1>1, <1>3, <2>1, <2>2, WorkersStay DEF Alone, Doc
<1>8. CASE ~(at[b] < Last)
  <2>1. published' = Release(runs[job[b]]) /\ Quit(b)
    BY <1>8 DEF Fill
  <2>2. \A d \in Builders : ~Writes(d)'
    BY <1>2, <2>1 DEF Quit, AloneInv, BundleTypeOK, WriteInv, OneWriter, Writes
  <2>3. edits = 0 => \A i \in 1..Last : dir'[WriteOrder[i]] = Doc(WriteOrder[i])
    <3>1. \A i \in 1..Last : i < at[b] \/ i = at[b]
      BY <1>3, <1>8
    <3> QED BY <3>1, <1>4, <1>5
  <2>4. edits = 0 => \A f \in Items : dir'[f] = Doc(f)
    BY <2>3, AllAreWritten
  <2>5. PICK r \in Runs : r = job[b]
    BY <1>6
  <2>6. Releasable(r)'
    BY <1>3, <1>6, <2>5, ReleasableStays
  <2>7. edits = 0 => Stands(r)'
    BY <1>3, <2>1, <2>4, <2>5, <2>6 DEF Stands, Doc
  <2> QED BY <1>1, <1>3, <2>2, <2>7, WorkersStay DEF Alone
<1> QED BY <1>7, <1>8

LEMMA AloneStep == AloneInv /\ [Next]_vars => Alone'
<1> SUFFICES ASSUME AloneInv, [Next]_vars PROVE Alone'
  OBVIOUS
<1>1. CASE UNCHANGED <<builders, dir, published, edits>>
  BY <1>1, QuietKeeps DEF builders, Writes
<1>2. CASE Edit \/ Rebuild
  <2>1. edits' # 0
    BY <1>2 DEF Edit, Rebuild, AloneInv, WriteInv, Types
  <2> QED BY <2>1, WorkersStay DEF Alone
<1>3. ASSUME NEW b \in Builders, NEW r \in Runs, NEW s \in Suites, Start(b, r, s)
      PROVE  Alone'
  <2>1. \A d \in Builders : Writes(d)' => Writes(d) /\ at'[d] = at[d] /\ job'[d] = job[d]
    BY <1>3 DEF Start, AloneInv, BundleTypeOK, Writes
  <2> QED BY <1>3, <2>1, QuietKeeps DEF Start
<1>4. ASSUME NEW b \in Builders, Claim(b)
      PROVE  Alone'
  <2>1. CASE claimed = "no"
    <3>1. pc' = [pc EXCEPT ![b] = "truncate"] /\ UNCHANGED <<at, job>>
      BY <1>4, <2>1 DEF Claim
    <3>2. \A d \in Builders : Writes(d)' => d = b \/ Writes(d)
      BY <3>1 DEF AloneInv, BundleTypeOK, Writes
    <3>3. at[b] = 1
      BY <1>4 DEF Claim, AloneInv, Alone, Writes
    <3> QED BY <1>4, <3>1, <3>2, <3>3, QuietKeeps DEF Claim
  <2>2. CASE claimed = "yes"
    <3>1. \A d \in Builders : Writes(d)' => Writes(d) /\ at'[d] = at[d] /\ job'[d] = job[d]
      BY <1>4, <2>2 DEF Claim, Quit, AloneInv, BundleTypeOK, Writes
    <3> QED BY <1>4, <3>1, QuietKeeps DEF Claim
  <2> QED BY <2>1, <2>2 DEF AloneInv, BundleTypeOK
<1>5. ASSUME NEW b \in Builders, Die(b)
      PROVE  Alone'
  <2>1. \A d \in Builders : Writes(d)' => Writes(d) /\ at'[d] = at[d] /\ job'[d] = job[d]
    BY <1>5 DEF Die, Quit, AloneInv, BundleTypeOK, Writes
  <2> QED BY <1>5, <2>1, QuietKeeps DEF Die
<1>6. \/ UNCHANGED <<builders, dir, published, edits>>
      \/ Edit \/ Rebuild
      \/ \E b \in Builders, r \in Runs, s \in Suites : Start(b, r, s)
      \/ \E b \in Builders : Claim(b) \/ Truncate(b) \/ Fill(b) \/ Die(b)
  BY DEF Next, vars, builders, Measure, StartReplay, Read
<1> QED BY <1>1, <1>2, <1>3, <1>4, <1>5, <1>6, TruncateKeeps, FillKeeps

\* The invariant of a bundle that is left alone.
THEOREM AloneInvariant == Spec => []AloneInv
<1>1. Init => WriteInv /\ BundleTypeOK /\ Published /\ Alone
  BY WriteInit, TypeInit, PublishedInit, AloneInit
<1>2. AloneInv /\ [Next]_vars => AloneInv'
  <2> SUFFICES ASSUME AloneInv, [Next]_vars PROVE AloneInv'
    OBVIOUS
  <2> QED BY WriteStep, TypeStep, PublishedStep, AloneStep DEF AloneInv
<1> QED BY <1>1, <1>2, PTL DEF Spec, AloneInv

\* A release that was built to its end and not edited since replays and verifies
\* under the digest its builder printed, whichever builders raced for its id and
\* however they died, and whatever was measured or replayed meanwhile.
THEOREM UneditedReleasesReplay == Spec => []PublishedReplays
<1>1. AloneInv => PublishedReplays
  <2> SUFFICES ASSUME AloneInv, published # None, edits = 0
               PROVE  ReplayAccepts(dir, published) /\ Verifies(dir["release"], published)
    BY DEF PublishedReplays
  <2>1. PICK r \in Runs : Stands(r)
    BY DEF AloneInv, Alone
  <2>2. /\ runs[r] \in Measured
        /\ GateAccepts(Input(runs[r]), CellsOf(runs[r]), EvidenceOf(runs[r]), "required")
    BY <2>1 DEF Stands, Releasable, AloneInv, BundleTypeOK
  <2>3. \A f \in Items : dir[f] = Document(runs[r], f)
    BY <2>1 DEF Stands
  <2> QED BY <2>1, <2>2, <2>3, OwnBundleReplays DEF Stands
<1> QED BY <1>1, AloneInvariant, PTL
=============================================================================
