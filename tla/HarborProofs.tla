----------------------------- MODULE HarborProofs -----------------------------
(*****************************************************************************)
(* Proofs about the Harbor catalog, for any capabilities, contracts,         *)
(* catalogs and numbers of changes and faults.  Of the exporter: files       *)
(* under snapshots/ are written once, a reported digest stays complete, and  *)
(* success leaves one export in the output directory.  Of the validator      *)
(* that reads harbor_catalog/ meanwhile: what it accepts is backed by the    *)
(* file it pins, and a digest an export has reported replays for good.       *)
(*****************************************************************************)
EXTENDS HarborValidation, TLAPS

-----------------------------------------------------------------------------
(*****************************************************************************)
(* The exporter.  Nothing but the inductive invariant is needed: the types   *)
(* of the documents play no part in it.                                      *)
(*****************************************************************************)
\* Any function of the file names will do for a directory.
IsDirectory(dir) == dir = [f \in FileNames |-> dir[f]]

\* The files before `at` are there already.
WrittenSoFar(dir) ==
    /\ at \in {"contracts", "meta"} => dir["catalog"] = catalog
    /\ at = "meta" => dir["contracts"] = records

\* From `at` on, no file is complete.
UnwrittenYet(dir) ==
    /\ at = "catalog" => dir["catalog"] \in {Missing, Partial}
    /\ at \in {"catalog", "contracts"} => dir["contracts"] \in {Missing, Partial}
    /\ dir["meta"] \in {Missing, Partial}

\* What is known at each point of the exporter.
Control ==
    /\ pc \in {"idle", "fetch", "top", "claim", "snapshot"}
    /\ at \in FileNames
    /\ stage \in {"truncate", "fill"}
    /\ pc \in {"idle", "fetch", "claim"} => at = "catalog" /\ stage = "truncate"
    /\ pc = "idle" => records = NoRecords /\ errors = {}
    /\ pc = "fetch" => DOMAIN records \subseteq catalog.ids
    /\ pc \in {"top", "claim", "snapshot"} => catalog.ids = DOMAIN records
    /\ result = "exported" => pc = "idle"

\* The two directories an export is writing.
Writing ==
    /\ pc = "top" => WrittenSoFar(top)
    /\ pc \in {"claim", "snapshot"} => top = Written
    /\ pc = "snapshot" =>
         /\ records \in DOMAIN snapshots
         /\ records \notin DOMAIN published
         /\ WrittenSoFar(snapshots[records])
         /\ UnwrittenYet(snapshots[records])

Shapes ==
    /\ IsDirectory(top)
    /\ snapshots = [d \in DOMAIN snapshots |-> snapshots[d]]
    /\ \A d \in DOMAIN snapshots : IsDirectory(snapshots[d])

ExportInv == Shapes /\ Control /\ Writing /\ PublishedIsComplete /\ TopMatchesSnapshot
-----------------------------------------------------------------------------
LEMMA InvInit == ExportInit => ExportInv
BY DEF ExportInit, ExportInv, Shapes, Control, Writing, PublishedIsComplete,
       TopMatchesSnapshot, IsDirectory, Empty, FileNames, NoRecords

\* What the step on snapshots/ leaves alone, and what it puts there.
LEMMA NewDirectory ==
  ASSUME Shapes, ClaimDigest
  PROVE  /\ DOMAIN snapshots' = DOMAIN snapshots \cup {records}
         /\ snapshots'[records] = Empty
         /\ \A d \in DOMAIN snapshots : snapshots'[d] = snapshots[d]
         /\ Shapes'
<1>1. /\ DOMAIN snapshots' = DOMAIN snapshots \cup {records}
      /\ snapshots'[records] = Empty
      /\ \A d \in DOMAIN snapshots : snapshots'[d] = snapshots[d]
  BY DEF ClaimDigest
<1>2. snapshots' = [d \in DOMAIN snapshots' |-> snapshots'[d]] /\ UNCHANGED top
  BY DEF ClaimDigest
<1>3. IsDirectory(Empty)
  BY DEF IsDirectory, Empty
<1> QED
  BY <1>1, <1>2, <1>3 DEF Shapes, IsDirectory

LEMMA NewFile ==
  ASSUME Shapes, Control, Writing, WriteSnapshot
  PROVE  /\ DOMAIN snapshots' = DOMAIN snapshots
         /\ snapshots'[records] = FileWritten(snapshots[records])
         /\ \A d \in DOMAIN snapshots \ {records} : snapshots'[d] = snapshots[d]
         /\ Shapes'
<1>1. records \in DOMAIN snapshots
  BY DEF Writing, WriteSnapshot
<1>2. /\ DOMAIN snapshots' = DOMAIN snapshots
      /\ snapshots'[records] = FileWritten(snapshots[records])
      /\ \A d \in DOMAIN snapshots \ {records} : snapshots'[d] = snapshots[d]
      /\ snapshots' = [d \in DOMAIN snapshots' |-> snapshots'[d]]
      /\ UNCHANGED top
  BY <1>1 DEF WriteSnapshot, Shapes
<1>3. IsDirectory(FileWritten(snapshots[records]))
  BY <1>1 DEF Shapes, IsDirectory, FileWritten
<1> QED
  BY <1>2, <1>3 DEF Shapes, IsDirectory

\* The last file completes the three documents of the export.
LEMMA LastFile ==
  ASSUME NEW dir, IsDirectory(dir), WrittenSoFar(dir), LastStep
  PROVE  FileWritten(dir) = Written
<1>1. FileWritten(dir) = [f \in FileNames |-> FileWritten(dir)[f]]
  BY DEF IsDirectory, FileWritten
<1>2. \A f \in FileNames : FileWritten(dir)[f] = Written[f]
  BY DEF IsDirectory, WrittenSoFar, LastStep, FileWritten, Written, Documents,
         FileNames
<1> QED
  BY <1>1, <1>2 DEF Written, Documents

LEMMA InvStep == ExportInv /\ [ExportNext]_vars => ExportInv'
<1> SUFFICES ASSUME ExportInv, [ExportNext]_vars PROVE ExportInv'
  OBVIOUS
<1> USE DEF ExportInv, exporter, directory, collection
<1>1. ASSUME HarborChanges PROVE ExportInv'
  BY <1>1 DEF HarborChanges, Shapes, IsDirectory, Control,
     Writing, WrittenSoFar, UnwrittenYet, Written, Documents, FileNames,
     NoRecords, PublishedIsComplete, TopMatchesSnapshot
<1>2. ASSUME Edit PROVE ExportInv'
  BY <1>2 DEF Edit, Shapes, IsDirectory, Control,
     Writing, WrittenSoFar, UnwrittenYet, Written, Documents, FileNames,
     NoRecords, PublishedIsComplete, TopMatchesSnapshot
<1>3. ASSUME Export PROVE ExportInv'
  BY <1>3 DEF Export, Shapes, IsDirectory, Control,
     Writing, WrittenSoFar, UnwrittenYet, Written, Documents, FileNames,
     NoRecords, PublishedIsComplete, TopMatchesSnapshot
<1>4. ASSUME Normalize PROVE ExportInv'
  BY <1>4 DEF Normalize, Normalizable, Stop, Shapes, IsDirectory, Control,
     Writing, WrittenSoFar, UnwrittenYet, Written, Documents, FileNames,
     NoRecords, PublishedIsComplete, TopMatchesSnapshot
<1>5. ASSUME NEW c \in Caps, FetchContract(c) PROVE ExportInv'
  BY <1>5 DEF FetchContract, Unanswered, Shapes, IsDirectory, Control,
     Writing, WrittenSoFar, UnwrittenYet, Written, Documents, FileNames,
     NoRecords, PublishedIsComplete, TopMatchesSnapshot
<1>6. ASSUME NEW c \in Caps, FetchFails(c) PROVE ExportInv'
  BY <1>6 DEF FetchFails, Unanswered, Shapes, IsDirectory, Control,
     Writing, WrittenSoFar, UnwrittenYet, Written, Documents, FileNames,
     NoRecords, PublishedIsComplete, TopMatchesSnapshot
<1>7. ASSUME BeginWrite PROVE ExportInv'
  <2>1. catalog.ids = DOMAIN records
    BY <1>7 DEF BeginWrite, Unanswered, Control
  <2> QED
    BY <1>7, <2>1 DEF BeginWrite, Shapes, IsDirectory, Control, Writing,
       WrittenSoFar, Written, PublishedIsComplete, TopMatchesSnapshot
<1>8. ASSUME ExportIncomplete PROVE ExportInv'
  BY <1>8 DEF ExportIncomplete, Stop, Shapes, IsDirectory, Control,
     Writing, WrittenSoFar, UnwrittenYet, Written, Documents, FileNames,
     NoRecords, PublishedIsComplete, TopMatchesSnapshot
<1>9. ASSUME DigestRefused PROVE ExportInv'
  BY <1>9 DEF DigestRefused, Stop, Shapes, IsDirectory, Control,
     Writing, WrittenSoFar, UnwrittenYet, Written, Documents, FileNames,
     NoRecords, PublishedIsComplete, TopMatchesSnapshot
<1>10. ASSUME Abort PROVE ExportInv'
  BY <1>10 DEF Abort, Stop, Shapes, IsDirectory, Control,
     Writing, WrittenSoFar, UnwrittenYet, Written, Documents, FileNames,
     NoRecords, PublishedIsComplete, TopMatchesSnapshot
<1>11. ASSUME WriteTop PROVE ExportInv'
  <2>1. Shapes'
    BY <1>11 DEF WriteTop, FileWritten, Shapes, IsDirectory
  <2>2. Control'
    BY <1>11 DEF WriteTop, Advance, LastStep, Control, FileNames
  <2>3. Writing'
    BY <1>11, LastFile DEF WriteTop, Advance, LastStep, FileWritten, Shapes,
       IsDirectory, Control, Writing, WrittenSoFar, Written, FileNames, Documents
  <2>4. PublishedIsComplete' /\ TopMatchesSnapshot'
    BY <1>11 DEF WriteTop, Control, PublishedIsComplete, TopMatchesSnapshot
  <2> QED
    BY <2>1, <2>2, <2>3, <2>4
<1>12. ASSUME ClaimDigest PROVE ExportInv'
  <2>1. Shapes'
    BY <1>12, NewDirectory
  <2>2. Control'
    BY <1>12 DEF ClaimDigest, Control
  <2>3. PublishedIsComplete' /\ TopMatchesSnapshot'
    BY <1>12, NewDirectory DEF ClaimDigest, Control, PublishedIsComplete,
       TopMatchesSnapshot
  <2>4. Writing'
    BY <1>12, NewDirectory DEF ClaimDigest, Control, Writing, WrittenSoFar,
       UnwrittenYet, Written, Empty, FileNames, PublishedIsComplete
  <2> QED
    BY <2>1, <2>2, <2>3, <2>4
<1>13. ASSUME DigestKnown PROVE ExportInv'
  <2>1. Shapes' /\ Control' /\ Writing'
    BY <1>13 DEF DigestKnown, Succeed, Stop, Shapes, Control, Writing, FileNames
  <2>2. PublishedIsComplete'
    BY <1>13 DEF DigestKnown, Succeed, Control, PublishedIsComplete, Written
  <2>3. TopMatchesSnapshot'
    BY <1>13 DEF DigestKnown, Succeed, Control, Writing, TopMatchesSnapshot,
       Written, Documents, FileNames
  <2> QED
    BY <2>1, <2>2, <2>3
<1>14. ASSUME WriteSnapshot PROVE ExportInv'
  <2>1. Shapes'
    BY <1>14, NewFile
  <2>2. Control'
    BY <1>14 DEF WriteSnapshot, Succeed, Stop, Advance, LastStep, Control, FileNames
  <2>3. CASE LastStep
    <3>1. snapshots'[records] = Written
      BY <1>14, <2>3, NewFile, LastFile DEF WriteSnapshot, Shapes, Writing
    <3>2. /\ DOMAIN published' = DOMAIN published \cup {records}
          /\ published'[records] = catalog
          /\ \A d \in DOMAIN published \ {records} : published'[d] = published[d]
          /\ pc' = "idle" /\ UNCHANGED top
      BY <1>14, <2>3 DEF WriteSnapshot, Succeed, Stop
    <3>3. PublishedIsComplete'
      BY <1>14, <3>1, <3>2, NewFile DEF WriteSnapshot, Control, Writing,
         PublishedIsComplete, Written
    <3>4. top' = Written /\ top'["contracts"] = records
      BY <1>14, <3>2 DEF WriteSnapshot, Writing, Written, Documents, FileNames
    <3>5. Writing' /\ TopMatchesSnapshot'
      BY <3>1, <3>2, <3>4 DEF Writing, TopMatchesSnapshot
    <3> QED
      BY <2>1, <2>2, <3>3, <3>5
  <2>4. CASE ~LastStep
    <3>1. PublishedIsComplete' /\ TopMatchesSnapshot'
      BY <1>14, <2>4, NewFile DEF WriteSnapshot, Control, Writing,
         PublishedIsComplete, TopMatchesSnapshot
    <3>2. Writing'
      BY <1>14, <2>4, NewFile DEF WriteSnapshot, Advance, LastStep, FileWritten,
         Shapes, IsDirectory, Control, Writing, WrittenSoFar, UnwrittenYet,
         Written, Documents, FileNames
    <3> QED
      BY <2>1, <2>2, <3>1, <3>2
  <2> QED
    BY <2>3, <2>4
<1>15. CASE UNCHANGED vars
  BY <1>15 DEF vars, Shapes, IsDirectory, Control, Writing, WrittenSoFar,
     UnwrittenYet, Written, PublishedIsComplete, TopMatchesSnapshot
<1> QED
  BY <1>1, <1>2, <1>3, <1>4, <1>5, <1>6, <1>7, <1>8, <1>9, <1>10, <1>11, <1>12,
     <1>13, <1>14, <1>15 DEF ExportNext, ExporterStep

\* The inductive invariant holds in every state of every export.
THEOREM ExportInvariant == ExportSpec => []ExportInv
<1> QED
  BY InvInit, InvStep, PTL DEF ExportSpec

\* A digest an export has reported keeps its three complete files for ever.
THEOREM ReportedDigestsStay == ExportSpec => []PublishedIsComplete
<1>1. ExportInv => PublishedIsComplete
  BY DEF ExportInv
<1> QED
  BY <1>1, ExportInvariant, PTL

\* A successful export leaves the output directory equal to its snapshot.
THEOREM SuccessIsOneExport == ExportSpec => []TopMatchesSnapshot
<1>1. ExportInv => TopMatchesSnapshot
  BY DEF ExportInv
<1> QED
  BY <1>1, ExportInvariant, PTL

LEMMA StepWritesOnce == ExportInv /\ [ExportNext]_vars => [WriteOnce]_vars
<1> SUFFICES ASSUME ExportInv, ExportNext PROVE WriteOnce
  OBVIOUS
<1> USE DEF ExportInv
<1>1. CASE ClaimDigest
  BY <1>1, NewDirectory DEF WriteOnce
<1>2. CASE WriteSnapshot
  <2>1. UnwrittenYet(snapshots[records]) /\ records \in DOMAIN snapshots
    BY <1>2 DEF WriteSnapshot, Writing
  <2>2. snapshots[records][at] \in {Missing, Partial}
    BY <2>1 DEF UnwrittenYet, Control, FileNames
  <2>3. \A f \in FileNames \ {at} : FileWritten(snapshots[records])[f]
                                    = snapshots[records][f]
    BY <2>1 DEF FileWritten, Shapes, IsDirectory
  <2> QED
    BY <1>2, <2>1, <2>2, <2>3, NewFile DEF WriteOnce
<1>3. CASE UNCHANGED snapshots
  BY <1>3 DEF WriteOnce
<1>4. ExportNext => ClaimDigest \/ WriteSnapshot \/ UNCHANGED snapshots
  BY DEF ExportNext, ExporterStep, HarborChanges, Edit, Export, Normalize, FetchContract,
     FetchFails, BeginWrite, ExportIncomplete, WriteTop, DigestKnown,
     DigestRefused, Abort, directory
<1> QED
  BY <1>1, <1>2, <1>3, <1>4

\* Files under snapshots/ are written once, by every export, edit and crash.
THEOREM SnapshotsAreImmutable == ExportSpec => SnapshotFilesAreWriteOnce
<1> QED
  BY ExportInvariant, StepWritesOnce, PTL
     DEF ExportSpec, SnapshotFilesAreWriteOnce

-----------------------------------------------------------------------------
(*****************************************************************************)
(* The validator only reads, so all of this holds beside it.  Two facts are  *)
(* added about a directory under snapshots/: a complete contracts.json in    *)
(* it is the one it is named by, and the file never disappears again.        *)
(*****************************************************************************)
\* The documents the exporter holds and the ones it has reported.
ExportTypes ==
    /\ harbor \in Services
    /\ catalog \in Catalogs
    /\ records \in Contracts
    /\ \A d \in DOMAIN published : published[d] \in Catalogs

\* A directory under snapshots/ never holds the contracts of another digest.
NamedByDigest ==
    \A d \in DOMAIN snapshots : snapshots[d]["contracts"] \in {Missing, Partial, d}

\* What the validator knows at each point.
Reading ==
    /\ rpc \in {"idle", "contracts", "meta", "catalog", "again", "accepted", "rejected"}
    /\ from \in {"top", "snapshot"}
    /\ rpc # "idle" => pin \in Pins
    /\ rpc # "idle" /\ from = "snapshot" => SnapshotIsFile(pin.digest)
    /\ rpc \in {"meta", "catalog", "again"} =>
         /\ from = "snapshot" => payload = pin.digest
         /\ from = "top" /\ undisturbed => top["contracts"] = payload

\* A validation that began on a reported digest reads its three files.
Replaying ==
    rpc # "idle" /\ wasPublished =>
        /\ from = "snapshot"
        /\ pin.digest \in DOMAIN published
        /\ published[pin.digest].total = "right"

ValidationInv ==
    /\ ExportInv
    /\ ExportTypes
    /\ NamedByDigest
    /\ Reading
    /\ Replaying
    /\ AcceptedIsBacked
    /\ PublishedPinsReplay
-----------------------------------------------------------------------------
(***************************************************************************)
(* The exporter                                                            *)
(***************************************************************************)
LEMMA NothingIsTyped == Nothing \in Catalogs /\ NoRecords \in Contracts
<1>1. (CHOOSE t \in Texts : TRUE) \in Texts
  BY ExportOK DEF ExportOK
<1>2. Nothing \in Catalogs
  BY <1>1 DEF Nothing, Catalogs
<1>3. {} \in SUBSET Caps /\ NoRecords \in [{} -> Versions]
  BY DEF NoRecords
<1> QED
  BY <1>2, <1>3 DEF Contracts

LEMMA ContractsAreFiles == \A d \in Contracts : d \notin {Missing, Partial}
BY ExportOK DEF ExportOK

LEMMA FetchedIsContracts ==
  ASSUME ExportTypes, NEW c \in Caps, FetchContract(c)
  PROVE  records' \in Contracts
<1>1. PICK S \in SUBSET Caps : records \in [S -> Versions]
  BY DEF ExportTypes, Contracts
<1>2. PICK H \in SUBSET Caps : harbor.contracts \in [H -> Versions]
  BY DEF ExportTypes, Services, Contracts
<1>3. harbor.contracts[c] \in Versions
  BY <1>2 DEF FetchContract
<1>4. S \cup {c} \in SUBSET Caps /\ records' \in [S \cup {c} -> Versions]
  BY <1>1, <1>3 DEF FetchContract
<1> QED
  BY <1>4 DEF Contracts

LEMMA ExportKeepsTypes == ExportTypes /\ [ExportNext]_vars => ExportTypes'
<1> SUFFICES ASSUME ExportTypes, [ExportNext]_vars PROVE ExportTypes'
  OBVIOUS
<1> USE DEF exporter, directory, collection
<1>1. ASSUME HarborChanges \/ Edit \/ BeginWrite \/ WriteTop \/ ClaimDigest
             \/ UNCHANGED vars
      PROVE  ExportTypes'
  BY <1>1 DEF HarborChanges, Edit, BeginWrite, WriteTop, ClaimDigest, vars,
     ExportTypes
<1>2. ASSUME ExportIncomplete \/ DigestRefused \/ Abort PROVE ExportTypes'
  BY <1>2, NothingIsTyped DEF ExportIncomplete, DigestRefused, Abort, Stop,
     ExportTypes
<1>3. ASSUME Export PROVE ExportTypes'
  BY <1>3 DEF Export, ExportTypes, Services
<1>4. ASSUME Normalize PROVE ExportTypes'
  BY <1>4, NothingIsTyped DEF Normalize, Normalizable, Stop, ExportTypes
<1>5. ASSUME NEW c \in Caps, FetchContract(c) PROVE ExportTypes'
  BY <1>5, FetchedIsContracts DEF FetchContract, ExportTypes
<1>6. ASSUME NEW c \in Caps, FetchFails(c) PROVE ExportTypes'
  BY <1>6 DEF FetchFails, ExportTypes
<1>7. ASSUME DigestKnown \/ WriteSnapshot PROVE ExportTypes'
  BY <1>7, NothingIsTyped DEF DigestKnown, WriteSnapshot, Succeed, Stop,
     ExportTypes
<1> QED
  BY <1>1, <1>2, <1>3, <1>4, <1>5, <1>6, <1>7 DEF ExportNext, ExporterStep

\* What a step of the exporter does to snapshots/ and to what it has reported.
LEMMA SnapshotStep ==
  ASSUME ExportInv, ExportTypes, ExportNext
  PROVE  \/ UNCHANGED snapshots
         \/ ClaimDigest
         \/ WriteSnapshot
BY DEF ExportNext, ExporterStep, HarborChanges, Edit, Export, Normalize,
   FetchContract, FetchFails, BeginWrite, ExportIncomplete, WriteTop, DigestKnown,
   DigestRefused, Abort, directory

\* Contracts keep their name, and a contracts.json that is there stays there.
LEMMA ExportKeepsNames ==
  ASSUME ExportInv, ExportTypes, NamedByDigest, [ExportNext]_vars
  PROVE  /\ NamedByDigest'
         /\ \A d : SnapshotIsFile(d) => SnapshotIsFile(d)'
<1> USE DEF ExportInv, NamedByDigest, SnapshotIsFile
<1>1. CASE UNCHANGED snapshots
  BY <1>1
<1>2. CASE ClaimDigest
  <2>1. Empty["contracts"] = Missing
    BY DEF Empty, FileNames
  <2>2. records \notin DOMAIN snapshots
    BY <1>2 DEF ClaimDigest
  <2> QED
    BY <1>2, <2>1, <2>2, NewDirectory
<1>3. CASE WriteSnapshot
  <2>1. records \in DOMAIN snapshots
    BY <1>3 DEF WriteSnapshot, Writing
  <2>2. \/ FileWritten(snapshots[records])["contracts"] \in {Partial, records}
        \/ FileWritten(snapshots[records])["contracts"] = snapshots[records]["contracts"]
    BY <2>1 DEF FileWritten, Written, Documents, Shapes, IsDirectory, FileNames
  <2>3. FileWritten(snapshots[records])["contracts"] = Missing
           => snapshots[records]["contracts"] = Missing
    BY <2>2, ContractsAreFiles, ExportOK DEF ExportTypes, ExportOK
  <2> QED
    BY <1>3, <2>1, <2>2, <2>3, NewFile
<1> QED
  BY <1>1, <1>2, <1>3, SnapshotStep DEF vars

\* An export never reports a digest again with another catalog.
LEMMA ReportsStand ==
  ASSUME ExportInv, [ExportNext]_vars
  PROVE  \A d \in DOMAIN published :
            d \in DOMAIN published' /\ published'[d] = published[d]
<1> USE DEF ExportInv
<1>1. CASE UNCHANGED published
  BY <1>1
<1>2. CASE DigestKnown
  <2>1. records \in DOMAIN published => published[records] = catalog
    BY <1>2 DEF DigestKnown, PublishedIsComplete, Written, Documents, FileNames
  <2> QED
    BY <1>2, <2>1 DEF DigestKnown, Succeed
<1>3. CASE WriteSnapshot
  BY <1>3 DEF WriteSnapshot, Writing, Succeed
<1>4. ExportNext => DigestKnown \/ WriteSnapshot \/ UNCHANGED published
  BY DEF ExportNext, ExporterStep, HarborChanges, Edit, Export, Normalize,
     FetchContract, FetchFails, BeginWrite, ExportIncomplete, WriteTop, ClaimDigest,
     DigestRefused, Abort, directory
<1> QED
  BY <1>1, <1>2, <1>3, <1>4 DEF vars

-----------------------------------------------------------------------------
(***************************************************************************)
(* The validator                                                           *)
(***************************************************************************)
LEMMA ValidationInit == Init => ValidationInv
<1> SUFFICES ASSUME Init PROVE ValidationInv
  OBVIOUS
<1>1. ExportInv
  BY InvInit DEF Init
<1>2. ExportTypes /\ NamedByDigest
  BY NothingIsTyped DEF Init, ExportInit, ExportTypes, NamedByDigest
<1>3. Reading /\ Replaying /\ AcceptedIsBacked /\ PublishedPinsReplay
  BY DEF Init, Reading, Replaying, AcceptedIsBacked, PublishedPinsReplay
<1> QED
  BY <1>1, <1>2, <1>3 DEF ValidationInv

\* The validator writes nothing.
LEMMA ReaderOnlyReads == [Next]_allVars => [ExportNext]_vars
BY DEF Next, allVars, ReaderNext, Begin, ReadContracts, ReadMeta, ReadCatalog,
   Accept, Reject, Return, Verdict

LEMMA ExporterPart ==
  ASSUME ValidationInv, [Next]_allVars
  PROVE  ExportInv' /\ ExportTypes' /\ NamedByDigest'
BY ReaderOnlyReads, InvStep, ExportKeepsTypes, ExportKeepsNames DEF ValidationInv

\* The files behind a reported digest.
LEMMA ReportedFiles ==
  ASSUME ExportInv, ExportTypes, NEW d \in DOMAIN published, d \in Contracts
  PROVE  /\ SnapshotIsFile(d)
         /\ snapshots[d]["contracts"] = d
         /\ snapshots[d]["meta"] = d
         /\ snapshots[d]["catalog"] = published[d]
         /\ published[d] \in Catalogs
         /\ published[d].ids = DOMAIN d
<1>1. /\ d \in DOMAIN snapshots
      /\ snapshots[d] = Documents(published[d], d)
      /\ published[d].ids = DOMAIN d
  BY DEF ExportInv, PublishedIsComplete
<1>2. /\ snapshots[d]["contracts"] = d
      /\ snapshots[d]["meta"] = d
      /\ snapshots[d]["catalog"] = published[d]
  BY <1>1 DEF Documents, FileNames
<1> QED
  BY <1>1, <1>2, ContractsAreFiles DEF SnapshotIsFile, ExportTypes

\* An exporter's step: what the validator has read of a snapshot cannot move, and
\* `undisturbed` records whether harbor_catalog/ itself has.
LEMMA ExporterStepKeeps ==
  ASSUME ValidationInv, ExportNext,
         UNCHANGED <<rpc, pin, from, payload, wasPublished>>,
         undisturbed' = (rpc = "idle" \/ (undisturbed /\ Source' = Source))
  PROVE  Reading' /\ Replaying' /\ AcceptedIsBacked' /\ PublishedPinsReplay'
<1>1. rpc # "idle" /\ undisturbed' => undisturbed /\ Source' = Source
  OBVIOUS
<1>2. \A d : SnapshotIsFile(d) => SnapshotIsFile(d)'
  BY ExportKeepsNames DEF ValidationInv
<1>3. rpc # "idle" /\ from = "snapshot" => SnapshotIsFile(pin.digest)'
  BY <1>2 DEF ValidationInv, Reading
<1>4. from = "top" => Source = top /\ Source' = top'
  BY DEF Source
<1>5. Reading'
  BY <1>1, <1>3, <1>4 DEF ValidationInv, Reading, SnapshotIsFile
<1>6. Replaying'
  BY ReportsStand DEF ValidationInv, Replaying
<1>7. AcceptedIsBacked' /\ PublishedPinsReplay'
  BY <1>1 DEF ValidationInv, AcceptedIsBacked, PublishedPinsReplay, Consistent
<1> QED
  BY <1>5, <1>6, <1>7

LEMMA BeginKeeps ==
  ASSUME ValidationInv, NEW p \in Pins, NEW who \in {"compiler", "replay"}, Begin(p, who)
  PROVE  Reading' /\ Replaying' /\ AcceptedIsBacked' /\ PublishedPinsReplay'
<1>1. /\ rpc' = "contracts" /\ pin' = p /\ UNCHANGED <<published, snapshots>>
      /\ from' = IF who = "replay" /\ SnapshotIsFile(p.digest)
                 THEN "snapshot" ELSE "top"
  BY DEF Begin, vars
<1>2. p.digest \in Contracts
  BY DEF Pins
<1>3. Reading'
  BY <1>1 DEF Reading, SnapshotIsFile
<1>4. wasPublished' => /\ who = "replay" /\ p.digest \in DOMAIN published
                       /\ published[p.digest].total = "right"
  BY DEF Begin
<1>5. wasPublished' => from' = "snapshot"
  BY <1>1, <1>2, <1>4, ReportedFiles DEF ValidationInv
<1>6. Replaying'
  BY <1>1, <1>4, <1>5 DEF Replaying
<1> QED
  BY <1>1, <1>3, <1>6 DEF AcceptedIsBacked, PublishedPinsReplay

\* What stands in the directory of a snapshot that has its contracts.json.
LEMMA SourceOfSnapshot ==
  ASSUME ValidationInv, rpc # "idle", from = "snapshot"
  PROVE  /\ Source = snapshots[pin.digest]
         /\ Source["contracts"] \in Contracts => Source["contracts"] = pin.digest
BY ContractsAreFiles DEF ValidationInv, Reading, SnapshotIsFile, Source, NamedByDigest

\* The directory of a reported digest fails no read.
LEMMA SourceOfReplay ==
  ASSUME ValidationInv, rpc # "idle", wasPublished
  PROVE  /\ from = "snapshot"
         /\ Source["contracts"] = pin.digest /\ pin.digest \in Contracts
         /\ Source["meta"] = pin.digest
         /\ Source["catalog"] \in Catalogs
         /\ Source["catalog"].total = "right"
         /\ Source["catalog"].ids = DOMAIN pin.digest
<1>1. /\ from = "snapshot" /\ pin.digest \in DOMAIN published
      /\ published[pin.digest].total = "right"
  BY DEF ValidationInv, Replaying
<1>2. pin.digest \in Contracts
  BY DEF ValidationInv, Reading, Pins
<1>3. Source = snapshots[pin.digest]
  BY <1>1, SourceOfSnapshot
<1> QED
  BY <1>1, <1>2, <1>3, ReportedFiles DEF ValidationInv

LEMMA ReadsKeep ==
  ASSUME ValidationInv, ReadContracts \/ ReadMeta \/ ReadCatalog
  PROVE  Reading' /\ Replaying' /\ AcceptedIsBacked' /\ PublishedPinsReplay'
<1>1. /\ UNCHANGED <<vars, pin, from, wasPublished, undisturbed>>
      /\ rpc \in {"contracts", "meta", "catalog"}
      /\ rpc' \in {"meta", "catalog", "again"}
  BY DEF ReadContracts, ReadMeta, ReadCatalog, Verdict
<1>2. UNCHANGED <<snapshots, published, top>>
  BY <1>1 DEF vars
<1>3. CASE ReadContracts
  <2>1. payload' = Source["contracts"] /\ payload' \in Contracts
    BY <1>3 DEF ReadContracts
  <2>2. from = "snapshot" => payload' = pin.digest
    BY <1>1, <2>1, SourceOfSnapshot
  <2>3. from = "top" => top["contracts"] = payload'
    BY <2>1 DEF Source
  <2> QED
    BY <1>1, <1>2, <2>2, <2>3 DEF ValidationInv, Reading, SnapshotIsFile, Replaying,
       AcceptedIsBacked, PublishedPinsReplay
<1>4. CASE ReadMeta \/ ReadCatalog
  <2>1. UNCHANGED payload /\ rpc \in {"meta", "catalog"}
    BY <1>4 DEF ReadMeta, ReadCatalog, Verdict
  <2> QED
    BY <1>1, <1>2, <2>1 DEF ValidationInv, Reading, SnapshotIsFile, Replaying,
       AcceptedIsBacked, PublishedPinsReplay
<1> QED
  BY <1>3, <1>4

LEMMA AcceptKeeps ==
  ASSUME ValidationInv, Accept
  PROVE  Reading' /\ Replaying' /\ AcceptedIsBacked' /\ PublishedPinsReplay'
<1>1. /\ UNCHANGED <<vars, pin, from, payload, wasPublished, undisturbed>>
      /\ rpc = "again" /\ rpc' = "accepted" /\ Pinned
  BY DEF Accept, Verdict
<1>2. UNCHANGED <<snapshots, published>>
  BY <1>1 DEF vars
<1>3. from = "snapshot" \/ undisturbed => payload = pin.digest
  BY <1>1 DEF ValidationInv, Reading, Pinned, Source
<1>4. from = "snapshot" \/ undisturbed => Consistent(pin)
  BY <1>1, <1>3 DEF Pinned, Consistent
<1> QED
  BY <1>1, <1>2, <1>4 DEF ValidationInv, Reading, SnapshotIsFile, Replaying,
     AcceptedIsBacked, PublishedPinsReplay, Consistent

LEMMA RejectKeeps ==
  ASSUME ValidationInv, Reject
  PROVE  Reading' /\ Replaying' /\ AcceptedIsBacked' /\ PublishedPinsReplay'
<1>1. /\ UNCHANGED <<vars, pin, from, payload, wasPublished, undisturbed>>
      /\ rpc \in {"contracts", "meta", "catalog", "again"} /\ rpc' = "rejected"
  BY DEF Reject, Verdict
<1>2. UNCHANGED <<snapshots, published>>
  BY <1>1 DEF vars
<1>3. ASSUME wasPublished PROVE ~Consistent(pin)
  <2>1. rpc # "contracts" => payload = pin.digest
    BY <1>1, <1>3, SourceOfReplay DEF ValidationInv, Reading
  <2>2. rpc = "again" /\ ~Pinned
    BY <1>1, <1>3, <2>1, SourceOfReplay DEF Reject, CatalogMatches
  <2> QED
    BY <1>1, <1>3, <2>1, <2>2, SourceOfReplay DEF Pinned, Consistent
<1> QED
  BY <1>1, <1>2, <1>3 DEF ValidationInv, Reading, SnapshotIsFile, Replaying,
     AcceptedIsBacked, PublishedPinsReplay, Consistent

LEMMA ValidationStep == ValidationInv /\ [Next]_allVars => ValidationInv'
<1> SUFFICES ASSUME ValidationInv, [Next]_allVars PROVE ValidationInv'
  OBVIOUS
<1>1. ExportInv' /\ ExportTypes' /\ NamedByDigest'
  BY ExporterPart
<1> SUFFICES Reading' /\ Replaying' /\ AcceptedIsBacked' /\ PublishedPinsReplay'
  BY <1>1 DEF ValidationInv
<1>2. CASE Return
  BY <1>2 DEF Return, Reading, Replaying, AcceptedIsBacked, PublishedPinsReplay
<1>3. CASE UNCHANGED allVars
  BY <1>3 DEF allVars, reader, vars, ValidationInv, Reading, SnapshotIsFile, Replaying,
     AcceptedIsBacked, PublishedPinsReplay, Consistent
<1> QED
  BY <1>2, <1>3, ExporterStepKeeps, BeginKeeps, ReadsKeep, AcceptKeeps, RejectKeeps
     DEF Next, ReaderNext

\* The inductive invariant of exporter and validator together.
THEOREM ValidationInvariant == Spec => []ValidationInv
<1> QED
  BY ValidationInit, ValidationStep, PTL DEF Spec

\* Validation beside an export is an export: the validator changes no file, so the
\* exporter's own theorems hold of the two together (validate_harbor_source).
THEOREM ValidationIsAnExport == Spec => ExportSpec
<1>1. Init => ExportInit
  BY DEF Init
<1> QED
  BY <1>1, ReaderOnlyReads, PTL DEF Spec, ExportSpec

\* A CAP whose pin validation accepts has its contract in the contracts.json of the
\* digest it pins, whatever the exporter writes meanwhile under snapshots/.
THEOREM AcceptanceIsBacked == Spec => []AcceptedIsBacked
<1>1. ValidationInv => AcceptedIsBacked
  BY DEF ValidationInv
<1> QED
  BY <1>1, ValidationInvariant, PTL

\* Once an export has reported a digest, no release that pins one of its contracts
\* is refused on replay, however many exports, edits and crashes come after it.
THEOREM ReportedDigestsReplay == Spec => []PublishedPinsReplay
<1>1. ValidationInv => PublishedPinsReplay
  BY DEF ValidationInv
<1> QED
  BY <1>1, ValidationInvariant, PTL
=============================================================================
