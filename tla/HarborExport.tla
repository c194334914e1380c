---------------------------- MODULE HarborExport ----------------------------
(***************************************************************************)
(* scripts/export_harbor_catalog.py: the exporter that copies Harbor's     *)
(* catalog and contracts into the repository, and the directory it writes: *)
(* harbor_catalog/{catalog,contracts,meta}.json and the same three files   *)
(* under harbor_catalog/snapshots/<digest of contracts.json>/.             *)
(*                                                                         *)
(* Harbor is asked for its catalog once and for each contract in turn, and *)
(* may change in between; the six files are written one after the other,   *)
(* in place; the process may die or an OSError end it at any point.  The   *)
(* digest of a document is the document itself (SHA-256 without            *)
(* collisions), and meta.json, which is computed from the contracts, is    *)
(* represented by the contracts it was computed from.                      *)
(***************************************************************************)
EXTENDS Naturals

CONSTANTS
    Caps,        \* capability ids
    Versions,    \* contract documents of one capability
    Texts,       \* what else a catalog says (names, descriptions)
    Missing,     \* the content of a file that does not exist
    Partial,     \* the content of a file that is being written
    MaxChanges,  \* bound: changes of Harbor and edits of the directory
    MaxFaults    \* bound: failed requests, write errors and kills

\* A contracts document maps the capabilities of the catalog to their contracts.
Contracts == UNION {[S -> Versions] : S \in SUBSET Caps}

\* `total` is Harbor's own count of the items; the exporter copies it unread.
Catalogs  == [ids : SUBSET Caps, text : Texts, total : {"right", "wrong"}]
Nothing   == [ids |-> {}, text |-> CHOOSE t \in Texts : TRUE, total |-> "right"]
NoRecords == [c \in {} |-> CHOOSE v \in Versions : TRUE]

ASSUME ExportOK ==
    /\ Texts # {} /\ Versions # {}
    /\ MaxChanges \in Nat /\ MaxFaults \in Nat
    /\ Missing # Partial
    /\ {Missing, Partial} \cap Contracts = {}
    /\ {Missing, Partial} \cap Catalogs = {}

FileNames == {"catalog", "contracts", "meta"}
Directory == [catalog   : Catalogs \cup {Missing, Partial},
              contracts : Contracts \cup {Missing, Partial},
              meta      : Contracts \cup {Missing, Partial}]
Empty     == [f \in FileNames |-> Missing]

VARIABLES
    harbor,     \* what Harbor would answer now: its catalog and contracts
    top,        \* the three files of the output directory
    snapshots,  \* the directories under snapshots/, by digest
    pc,         \* where the exporter stands; "idle" when it does not run
    catalog,    \* the catalog it has fetched or read
    records,    \* the contracts it has fetched or read
    errors,     \* the capabilities whose contract could not be fetched
    at,         \* the file it writes next
    stage,      \* what it does to that file next: truncate it, fill it
    result,     \* how the last export ended: "none", "exported" or "failed"
    changes, faults,
    published   \* history: digest -> the catalog exported with it

directory  == <<top, snapshots>>
collection == <<catalog, records, errors>>
exporter   == <<pc, catalog, records, errors, at, stage, result>>
vars       == <<harbor, top, snapshots, pc, catalog, records, errors, at, stage,
                result, changes, faults, published>>

Services == {h \in [catalog : Catalogs, contracts : Contracts] :
                h.catalog.ids = DOMAIN h.contracts}

\* catalog.json, contracts.json and meta.json of one export.
Documents(cat, recs) ==
    [f \in FileNames |-> IF f = "catalog" THEN cat ELSE recs]

ExportInit ==
    /\ harbor \in Services
    /\ top = Empty
    /\ snapshots = [d \in {} |-> Empty]
    /\ pc = "idle"
    /\ catalog = Nothing /\ records = NoRecords /\ errors = {}
    /\ at = "catalog" /\ stage = "truncate"
    /\ result = "none"
    /\ changes = 0 /\ faults = 0
    /\ published = [d \in {} |-> Nothing]

-----------------------------------------------------------------------------
(***************************************************************************)
(* The environment                                                         *)
(***************************************************************************)
HarborChanges ==
    /\ changes < MaxChanges
    /\ changes' = changes + 1
    /\ harbor' \in Services \ {harbor}
    /\ UNCHANGED <<directory, exporter, faults, published>>

\* Somebody edits catalog.json or contracts.json of the output directory, as
\* the tests of --normalize do.
Edit ==
    /\ changes < MaxChanges
    /\ pc = "idle"
    /\ changes' = changes + 1
    /\ \/ \E cat \in Catalogs : top' = [top EXCEPT !.catalog = cat]
       \/ \E recs \in Contracts : top' = [top EXCEPT !.contracts = recs]
    /\ result' = "none"
    /\ UNCHANGED <<harbor, snapshots, pc, collection, at, stage, faults,
                   published>>

-----------------------------------------------------------------------------
(***************************************************************************)
(* Collecting the documents                                                *)
(***************************************************************************)
Stop(how) ==
    /\ pc' = "idle"
    /\ result' = how
    /\ catalog' = Nothing /\ records' = NoRecords /\ errors' = {}
    /\ at' = "catalog" /\ stage' = "truncate"

\* export_catalog asks for the catalog.
Export ==
    /\ pc = "idle"
    /\ pc' = "fetch"
    /\ catalog' = harbor.catalog
    /\ result' = "none"
    /\ UNCHANGED <<harbor, directory, records, errors, at, stage, changes, faults,
                   published>>

Unanswered == catalog.ids \ (DOMAIN records \cup errors)

FetchContract(c) ==
    /\ pc = "fetch"
    /\ c \in Unanswered \cap DOMAIN harbor.contracts
    /\ records' = [x \in DOMAIN records \cup {c} |->
                      IF x = c THEN harbor.contracts[c] ELSE records[x]]
    /\ UNCHANGED <<harbor, directory, pc, catalog, errors, at, stage, result,
                   changes, faults, published>>

\* An HTTP error (404 for a capability Harbor has dropped since, or any other)
\* is collected.  A refused connection or a timeout is not: it is an Abort.
FetchFails(c) ==
    /\ pc = "fetch"
    /\ c \in Unanswered
    /\ \/ c \notin DOMAIN harbor.contracts /\ UNCHANGED faults
       \/ faults < MaxFaults /\ faults' = faults + 1
    /\ errors' = errors \cup {c}
    /\ UNCHANGED <<harbor, directory, pc, catalog, records, at, stage, result,
                   changes, published>>

\* Mutant of BeginWrite: contracts that could not be fetched are left out.
BeginWriteIncomplete ==
    /\ pc = "fetch"
    /\ Unanswered = {}
    /\ pc' = "top"
    /\ UNCHANGED <<harbor, directory, collection, at, stage, result, changes,
                   faults, published>>

BeginWrite ==
    /\ pc = "fetch"
    /\ Unanswered = {}
    /\ errors = {}
    /\ pc' = "top"
    /\ UNCHANGED <<harbor, directory, collection, at, stage, result, changes,
                   faults, published>>

ExportIncomplete ==
    /\ pc = "fetch"
    /\ Unanswered = {}
    /\ errors # {}
    /\ Stop("failed")
    /\ UNCHANGED <<harbor, directory, changes, faults, published>>

\* normalize_catalog reads the two documents back and writes them anew; a
\* document that is missing or does not parse, or two documents that list
\* different capabilities, are a RuntimeError.
Normalizable ==
    /\ top["catalog"] \in Catalogs
    /\ top["contracts"] \in Contracts
    /\ top["catalog"].ids = DOMAIN top["contracts"]

Normalize ==
    /\ pc = "idle"
    /\ IF Normalizable
       THEN /\ pc' = "top"
            /\ catalog' = top["catalog"] /\ records' = top["contracts"]
            /\ result' = "none"
            /\ UNCHANGED <<errors, at, stage>>
       ELSE Stop("failed")
    /\ UNCHANGED <<harbor, directory, changes, faults, published>>

-----------------------------------------------------------------------------
(***************************************************************************)
(* Writing them: _write_snapshot, first in place, then by digest           *)
(***************************************************************************)
Written == Documents(catalog, records)

\* One file of `dir`: write_bytes truncates it, then fills it.  After the last
\* file control passes on.
FileWritten(dir) ==
    [dir EXCEPT ![at] = IF stage = "fill" THEN Written[at] ELSE Partial]

Advance ==
    IF stage = "truncate" THEN stage' = "fill" /\ UNCHANGED at
    ELSE /\ stage' = "truncate"
         /\ at' = CASE at = "catalog"   -> "contracts"
                    [] at = "contracts" -> "meta"
                    [] at = "meta"      -> "catalog"

LastStep == stage = "fill" /\ at = "meta"

WriteTop ==
    /\ pc = "top"
    /\ top' = FileWritten(top)
    /\ Advance
    /\ pc' = IF LastStep THEN "claim" ELSE "top"
    /\ UNCHANGED <<harbor, snapshots, collection, result, changes, faults,
                   published>>

Succeed ==
    /\ Stop("exported")
    /\ published' = [d \in DOMAIN published \cup {records} |->
                        IF d = records THEN catalog ELSE published[d]]

\* Mutant of ClaimDigest: the directory is written again although it exists.
ClaimDigestAgain ==
    /\ pc = "claim"
    /\ pc' = "snapshot"
    /\ snapshots' = [d \in DOMAIN snapshots \cup {records} |->
                        IF d \in DOMAIN snapshots THEN snapshots[d] ELSE Empty]
    /\ UNCHANGED <<harbor, top, collection, at, stage, result, changes, faults,
                   published>>

\* The digest is new: make its directory.
ClaimDigest ==
    /\ pc = "claim"
    /\ records \notin DOMAIN snapshots
    /\ pc' = "snapshot"
    /\ snapshots' = [d \in DOMAIN snapshots \cup {records} |->
                        IF d = records THEN Empty ELSE snapshots[d]]
    /\ UNCHANGED <<harbor, top, collection, at, stage, result, changes, faults,
                   published>>

\* Mutant of DigestKnown: it is enough that the directory is there.
DigestKnownUnread ==
    /\ pc = "claim"
    /\ records \in DOMAIN snapshots
    /\ Succeed
    /\ UNCHANGED <<harbor, directory, changes, faults>>

\* The directory holds exactly these three files.
DigestKnown ==
    /\ pc = "claim"
    /\ records \in DOMAIN snapshots
    /\ snapshots[records] = Written
    /\ Succeed
    /\ UNCHANGED <<harbor, directory, changes, faults>>

\* "Harbor snapshot digest already has different content"
DigestRefused ==
    /\ pc = "claim"
    /\ records \in DOMAIN snapshots
    /\ snapshots[records] # Written
    /\ Stop("failed")
    /\ UNCHANGED <<harbor, directory, changes, faults, published>>

WriteSnapshot ==
    /\ pc = "snapshot"
    /\ snapshots' = [snapshots EXCEPT ![records] = FileWritten(@)]
    /\ IF LastStep THEN Succeed
       ELSE Advance /\ UNCHANGED <<pc, collection, result, published>>
    /\ UNCHANGED <<harbor, top, changes, faults>>

\* The process is killed, or an OSError (a full disk, a lost connection) ends it.
Abort ==
    /\ pc # "idle"
    /\ faults < MaxFaults
    /\ faults' = faults + 1
    /\ Stop("failed")
    /\ UNCHANGED <<harbor, directory, changes, published>>

-----------------------------------------------------------------------------
ExporterStep ==
    \/ \E c \in Caps : FetchContract(c) \/ FetchFails(c)
    \/ BeginWrite \/ ExportIncomplete
    \/ WriteTop \/ ClaimDigest \/ DigestKnown \/ DigestRefused \/ WriteSnapshot

ExportNext ==
    \/ HarborChanges
    \/ Edit
    \/ Export \/ Normalize
    \/ ExporterStep
    \/ Abort

ExportSpec == ExportInit /\ [][ExportNext]_vars

-----------------------------------------------------------------------------
(***************************************************************************)
(* Properties                                                              *)
(***************************************************************************)
\* A file under snapshots/ is written once: complete, it never changes, whatever
\* is exported, edited, normalised or interrupted later (_write_immutable_snapshot).
WriteOnce ==
    \A d \in DOMAIN snapshots : \A f \in FileNames :
        snapshots[d][f] \notin {Missing, Partial} =>
            d \in DOMAIN snapshots' /\ snapshots'[d][f] = snapshots[d][f]

SnapshotFilesAreWriteOnce == [][WriteOnce]_vars

\* A digest some export has reported stays resolvable: its directory holds the
\* three files of that export, complete and under the digest they hash to.
PublishedIsComplete ==
    \A d \in DOMAIN published :
        /\ d \in DOMAIN snapshots
        /\ snapshots[d] = Documents(published[d], d)
        /\ published[d].ids = DOMAIN d

\* When an export has just succeeded, the files a reviewer sees in the output
\* directory are those of the snapshot it reported, all three of one export.
TopMatchesSnapshot ==
    result = "exported" =>
        /\ top["contracts"] \in DOMAIN published
        /\ top = snapshots[top["contracts"]]
=============================================================================
