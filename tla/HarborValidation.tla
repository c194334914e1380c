-------------------------- MODULE HarborValidation --------------------------
(***************************************************************************)
(* validate_harbor_source of catalog/harbor_snapshot.py run by a process   *)
(* of its own beside the exporter: the suite compiler gives it the         *)
(* contracts.json of harbor_catalog/, release replay the one of the digest *)
(* the release pins when there is such a file (_snapshot_contracts_path).  *)
(* It reads contracts.json, meta.json, catalog.json and contracts.json     *)
(* once more, and the exporter may write in between.                       *)
(***************************************************************************)
EXTENDS HarborExport

VARIABLES
    rpc,         \* where the validator stands
    pin,         \* the CAP's SourceReference
    from,        \* the directory it reads: "top" or "snapshot"
    payload,     \* contracts.json as first read
    wasPublished,  \* history: had an export reported the digest at the start?
    undisturbed  \* history: has nothing in `from` been written since the start?

reader  == <<rpc, pin, from, payload, wasPublished, undisturbed>>
allVars == <<vars, reader>>

Pins == [digest : Contracts, cap : Caps, contract : Versions]
NoPin == [digest |-> NoRecords, cap |-> CHOOSE c \in Caps : TRUE,
          contract |-> CHOOSE v \in Versions : TRUE]

\* What stands in the directory the validator reads.
Source == IF from = "top" THEN top
          ELSE IF pin.digest \in DOMAIN snapshots THEN snapshots[pin.digest]
          ELSE Empty

Verdict(v) ==
    /\ rpc' = v
    /\ UNCHANGED <<vars, pin, from, payload, wasPublished, undisturbed>>

\* Mutant of SnapshotIsFile: replay reads harbor_catalog/contracts.json, always.
SnapshotIsFileNever(d) == FALSE

\* _snapshot_contracts_path: a file that is still being written is there, too.
SnapshotIsFile(d) == d \in DOMAIN snapshots /\ snapshots[d]["contracts"] # Missing

Begin(p, who) ==
    /\ rpc = "idle"
    /\ rpc' = "contracts"
    /\ pin' = p
    /\ from' = IF who = "replay" /\ SnapshotIsFile(p.digest)
               THEN "snapshot" ELSE "top"
    /\ wasPublished' = (who = "replay" /\ p.digest \in DOMAIN published
                        /\ published[p.digest].total = "right")
    /\ undisturbed' = TRUE
    /\ UNCHANGED <<vars, payload>>

ReadContracts ==
    /\ rpc = "contracts"
    /\ Source["contracts"] \in Contracts
    /\ payload' = Source["contracts"]
    /\ rpc' = "meta"
    /\ UNCHANGED <<vars, pin, from, wasPublished, undisturbed>>

\* origin, digest, provenance and counts all follow from the contracts the file
\* was computed from.
ReadMeta ==
    /\ rpc = "meta"
    /\ Source["meta"] = payload
    /\ Verdict("catalog")

CatalogMatches(cat) ==
    /\ cat \in Catalogs
    /\ cat.total = "right"
    /\ cat.ids = DOMAIN payload

ReadCatalog ==
    /\ rpc = "catalog"
    /\ CatalogMatches(Source["catalog"])
    /\ Verdict("again")

\* The second read of contracts.json gives the digest, the first one the contract.
Pinned ==
    /\ Source["contracts"] = pin.digest
    /\ pin.cap \in DOMAIN payload
    /\ payload[pin.cap] = pin.contract

\* Mutant of Accept: the CAP's contract digest is not compared.
AcceptAnyContract ==
    /\ rpc = "again"
    /\ Source["contracts"] = pin.digest
    /\ pin.cap \in DOMAIN payload
    /\ Verdict("accepted")

Accept ==
    /\ rpc = "again"
    /\ Pinned
    /\ Verdict("accepted")

Reject ==
    /\ \/ rpc = "contracts" /\ Source["contracts"] \notin Contracts
       \/ rpc = "meta" /\ Source["meta"] # payload
       \/ rpc = "catalog" /\ ~CatalogMatches(Source["catalog"])
       \/ rpc = "again" /\ ~Pinned
    /\ Verdict("rejected")

\* The next validation starts from scratch.
Return ==
    /\ rpc \in {"accepted", "rejected"}
    /\ rpc' = "idle"
    /\ pin' = NoPin /\ from' = "top" /\ payload' = NoRecords
    /\ wasPublished' = FALSE /\ undisturbed' = TRUE
    /\ UNCHANGED vars

ReaderNext ==
    \/ \E p \in Pins, who \in {"compiler", "replay"} : Begin(p, who)
    \/ ReadContracts \/ ReadMeta \/ ReadCatalog \/ Accept \/ Reject \/ Return

Init ==
    /\ ExportInit
    /\ rpc = "idle" /\ pin = NoPin /\ from = "top" /\ payload = NoRecords
    /\ wasPublished = FALSE /\ undisturbed = TRUE

Next ==
    \/ ReaderNext
    \/ /\ ExportNext
       /\ UNCHANGED <<rpc, pin, from, payload, wasPublished>>
       /\ undisturbed' = (rpc = "idle" \/ (undisturbed /\ Source' = Source))

Spec == Init /\ [][Next]_allVars

-----------------------------------------------------------------------------
(***************************************************************************)
(* Properties                                                              *)
(***************************************************************************)
\* The pinned contract is the one of the pinned snapshot.
Consistent(p) == p.cap \in DOMAIN p.digest /\ p.digest[p.cap] = p.contract

\* A formal CAP that validation accepts is backed by the contracts file it pins:
\* always when that is read under snapshots/, even while the directory is being
\* written, and in harbor_catalog/ itself unless an export wrote between the reads.
AcceptedIsBacked ==
    rpc = "accepted" /\ (from = "snapshot" \/ undisturbed) => Consistent(pin)

\* A released digest replays for good: once an export has reported a digest, no
\* replay of a release that pins one of its contracts is rejected, whatever the
\* exporter does before or during the reads.
PublishedPinsReplay ==
    rpc = "rejected" /\ wasPublished => ~Consistent(pin)
=============================================================================
