---------------------------- MODULE ReleaseGate ----------------------------
(***************************************************************************)
(* releases/gate.py, validate_release_inputs: what the cells and the       *)
(* evidence bundles of a release must satisfy before its bytes are built,  *)
(* and releases/builder.py, which builds them.                             *)
(*                                                                         *)
(* A cell is a record [cell, key, applicable, state, attribution], `cell`  *)
(* being its identity (case, provider, access path, mode, round) and `key` *)
(* its run key.  An evidence bundle is a record [id, key, fingerprint,     *)
(* digest, safe], `digest` being its public digest and `safe` the answer   *)
(* of the publication policy.  A release input is a record with the suite  *)
(* fingerprint and the set `ids` of its evidence ids, among others.        *)
(* The JSON arrays of cells and of bundles are sets here: two entries with *)
(* the same key are two records that differ in something else.             *)
(* The metric facts of a release are module RankingCohort's.               *)
(***************************************************************************)
EXTENDS FiniteSets

CONSTANTS
    ProviderSide,  \* the failure attributions on the provider's side
    OtherSide,     \* the others: the benchmark's own, the agent's
    Unattributed   \* a cell without failure attribution (None)

ASSUME AttributionsOK ==
    /\ ProviderSide \cap OtherSide = {}
    /\ Unattributed \notin ProviderSide \cup OtherSide

Attributions == ProviderSide \cup OtherSide \cup {Unattributed}

Terminal == {"completed", "provider_negative", "infra_blocked", "excluded",
             "not_applicable"}
States   == Terminal \cup {"planned", "running"}

KeysOf(items) == {x.key : x \in items}
IdsOf(bundles) == {x.id : x \in bundles}

KeysUnique(items)  == \A x, y \in items : x.key = y.key => x = y
IdsUnique(bundles) == \A x, y \in bundles : x.id = y.id => x = y

NoneOpen(cells) == \A c \in cells : c.state \in Terminal

ApplicableKeys(cells) == {c.key : c \in {x \in cells : x.applicable = "yes"}}

\* Every bundle belongs to the release, every applicable cell to one bundle.
EvidenceMatches(release, cells, bundles) ==
    /\ bundles # {}
    /\ IdsUnique(bundles)
    /\ release.ids = IdsOf(bundles)
    /\ KeysUnique(cells)
    /\ KeysUnique(bundles)
    /\ ApplicableKeys(cells) = KeysOf(bundles)

Publishable(release, bundles) ==
    \A e \in bundles : e.fingerprint = release.fingerprint /\ e.safe = "yes"

\* Mutant of Attributed: a provider may be blamed for the benchmark's own failures.
AttributedToAnybody(cells) ==
    \A c \in cells :
        c.state \in {"provider_negative", "infra_blocked"} =>
            c.attribution # Unattributed

\* ensure_provider_side_attribution, and any attribution for a blocked cell.
Attributed(cells) ==
    \A c \in cells :
        /\ c.state = "provider_negative" => c.attribution \in ProviderSide
        /\ c.state = "infra_blocked" => c.attribution # Unattributed

\* validate_release_inputs; `attribution` is its require_attribution, "required"
\* when a release is built or replayed and "ignored" when it is verified.
GateAccepts(release, cells, bundles, attribution) ==
    /\ NoneOpen(cells)
    /\ EvidenceMatches(release, cells, bundles)
    /\ Publishable(release, bundles)
    /\ attribution = "required" => Attributed(cells)

\* build_release: the canonical bytes of the release, its cells and its evidence.
\* They list the cells and the bundles sorted, so that sets determine them.
ReleaseBytes(release, cells, bundles) ==
    [input |-> release, cells |-> cells, evidence |-> bundles]
=============================================================================
