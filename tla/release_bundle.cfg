SPECIFICATION Spec
CONSTANTS
    c1 = c1
    c2 = c2
    c3 = c3
    provider_runtime_error = provider_runtime_error
    unknown = unknown
    Unattributed = Unattributed
    None = None
    Missing = Missing
    Partial = Partial
    ProviderSide = {provider_runtime_error}
    OtherSide = {unknown}
    Suites = {s1, s2}
    Cells = {c1, c2, c3}
    Applicable = {c1, c2}
    Runs = {r1, r2}
    Builders = {b1, b2}
    EvidenceOrder <- MCEvidenceOrder
    Results <- MCResults
    Edited <- MCEdited
    MaxEdits = 2
    MaxFaults = 1
SYMMETRY Symmetric
INVARIANTS
    BundleTypeOK
    ReplayedIsBacked
    TrustedIsThePublished
    PublishedReplays
PROPERTIES
    ReleasesAreImmutable
