SPECIFICATION ExportSpec
CONSTANTS
    Missing = Missing
    Partial = Partial
    Caps = {a, b}
    Versions = {v1, v2}
    Texts = {t1, t2}
    MaxChanges = 1
    MaxFaults = 1
INVARIANTS
    PublishedIsComplete
    TopMatchesSnapshot
PROPERTIES
    SnapshotFilesAreWriteOnce
