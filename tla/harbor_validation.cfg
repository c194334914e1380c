SPECIFICATION Spec
CONSTANTS
    Missing = Missing
    Partial = Partial
    Caps = {a}
    Versions = {v1, v2}
    Texts = {t1}
    MaxChanges = 1
    MaxFaults = 1
INVARIANTS
    AcceptedIsBacked
    PublishedPinsReplay
