SPECIFICATION Spec
CONSTANTS
    Calls = {c1, c2, c3, c4}
    Alerts = {a1, a2, a3, a4}
    peak = peak
    ramp = ramp
    Fingerprints = {peak, ramp}
    NoFingerprint = NoFingerprint
    NoAlert = NoAlert
    CandidateLists <- MCCandidateLists
    MaxOpen = 4
    Faults = {"crash"}
SYMMETRY Symmetry
CHECK_DEADLOCK FALSE
INVARIANTS TypeOK OneActiveAlert HistoryEndsInState EvidenceForEveryCandidate NoCircularWait
