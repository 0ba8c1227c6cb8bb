SPECIFICATION Spec
CONSTANTS
    Calls = {c1, c2, c3}
    Alerts = {a1, a2}
    peak = peak
    ramp = ramp
    Fingerprints = {peak, ramp}
    NoFingerprint = NoFingerprint
    NoAlert = NoAlert
    CandidateLists <- MCCandidateLists
    MaxOpen = 3
    Faults = {}

CHECK_DEADLOCK FALSE
PROPERTIES TerminalStatesStay
