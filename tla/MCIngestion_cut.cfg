SPECIFICATION Spec
CONSTANTS
    Runs = {r1, r2}
    NoRun = NoRun
    k1 = k1
    k2 = k2
    A = A
    B = B
    Keys = {k1, k2}
    Values = {A, B}
    first = first
    revised = revised
    again = again
    garbled = garbled
    doubled = doubled
    repeated = repeated
    Payloads = {first}
    NoPayload = NoPayload
    Malformed = {}
    Records <- MCRecords
    MaxOpen = 1
    MaxId = 8
    Faults = {"disk"}

CHECK_DEADLOCK FALSE
INVARIANTS SnapshotsHoldPayloads
