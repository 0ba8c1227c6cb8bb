SPECIFICATION Spec
CONSTANTS
    Runs = {r1, r2, r3, r4}
    NoRun = NoRun
    k1 = k1
    k2 = k2
    A = A
    B = B
    Keys = {k1, k2}
    Values = {A, B}
    first = first
    revised = revised
    again = again
    garbled = garbled
    doubled = doubled
    repeated = repeated
    Payloads = {first, revised, again, doubled, garbled, repeated}
    NoPayload = NoPayload
    Malformed = {garbled}
    Records <- MCRecords
    MaxOpen = 1
    MaxId = 8
    Faults = {"crash", "disk"}
SYMMETRY Symmetry
CHECK_DEADLOCK FALSE
PROPERTIES LoadsWhatItRead
