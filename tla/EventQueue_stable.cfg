\* Equal events, equal times, and inserts after some events have left.
SPECIFICATION Spec
CONSTANTS
    a = a
    b = b
    Events = {a, b}
    Times = {0, 1, 2}
    MaxInserts = 5
INVARIANTS
    NextIsDetermined
PROPERTIES
    ImplementsStableQueue
