\* Two tabs, builds of two versions, every storage failure.
CONSTANTS
    Tabs = {p1, p2}
    Versions = {v1, v2}
    Bodies = {x, y}
    Faults = {"read", "write", "snapshot"}
    Nothing = Nothing
    Garbage = Garbage
SPECIFICATION Spec
SYMMETRY Symmetry
INVARIANTS UnsavedIsKnown HiddenIsSaved
PROPERTIES OverwritesOnlySeen VersionsAreKept
