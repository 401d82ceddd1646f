\* The same instance: the property fails once the creation of a resource fails.
CONSTANTS
    a = a
    c = c
    x = x
    y = y
    Passes = {a, c}
    Cached = {a}
    Retaining = {a}
    SourceScoped = {a}
    Runs = {e1, e2}
    Keys = {x, y}
    MaxGenerations = 3
    Helpers = {"pass", "source"}
    Faults = {"work", "create"}
    NoRun = NoRun
    NoSlot = NoSlot
    NoKey = NoKey
SPECIFICATION MCSpec
INVARIANTS WorkKeepsLease
CHECK_DEADLOCK FALSE
