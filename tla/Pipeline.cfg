\* Two runs, a pass that retains resources named by sources and one that
\* caches nothing; every callback may fail, work may await what it asks for.
CONSTANTS
    a = a
    c = c
    x = x
    y = y
    Passes = {a, c}
    Cached = {a}
    Retaining = {a}
    SourceScoped = {a}
    Runs = {e1, e2}
    Keys = {x, y}
    MaxGenerations = 3
    Helpers = {"pass", "source"}
    Faults = {"work", "create"}
    NoRun = NoRun
    NoSlot = NoSlot
    NoKey = NoKey
SPECIFICATION MCFairSpec
INVARIANTS LeasedResourcesLive RetainsLatest DisposedLeavesNothing
PROPERTIES LeaseLeavesWithGeneration EverythingEnds
CHECK_DEADLOCK FALSE
