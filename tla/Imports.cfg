\* Two imports that share a resource, on two targets, under fairness.
CONSTANTS
    a = a
    b = b
    x = x
    y = y
    Imports = {a, b}
    Targets = {t1, t2}
    Refs = {x, y}
    Content <- SharedContent
    MaxCancels = 1
    MaxFailures = 2
    NoImport = NoImport
    NoTarget = NoTarget
SPECIFICATION FairSpec
INVARIANTS ResourcesKept NothingLeftBehind DisposedAfterUse
PROPERTIES OnlyLatestDispatches ImportsSettle
CHECK_DEADLOCK FALSE
