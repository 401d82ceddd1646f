SPECIFICATION FairSpec
CONSTANTS
    MaxGenerations = 2
    MaxRegistrations = 2
    MaxHides = 1
    Exports = {e1, e2}
    Calls = {c1}
    NoExport = NoExport
    Faults <- AllFaults
INVARIANTS ExportKeepsOwners RuntimesFollowLeases OneExportAtATime
PROPERTIES NoSpuriousCancel OwnersSettle
CHECK_DEADLOCK FALSE
