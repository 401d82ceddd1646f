\* Two tabs, two leases, one resource; tabs crash and liveness queries fail.
CONSTANTS
    Owners = {o1, o2}
    Leases = {l1, l2}
    doc = doc
    tex = tex
    plain = plain
    other = other
    document = document
    Refs = {doc}
    Payloads = {plain}
    Dependencies <- MCDependencies
    MaxQueue = 2
    LocksAvailable = TRUE
    Operations = {"begin", "put", "commit", "collect"}
    Faults = {"crash", "query"}
    Absent = Absent
    NoRecord = NoRecord
    NoOwner = NoOwner
    Unknown = Unknown
    NotGranted = NotGranted
SPECIFICATION Spec
SYMMETRY Symmetry
INVARIANTS DisposalIsFinal HeldResourcesPresent SavedResourcesPresent OpenLeaseIntact
CHECK_DEADLOCK FALSE
