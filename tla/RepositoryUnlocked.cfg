\* A browser without Web Locks: operations interleave, liveness is unknown.
CONSTANTS
    Owners = {o1, o2}
    Leases = {l1, l2}
    doc = doc
    tex = tex
    plain = plain
    other = other
    document = document
    Refs = {doc}
    Payloads = {plain, other}
    Dependencies <- MCDependencies
    MaxQueue = 1
    LocksAvailable = FALSE
    Operations = {"begin", "put", "commit", "collect"}
    Faults = {"abort"}
    Absent = Absent
    NoRecord = NoRecord
    NoOwner = NoOwner
    Unknown = Unknown
    NotGranted = NotGranted
SPECIFICATION Spec
SYMMETRY Symmetry
INVARIANTS HeldResourcesPresent
PROPERTIES CommitIsAtomic
CHECK_DEADLOCK FALSE
