\* One tab, every operation, every failure: the database is cleared.
CONSTANTS
    Owners = {o1}
    Leases = {l1}
    doc = doc
    tex = tex
    plain = plain
    other = other
    document = document
    Refs = {tex, doc}
    Payloads = {plain, document}
    Dependencies <- MCDependencies
    MaxQueue = 2
    LocksAvailable = TRUE
    Operations = {"begin", "put", "leaseGet", "commit", "rollback", "get", "collect"}
    Faults = {"abort", "cleanup", "query", "storage", "crash", "wipe"}
    Absent = Absent
    NoRecord = NoRecord
    NoOwner = NoOwner
    Unknown = Unknown
    NotGranted = NotGranted
SPECIFICATION FairSpec
PROPERTIES CommitIsAtomic DisposalCompletes
CHECK_DEADLOCK FALSE
