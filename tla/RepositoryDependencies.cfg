\* Two tabs, a texture and a document that depends on it.
CONSTANTS
    Owners = {o1, o2}
    Leases = {l1}
    doc = doc
    tex = tex
    plain = plain
    other = other
    document = document
    Refs = {tex, doc}
    Payloads = {plain, document}
    Dependencies <- MCDependencies
    MaxQueue = 2
    LocksAvailable = TRUE
    Operations = {"begin", "put", "commit", "collect"}
    Faults = {}
    Absent = Absent
    NoRecord = NoRecord
    NoOwner = NoOwner
    Unknown = Unknown
    NotGranted = NotGranted
SPECIFICATION Spec
SYMMETRY Symmetry
PROPERTIES ImplementsStore
CHECK_DEADLOCK FALSE
