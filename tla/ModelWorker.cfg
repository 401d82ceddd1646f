\* Two requests to one worker, which may be superseded; one message is damaged.
CONSTANTS
    Stages = {"decode", "analyze", "repair"}
    MaxAggregateBytes = 4
    MaxEntries = 1
    MaxJobs = 2
    d1 = d1
    d2 = d2
    l1 = l1
    l2 = l2
    Requests <- MCRequests
    SizeOf <- MCSizeOf
    MaxDiagnostics = 1
    Found = {0, 2}
    Faults = {"start", "post", "snapshot", "inputs", "throw", "stop"}
    Tampering = {"anonymous", "malformed", "unreadable", "corrupt", "other"}
    MaxTampered = 1
    MaxInFlight = 3
    NoDoc = NoDoc
    NoLimits = NoLimits
SPECIFICATION FairSpec
INVARIANTS NeverBusy AnswerIsOwn RejectedOnlyDamaged CacheAccounting
PROPERTIES EveryRequestAnswered
CHECK_DEADLOCK FALSE
