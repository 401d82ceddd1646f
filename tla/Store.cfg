\* Two commands on the stacks, one scrub, one pan with zoom, one edit, one
\* value that is not recorded.
CONSTANTS
    x = x
    y = y
    Targets = {x, y}
    Values = {0, 1}
    Times = {2}
    Durations = {1, 2}
    Viewports <- MCViewports
    Origin = 0
    FullScale = 1
    Commands <- MCCommands
    Edits <- MCEdits
    MaxHistory = 2
    None = None
SPECIFICATION MCSpec
INVARIANTS HistoryIsExact ShownIsProjected
PROPERTIES GesturesApart
