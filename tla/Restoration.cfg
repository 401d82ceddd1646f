\* Two default models, one of them declared wrongly, one import of the user.
CONSTANTS
    d = d
    b = b
    i1 = i1
    r1 = r1
    r2 = r2
    r3 = r3
    Defaults = {d, b}
    Saved = {}
    Broken = {b}
    Imports = {i1}
    Rounds = {r1, r2, r3}
    MaxEdits = 2
    NoRound = NoRound
    NoTarget = NoTarget
    NoJob = NoJob
    Nobody = Nobody
    NoEdit = NoEdit
SPECIFICATION MCFairSpec
INVARIANTS NoRestorationForgotten HydrationsContained
PROPERTIES ImportsPrevail RestorationSettles
CHECK_DEADLOCK FALSE
