SPECIFICATION Spec
CONSTANTS
    ua = ua  ub = ub  o1 = o1  o2 = o2  w1 = w1  w2 = w2
    Users = {ua, ub}
    Scheduled <- Intros
    Operators = {o1, o2}
    Workers = {w1, w2}
    Patches = {"proposed"}
    Says = {"declined"}
    Tries = 2
    MaxAttempts = 2
    MaxWrites = 1
    MaxPatches = 0
    MaxFaults = 0
INVARIANTS TypeOK NotesKept
SYMMETRY Alike
CHECK_DEADLOCK FALSE
