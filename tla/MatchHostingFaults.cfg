SPECIFICATION FairSpec
CONSTANTS
    ua = ua  ub = ub  o1 = o1  o2 = o2  w1 = w1  w2 = w2
    Users = {ua, ub}
    Scheduled <- OneIntro
    Operators = {o1}
    Workers = {w1, w2}
    Patches = {"proposed"}
    Says = {"declined"}
    Tries = 2
    MaxAttempts = 2
    MaxWrites = 0
    MaxPatches = 1
    MaxFaults = 1
INVARIANTS IntroducedOnce
PROPERTIES IntroducedIsTold
CHECK_DEADLOCK FALSE
