SPECIFICATION Spec
CONSTANTS
    humor = humor  tab1 = tab1  tab2 = tab2
    run1 = run1  back1 = back1  del1 = del1
    Areas = {humor}
    Private = {}
    Tabs = {tab1, tab2}
    Runs = {run1, back1}
    Leased = {run1}
    Deletions = {del1}
    MinLines = 1
    WriteAttempts = 2
    MaxMessages = 2
    MaxAsks = 2
    MaxMishaps = 1
INVARIANTS TypeOK RemovedStaysGone ProofStands ExtrasStand
SYMMETRY Alike
CHECK_DEADLOCK FALSE
