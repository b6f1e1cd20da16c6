SPECIFICATION FairSpec
CONSTANTS
    r1 = r1  r2 = r2  r3 = r3
    h1 = h1  e1 = e1
    c1 = c1  c2 = c2
    Retry = Retry
    Requests = {r1, r2, r3}
    ClientIds = {c1, c2}
    Sent <- TwoAndARetry
    Hosts = {}
    HostTries = 1
    Erasers = {}
    MaxRestarts = 1
    Mishaps = {"fail", "cancel", "crash", "renewal"}
    MaxMishaps = 1
INVARIANTS TypeOK ClosedMeansServed AnsweredOnce
PROPERTIES ChatIsFreedAgain MessageIsServed
CHECK_DEADLOCK FALSE
