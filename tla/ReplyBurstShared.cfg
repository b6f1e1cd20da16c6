SPECIFICATION Spec
CONSTANTS
    r1 = r1  r2 = r2  r3 = r3
    h1 = h1  e1 = e1
    c1 = c1  c2 = c2
    Retry = Retry
    Requests = {r1, r2, r3}
    ClientIds = {c1, c2}
    Sent <- TwoAndAResend
    Hosts = {h1}
    HostTries = 2
    Erasers = {e1}
    MaxRestarts = 1
    Mishaps = {"fail"}
    MaxMishaps = 1
INVARIANTS ClosedMeansServed NoReplyHidesAMessage
CHECK_DEADLOCK FALSE
