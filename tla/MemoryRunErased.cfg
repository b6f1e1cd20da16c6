SPECIFICATION Spec
CONSTANTS
    a = a  b = b  ja = ja  jb = jb  ta = ta  e1 = e1
    Omi = Omi  Nobody = Nobody
    Chats = {a, b}
    Says <- TwoSaid
    Replies <- NoReply
    Jobs = {ja, jb}
    Tasks = {}
    Of <- AB
    Threshold = 1
    MaxFailures = 2
    MaxTries = 2
    Erasers = {e1}
    Mishaps = {"outage","content","write","crash","overrun"}
    MaxMishaps = 1
INVARIANTS DeletedIsForgotten
PROPERTY CardKept
CHECK_DEADLOCK FALSE
