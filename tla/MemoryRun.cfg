SPECIFICATION FairSpec
CONSTANTS
    a = a  b = b  ja = ja  jb = jb  ta = ta  e1 = e1
    Omi = Omi  Nobody = Nobody
    Chats <- OneChat
    Says <- ThreeSaid
    Replies <- OneReply
    Jobs = {ja}
    Tasks = {ta}
    Of <- OnlyA
    Threshold = 1
    MaxFailures = 1
    MaxTries = 2
    Erasers = {}
    Mishaps = {"outage","content","write","crash","overrun"}
    MaxMishaps = 1
INVARIANTS TypeOK NoneSkipped LearntOnce
PROPERTY MessageIsLearnt
CHECK_DEADLOCK FALSE
