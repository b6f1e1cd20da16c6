SPECIFICATION ChatFairSpec
CONSTANTS
    m1 = m1  m2 = m2  v1 = v1  n1 = n1  r1 = r1
    Mine = {m1}
    Elsewhere = {v1}
    Nudges = {}
    Replies = {r1}
INVARIANTS ChatTypeOK ShowsAPrefix OwnBubbleKept
PROPERTIES GapIsFilled
CONSTRAINT Unexcused
CHECK_DEADLOCK FALSE
