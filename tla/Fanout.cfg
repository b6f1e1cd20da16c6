SPECIFICATION FairSpec
CONSTANTS
    x = x  y = y  s1 = s1  a = a  p1 = p1  p2 = p2  p3 = p3
    Instances = {x, y}
    Sockets = {s1}
    Home <- OnX
    Chats = {a}
    Calls = {p1, p2, p3}
    From <- ReplyMessageNudge
    About <- ToA
    Sends <- TwoAndOneEach
    Limit = 2
INVARIANTS TypeOK NothingAheadIsSkipped
PROPERTIES DeliversAsPromised RowArrives
CHECK_DEADLOCK FALSE
