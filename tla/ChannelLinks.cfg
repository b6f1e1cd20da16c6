SPECIFICATION Spec
CONSTANTS
    u1 = u1  c1 = c1  c2 = c2  k1 = k1  k2 = k2
    d1 = d1  d2 = d2  d3 = d3  d4 = d4
    Users = {u1}
    Chats = {c1, c2}
    Codes = {k1, k2}
    Owner <- OneAccount
    Deliveries = {d1, d2, d3, d4}
    Number <- SecondTwice
    None = None
SYMMETRY Alike
INVARIANTS TypeOK SavedOnce LostOnlyOnTheWay CodeEndsWithItsUse
CHECK_DEADLOCK FALSE
