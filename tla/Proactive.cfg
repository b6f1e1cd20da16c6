SPECIFICATION Spec
CONSTANTS
    web = web  app = app  r1 = r1  r2 = r2  p1 = p1  e1 = e1  t1 = t1
    Chats = {web, app}
    Channels = {app}
    Runs = {r1, r2}
    Promises = {p1}
    Events = {e1}
    Topics = {t1}
    Due <- DueTimes
    MinSilence = 1
    SessionGap = 2
    Window = 3
    MaxPerWindow = 2
    EventGap = 2
    Late = 2
    MaxTime = 2
    MaxWrites = 1
    MaxMishaps = 1
    Nothing = Nothing
INVARIANTS TypeOK RaisedOnce
PROPERTIES NudgeIsWelcome
SYMMETRY Alike
CHECK_DEADLOCK FALSE
