SPECIFICATION MCSpec
CONSTANTS
    Tabs = {b1, b2}
    Calls = {c1, c2}
    NoTab = none
    MaxFaults = 1
    Servers = {p1}
    ConfigKeys = {k1, k2}
    Good = {v}
    Bad = bad
    Absent = absent
    MaxChanges = 2
    MaxLosses = 1
INVARIANTS TypeOK OneLiveRefresh RevokedStaysDead NoFalseLogout
PROPERTIES NoCallHangs ConfigNeverGoesBack ConfigArrives
CHECK_DEADLOCK FALSE
