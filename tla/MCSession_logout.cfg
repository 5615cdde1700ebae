SPECIFICATION Spec
CONSTANTS
    Tabs = {b1}
    Calls = {c1, c2, c3}
    NoTab = none
    MaxFaults = 0
INVARIANT LogoutEndsSession
CHECK_DEADLOCK FALSE
