SPECIFICATION HttpSpec
CONSTANTS
    Threads = {s1, s2, c1, c2}
    Sessions = {s1, s2}
    s1 = s1
    s2 = s2
    c1 = c1
    c2 = c2
    GROUPID_BOUBDARY = 4
    Strangers = {9}
    Users <- MCUsers
    Friends <- MCFriends
    Names <- MCNames
    Values = {"v"}
    Teams = {"My Friends", "work"}
    MaxCalls = 2
    MaxFaults = 1
    MaxCrashes = 1
    MinLength = 1
    MAX_URL_LENGTH = 3
SYMMETRY Perms
INVARIANTS
    IdsBelowBase
    IdsAgree
    
    Registered
CHECK_DEADLOCK FALSE
