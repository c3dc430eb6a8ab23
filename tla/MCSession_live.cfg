\* Without crashes every turn, every end and every stop comes to a conclusion.
SPECIFICATION FairSpec
CONSTANTS
    u1 = u1
    Users = {u1}
    MaxRequests = 2
    MaxBoxes = 4
    MaxCrashes = 0
    MaxReaps = 2
    Mishaps = {"die", "stop", "launch"}
PROPERTIES
    SessionSettles
CHECK_DEADLOCK FALSE
