SPECIFICATION FairSpec
CONSTANTS
    Requests = {r1, r2}
    Pings = {p1}
    Pushes = {s1}
    Closes = {c1}
    None = None
    MaxSequence = 5
    Scenarios <- GoesAway
CHECK_DEADLOCK FALSE
PROPERTIES WaitersAreTold
