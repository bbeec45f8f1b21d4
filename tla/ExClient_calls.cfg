SPECIFICATION FairSpec
CONSTANTS
    Requests = {r1, r2}
    Pings = {p1}
    Pushes = {s1}
    Closes = {c1}
    None = None
    MaxSequence = 5
    Scenarios <- Everyday
CHECK_DEADLOCK FALSE
INVARIANTS AnswerIsOwn BooksInv NeverCrashes AnsweredOnce
PROPERTIES QuietWaitersAreTold SilenceIsNoticed ServerEnds
