SPECIFICATION FairSpec
CHECK_DEADLOCK FALSE
INVARIANTS BoundedWait
PROPERTIES StopsAtTheEnd
