SPECIFICATION FairSpec
PROPERTY StopsWhenOffline
CHECK_DEADLOCK FALSE
