SPECIFICATION FairSpec
PROPERTY ProbeTerminates
CHECK_DEADLOCK FALSE
