SPECIFICATION FairSpec
CONSTANT Problems <- MCSlackProblems
PROPERTY AlwaysReturns
CHECK_DEADLOCK FALSE
