SPECIFICATION FairSpec
CONSTANT Problems <- MCCallProblems
INVARIANT OnePlace
CHECK_DEADLOCK FALSE
