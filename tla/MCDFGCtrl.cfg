SPECIFICATION FairSpec
CONSTANT Loops <- MCDiamond
INVARIANT ControlEdgesAreAnti
CHECK_DEADLOCK FALSE
