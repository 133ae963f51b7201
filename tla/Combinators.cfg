SPECIFICATION FairCombSpec
CONSTANTS
    Ops = {"pipe", "onto", "merge", "reduce", "split", "map", "take", "mult", "pub"}
    Caps = {0, 1}
    MaxVals = 3
    Bound <- MCBound
    Limit = 2
    Truthy <- MCTruthy
    Fails <- MCFails
    Topic <- MCTopic
INVARIANTS  FlowsInOrder EndMeansComplete 
PROPERTIES StagesEnd
CHECK_DEADLOCK FALSE
