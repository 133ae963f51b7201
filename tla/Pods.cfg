SPECIFICATION FairSpec
CONSTANTS
    s1 = s1  a1 = a1
    SyncCalls = {s1}
    AsyncCalls = {a1}
    ChanCap <- MCChanCap
    ReplyKinds <- MCReplyKinds
    ValCap = 1
    PipeCap = 1
INVARIANTS RouterNeverPanics  MapsTidy
 
CHECK_DEADLOCK FALSE
