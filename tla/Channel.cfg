SPECIFICATION FairSpec
CONSTANTS
    p1 = p1  p2 = p2  c1 = c1  q1 = q1
    Policies = {"fixed", "dropping", "sliding"}
    Caps = {0, 2}
    Producers = {p1, p2}
    Consumers = {c1}
    Closers = {q1}
    PutOps <- MCPutOps
    Cancellable = {p1, c1}
    MaxOps = 2
    Nil = Nil
INVARIANTS  PutTellsTheTruth NewestSurvives EndOfStream
 
CHECK_DEADLOCK FALSE
