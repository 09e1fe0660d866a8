CONSTANTS
    Chain = {c1, c2}
    Root = {r1, r2}
    Scope = {}
    Kind <- RpcAndTimer
    MaxGeneration = 1
    NoRoot = NoRoot
    Request = {q1}
SPECIFICATION FairSpec
PROPERTIES AbandonedReopens NobodyParkedForever
CHECK_DEADLOCK FALSE
