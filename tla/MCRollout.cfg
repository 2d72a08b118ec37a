\* Three pods at most overlap in the worker tier: two that terminate or run and
\* the surge pod. One container dies.
CONSTANTS
    WorkerPods = {w1, w2, w3}
    WebPods = {v1, v2}
    LastRelease = 3
    BadRegistries = {1}
    BadSettings = {3}
    NewModels = {2}
    MaxCrashes = 1
SPECIFICATION FairSpec
INVARIANTS QueueAttended OneUpdateConsumer NoPodLeftBehind
PROPERTY RolloutEnds
CHECK_DEADLOCK FALSE
