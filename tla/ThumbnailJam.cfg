\* The instance of GenerationQueue.cfg.
SPECIFICATION Spec
CONSTANTS
    Videos = {v1, v2}
    Previewed = {v1}
    Tasks = {v1, other}
    Capacity = 1
    MaxLimit = 1
PROPERTY FollowUpReturns
