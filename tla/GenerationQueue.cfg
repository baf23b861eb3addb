\* Two videos and a channel of one: the channel can be full while the worker has
\* a video in hand.  One preview slot, shared with one other drive.
SPECIFICATION Spec
CONSTANTS
    Videos = {v1, v2}
    Previewed = {v1}
    Tasks = {v1, other}
    Capacity = 1
    MaxLimit = 1
INVARIANTS
    TypeOK
    ReservedOnce
    FollowUpInHand
PROPERTIES
    FollowUpHonoured
    PreviewSlotsTurnOver
