\* Two pushers, two poppers and a tryPopper at a queue of two places.
SPECIFICATION FairSpec
CONSTANTS
    Pushers = {p1, p2}
    Poppers = {c1, c2}
    TryPoppers = {t1}
    Values = {v}
    MaxSize = 2
CHECK_DEADLOCK FALSE
INVARIANT TypeOK
INVARIANT TakersSuffice
INVARIANT PushersSuffice
INVARIANT NobodySleepsOn
PROPERTY DestroyEndsCalls
PROPERTY TryPopReturns
