\* Three issues, two lists of resolvers, five calls.
SPECIFICATION FairSpec
CONSTANTS
    Issues = {i1, i2, i3}
    Configs = {old, new}
    NoConfig = none
    Channels = {c1, c2, c3, c4}
    NoChannel = nil
    MaxStarts = 5
INVARIANTS ClientIsMine NoDoubleClose NoLostWakeup
PROPERTIES EveryoneIsServed ImplementsLease
CHECK_DEADLOCK FALSE
