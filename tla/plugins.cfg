\* Two events, two streams, a channel that one event fills.
CONSTANTS
    Events <- MCEvents
    Streams <- MCStreams
    Capacity = 1
    e1 = e1
    e2 = e2
    s1 = s1
    s2 = s2
SPECIFICATION FairSpec
CHECK_DEADLOCK FALSE
INVARIANT EventTypeOK
INVARIANT NothingMissed
PROPERTY EventsHandled
PROPERTY DepartedForgotten
PROPERTY ShutdownEnds
