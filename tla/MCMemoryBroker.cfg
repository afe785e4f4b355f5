SPECIFICATION FairSpec
CONSTANTS
    Threads = {p1}
    Tasks = {a1}
    Subs <- FourSubs
    SubTopic <- FourTopics
    Topics <- PublishedTopics
INVARIANTS
    TypeOK
    IndexExact
    NoCallAfterUnsubscribe
    DrainedWhenShut
PROPERTIES
    CommitIsFinal
    CallsReturn
    Implements
CHECK_DEADLOCK FALSE
