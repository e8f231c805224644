\* Two emitting coroutines, two steering messages, and a task page that
\* connects twice, over a trace longer than a replay, with rollbacks of
\* the shared connection.
SPECIFICATION FairSpec
CONSTANTS
    e1 = e1
    e2 = e2
    m1 = m1
    m2 = m2
    page = page
    Emitters <- MCEmitters
    Steers <- MCSteers
    Pages <- MCPages
    ReplayLimit = 2
    MaxEvents = 3
    MaxConnects = 2
    MaxRuns = 2
    Bounds <- MCBounds
INVARIANTS
    TypeOK
    PublishedInOrder
    NothingSlips
    SteeringReachesItsRun
PROPERTIES
    ImplementsFeed
    PublishedIsShown
\* The trace, the connections and the runs are bounded.
CHECK_DEADLOCK FALSE
