\* Two of the sources of messages at a time, or the reviews of a pull request, or
\* a chat session, with a bounded number of faults.
SPECIFICATION Spec
CONSTANTS
    s1 = s1
    s2 = s2
    m1 = m1
    i1 = i1
    i2 = i2
    i3 = i3
    a1 = a1
    h1 = h1
    h2 = h2
    w1 = w1
    t1 = t1
    t2 = t2
    t3 = t3
    Poller = Poller
    LinearPoll = LinearPoll
    IssueHooks <- MCIssueHooks
    SessionHooks <- MCSessionHooks
    Sessions <- MCSessions
    SlackMsgs <- MCSlackMsgs
    SlackHandlers <- MCSlackHandlers
    Issues <- MCIssues
    Writers <- MCWriters
    Deployments <- MCDeployments
    PollLimit = 2
    MaxUpdates = 2
    MaxIntakeFaults = 1
    MaxComments = 2
    MaxSecond = 3
    MaxIncidents = 1
    PageSize = 1
    MaxHidden = 2
    Turns <- MCTurns
    HistoryLimit = 5
    MaxAdded = 3
    MaxResets = 1
INVARIANTS
    TypeOK
    OneTaskPerKey
    NothingForgotten
    FeedbackIsKept
    ConsumedOnce
    HistoryIsTheConversation
PROPERTIES
    EverySourceIsServed
    FeedbackIsAnswered
\* Messages, comments and turns are bounded.
CHECK_DEADLOCK FALSE
