SPECIFICATION MCSpec
CONSTANTS
    u1 = u1
    u2 = u2
    u3 = u3
    r1 = r1
    r2 = r2
    talk = talk
    NoConversation = NoConversation
    NoPin = NoPin
    Upstream = {u1, u2, u3}
    Group <- MCGroup
    Position <- MCPosition
    Request = {r1, r2}
    Conversation = {talk}
    ConversationOf <- Talking
    Routes <- RouteSettings
    Readings <- MCReadings
    Tolerance = 20
    Jitter = 15
    RedisFails = TRUE
    InitialRows <- MCRows
    Base = 1
    Cap = 1
    RetryAfter = {3}
    Maximum = 2
    Retention = 1
    MaxTime = 4
    MaxTrips = 2
INVARIANTS RankingSound CooldownIsLatestReport
PROPERTIES ConversationSticks
