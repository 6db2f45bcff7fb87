SPECIFICATION FairSpec
CONSTANTS
    Request = {"r1", "r2"}
    NoRequest = "none"
    Conversation = {"c"}
    ConversationOf <- OneConversation
    Tokens <- Usages
    Scenarios <- Pairs
    Chunks = 2
    MaxTries = 1
    ResponseTimeout = 1
    SavesMax = 2
    RequestRetention = 1
    Midnight = 1
    MaxTime = 2
    Ahead = 1
INVARIANTS ResponsesSound DeliveredInOrder AccountedOnce
PROPERTIES EveryResponseEnds
CHECK_DEADLOCK FALSE
