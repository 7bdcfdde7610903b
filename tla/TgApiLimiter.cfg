\* Two coroutines, one chat, messages and albums of two, one retry.
SPECIFICATION Spec
CONSTANTS
    Call = {c1, c2}
    Chat = {chat}
    Bot = Bot
    NoChat = NoChat
    BotPeriod = 2
    BotBurst = 2
    ChatPeriod = 3
    ChatBurst = 1
    MaxCost = 2
    MaxRetries = 1
    RetryAfter = {0}
    MinRetryDelay = 1
    Milli = 1
    Second = 1
    MaxTime = 10
SYMMETRY CallSymmetry
INVARIANTS
    SlotsAreSpread
    SendsAreWithinBudget
CHECK_DEADLOCK FALSE
