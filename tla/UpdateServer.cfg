\* An album of two parts and an update of another userbot, a cache of one
\* Bot, two permits, one fault, one replaced token.
SPECIFICATION LiveSpec
CONSTANTS
    Part = {"p1", "p2"}
    Other = {"u"}
    Bot = {"b1", "b2"}
    BotOf <- MCBotOf
    CacheSize = 1
    Permits = 2
    MaxFaults = 1
    MaxToken = 1
CONSTRAINT Bound
INVARIANTS
    PartsAreHandled
    PartsAreHandledOnce
    OnlyOvertakenUpdatesSwitchOff
PROPERTIES
    AcceptedEnds
CHECK_DEADLOCK FALSE
