\* Two updates of a user at a time, three in all, two names, two languages,
\* a block and a change of role: late fills, double taps, repeated saves.
SPECIFICATION Spec
CONSTANTS
    r1 = r1
    r2 = r2
    Request = {r1, r2}
    Name = {"n1", "n2"}
    Language = {"en", "ru"}
    DefaultLanguage = "en"
    MaxUpdates = 3
    MaxEvents = 1
    NoRow = NoRow
    NoEntry = NoEntry
SYMMETRY RequestSymmetry
INVARIANTS
    TypeOK
    NothingClobbered
    RowFollows
    BannedIsStopped
PROPERTIES
    TapsApply
CHECK_DEADLOCK FALSE
