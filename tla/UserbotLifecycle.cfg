\* Two chats with the registrar, a limit of one and two userbots, one of them only to be registered,
\* an update at a time, and one new token or one fault (Bound): the switch and a new token, in two
\* chats at a time, against demotions, and registrations again and again.
SPECIFICATION Spec
CONSTANTS
    b1 = b1
    b2 = b2
    d1 = d1
    d2 = d2
    u1 = u1
    c1 = c1
    Userbot = {b1, b2}
    Spare = {b2}
    Channel = {c1}
    Chat = {d1, d2}
    Update = {u1}
    MaxUserbots = 1
    MaxToken = 1
    MaxFaults = 1
    NoBot = NoBot
    NoChannel = NoChannel
SYMMETRY ChatAndUpdateSymmetry
CONSTRAINT Bound
INVARIANTS
    ActiveHasWebhook
    WithinLimit
    LossExplained
    OwnerIsAdmin
CHECK_DEADLOCK FALSE
