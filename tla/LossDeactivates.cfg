\* One chat, rights that change at any time, no faults: what README.md:10 promises.
SPECIFICATION Spec
CONSTANTS
    b1 = b1
    c1 = c1
    d1 = d1
    u1 = u1
    Userbot = {b1}
    Spare = {}
    Channel = {c1}
    Chat = {d1}
    Update = {u1}
    MaxUserbots = 1
    MaxToken = 1
    MaxFaults = 0
    NoBot = NoBot
    NoChannel = NoChannel
INVARIANTS
    LossDeactivates
CHECK_DEADLOCK FALSE
