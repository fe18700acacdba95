SPECIFICATION TunnelSpec
CONSTANTS
    up1 = up1
    up2 = up2
    down = down
    c1 = c1
    c2 = c2
    c3 = c3
    c4 = c4
    c5 = c5
    NoClient = NoClient
    NoOne = NoOne
    Dialers = {up1, up2, down}
    Down = {down}
    Clients = {c1, c2, c3, c4, c5}
    MaxRetries = 2
    Faults <- MCFaults
INVARIANTS
    NoClientLeaks
    FailsOnlyIfDisturbed
PROPERTY
    DialsReturn
