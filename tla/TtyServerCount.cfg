SPECIFICATION Spec
CONSTANTS
    Clients = {c1, c2}
    Servers = {s1}
    Addresses = {a1, a2}
    NULL = NULL
    Loops = 1
    MaxLines = 1
INVARIANT ClientsCounted
CHECK_DEADLOCK FALSE
