SPECIFICATION FairSpec
CONSTANTS
    Clients = {c1, c2}
    Servers = {s1}
    Addresses = {a1, a2, a3}
    NULL = NULL
    Loops = 2
    MaxLines = 2
INVARIANTS NoUseAfterFree EchoBeforePrompt ReplyIsOwn
PROPERTY ReadReturns
CHECK_DEADLOCK FALSE
