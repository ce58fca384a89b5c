CONSTANTS
    Conns = {c1, c2}
    Fds = {f1, f2}
    Capacity = 2
    MaxOpens = 2
    Codes = {audio, info}
    States = {1}
    FirstState = 1
    MaxCommands = 2
    MaxWrites = 1
    HalfSent = FALSE
SPECIFICATION PlaneSpec
INVARIANTS
    CloseIsClean
    ReplyAnswersItsCommand
CHECK_DEADLOCK FALSE
