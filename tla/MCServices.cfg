SPECIFICATION AllSpec
CONSTANTS
    None = None
    Screen = Screen
    Emails = {e1}
    Passwords = {p1, p2}
    Requests = {r1, r2, r3}
    Chats = {c1, c2}
    Paths = {p1}
    Files = {f1}
    Pages = {v1}
    Calls = {q1, q2}
    Streams = {s1}
    People = {ann, bob}
    Tight = TRUE
    MaxTokens = 3
    Resend = 1
    Expiry = 2
    MaxMails = 2
    MaxClock = 3
    MaxEvents = 2
    MaxFlips = 1
    LinkLife = 2
    ScreenLife = 1
    MaxLinks = 2
    Names <- FourNames
    ToolNames <- TwoTools
    MaxServers = 2
SYMMETRY Symmetry
INVARIANTS
    AllTypeOK
    AccountsKept
    UnreadIsOwed
    PublicAccessLapses
    ToolsReached
    TokensAreShared
CHECK_DEADLOCK FALSE
