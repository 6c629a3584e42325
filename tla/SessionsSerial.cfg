SPECIFICATION BrowserSpec
CONSTANTS
    None = None
    Users = {u1}
    ActiveUsers = {u1}
    Passwords = {p1}
    Requests = {r1}
    RefreshTTL = 0
    ResetTTL = 0
    MaxTokens = 3
    MaxResets = 1
    MaxTime = 1
    Browsers = {b1}
    CookieDomains = {"localhost", "whatsodo.ai"}
INVARIANTS
    DetectedReuseEndsFamily
    AlarmHasCause
    LogoutEndsSession
PROPERTIES
    ImplementsSessionFamilies
    ResetRevokesOutstandingTokens
