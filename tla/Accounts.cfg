SPECIFICATION FairSpec
CONSTANTS
    None = None
    Emails = {e1, e2}
    Requests = {r1, r2, r3}
    VerificationTTL = 0
    MaxUsers = 4
    MaxCrashes = 2
    MaxTime = 1
INVARIANTS
    TypeOK
    OneAccountPerAddress
    MailsNameAccounts
    VerifiedByOwnToken
PROPERTIES
    RegistrationSucceeds
    RequestsFinish
