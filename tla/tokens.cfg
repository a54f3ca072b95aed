SPECIFICATION FairSpec
CONSTANTS
    Threads = {t1, t2}
    Users = {"u", "p"}
    Sponsor <- MCSponsor
    First <- MCFirst
    None = "none"
    COOLDOWN = 1
    EMERGENCY_COOLDOWN = 2
    HTTP_RETRIES = 1
    MaxLogins = 6
    MaxReplies = 2
INVARIANT Spaced
PROPERTIES AllEnd
