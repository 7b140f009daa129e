SPECIFICATION FairSpec
CONSTANTS
    Admins = {"ann", "bob"}
    Browsers = {"b1", "b2"}
    Alerts = {"a1"}
    Statuses = {"new", "resolved"}
    Passwords = {"p1", "p2"}
    FirstPassword = "p1"
    Tokens = {"t1", "t2"}
    Chats = {"c1", "c2"}
    EnvPair <- MCEnvPair
    FirstCookies <- MCFirstCookies
    MaxRequests = 4
    MaxResets = 1
    MaxCrashes = 1
INVARIANTS HistoryChains FormsNameTheirAuthor PasswordsStick PairsAreSaved
PROPERTIES SettingsTakeEffect
