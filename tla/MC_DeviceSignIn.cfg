SPECIFICATION SignInFairSpec
CONSTANTS
    c1 = c1  c2 = c2  c3 = c3
    Calls <- ThreeCalls
INVARIANTS
    AccountsHaveTokens
    OneSignInOneAccount
    KeepsTrying
PROPERTIES
    PollerEnds
CHECK_DEADLOCK FALSE
