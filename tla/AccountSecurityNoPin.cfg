\* Two handlers clear the PIN and turn two-factor confirmation on.
SPECIFICATION Spec
CONSTANTS
    Purpose = {"TRADE", "DISABLE_2FA", "CHANGE_PASSWORD"}
    StepUp = {"CHANGE_PASSWORD"}
    MaxCode = 1
    MaxLink = 1
    MaxAttempts = 2
    Call = {c1, c2}
CHECK_DEADLOCK FALSE
INVARIANTS
    TwoFactorHasPin
