\* Token-set mode and session mode, one write: a delete that took effect is
\* rejected by the token-set SDK, which then invalidates nothing.
SPECIFICATION DashboardSpec
CONSTANTS
    Names = {"entries", "group"}
    DashboardModes = {"session", "token-set"}
    Writes = {"w1"}
    MaxVersion = 2
    InOrder = TRUE
INVARIANT AnsweredWritesAreShown
CHECK_DEADLOCK FALSE
