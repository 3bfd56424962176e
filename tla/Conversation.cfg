SPECIFICATION ConversationSpec
CONSTANTS
    MaxTurns = 2
    Sessions = {s1, s2}
    MaxIncidents = 2
    None = None
    SavedTurns = {t1, t2}
    MaxMessages = 3
    MaxClears = 1
    MaxRestarts = 1
INVARIANTS
    SessionIsShown
    FollowUpSees
    TurnsAreWhole
    HistoryIsAcked
    FeedbackFindsItsAnswer
PROPERTY TabIsFreed
CHECK_DEADLOCK FALSE
