SPECIFICATION FairTuiSpec
CONSTANTS
    RecentBuffer = 2
    Contents <- Three
    MaxRestarts = 1
    MaxPending = 3
    MaxAhead = 2
    MaxCharacters = 2
INVARIANTS TuiTypeOK UnfocusedFollowsTail ScrollOnContent HighlightFindsTokens
PROPERTIES EnterOpensWhatWasSeen FocusPausesScroll QuitIsObeyed
CHECK_DEADLOCK FALSE
