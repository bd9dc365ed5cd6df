CONSTANTS
    hub = hub  d1 = d1  e1 = e1  e2 = e2  p = p  q = q
    Url = {"u"}  Root = {"r", "s"}  Filter = {"f", "g"}  Request <- Requests
    MaxFails = 1  Depth = 1  MaxCalls = 3  MaxBreaks = 2
SPECIFICATION MCSpec
CHECK_DEADLOCK FALSE
INVARIANTS SettingsFollowed ShownAndGone ArrivesAsSent RowsFound PostsAreAsked CountsAddUp TextsMeanWhatTheySay
