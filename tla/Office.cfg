SPECIFICATION OfficeSpec
CONSTANTS
    Sales = {1, 2, 3}
    Draft <- MCDraft
    Amounts = {4}
    Openings = {3}
    Costs = {1, 2}
    DollarRates = {3, 5}
    Tolerance = 1
    LastDay = 1
    MaxEvents = 4
    Workers = {w1, w2}
    Addresses = {"office", "home"}
    Accounts = {"owner"}
    Limit = 1
    FailureLimit = 1
    MaxPosts = 3
    MaxOutages = 1
    PerDay = 2
    PerWeek = 2
    KeepAll = 2
    KeepDaily = 4
    KeepWeekly = 8
    Horizon = 13
    MaxKilled = 1
    MaxMisses = 1
    TapWorkers = {w1, w2}
    Stock = 3
    Quantities = {2}
    MaxBegun = 4
    MaxNights = 1
    Tills = {w1, w2}
    Forms <- MCForms
    Prices = {5}
    RowRates = {5}
    PaidWithin = 1
    Step = 2
    Large = 5
    LargeChange = 3
    MaxSent = 2
    MaxEdits = 1
    JobList <- MCJobList
    DayTicks = 3
    Retain = 3
    AlertAbove = 0
    LastTick = 5
    MaxLong = 2
    MaxHappened = 1
    MaxStops = 1
    MaxErrors = 1
INVARIANTS
    OfficeStatements
    OfficeReports
    OfficeSignIn
    OfficeBackups
    OfficeCarts
    OfficeTill
    OfficeNights
PROPERTIES
    HistoryStands
CHECK_DEADLOCK FALSE
