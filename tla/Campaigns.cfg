SPECIFICATION OutgoingSpec
CONSTANTS
    Campaigns = {c1, c2}
    Telegram = {c1}
    Clients = {1}
    Runners = {p1, p2}
    MaxPerWeek = 1
    Week = 2
    MaxRetries = 2
    Overlapping = FALSE
    MaxClock = 4
    MaxLapses = 1
    Waiters = {c1, c2}
    Askers = {p1, p2}
    Notifiers = {n1, n2}
    MaxAlerts = 2
    MaxStock = 1
    MaxKills = 1
INVARIANTS
    CampaignsSent
    CampaignsCapped
    AlertsSent
PROPERTIES
    RunsEnd
    WaitersHear
