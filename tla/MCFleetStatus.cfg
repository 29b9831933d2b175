SPECIFICATION FleetSpec
CONSTANTS
    Gateways = {g1, g2}
    Seeds = {g1}
    Agents = {a1}
    MaxAttempts = 2
    MaxReports = 2
    MaxCopies = 2
CHECK_DEADLOCK FALSE
INVARIANTS
    ViewsAgree
    OlderOnlyIfOvertaken
    AgentListedOnce
    HistoryAgrees
