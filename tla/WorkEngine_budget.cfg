CONSTANTS
    sweep = sweep
    probe = probe
    audit = audit
    NoWork = NoWork
    Work = {sweep, probe, audit}
    Always = {sweep}
    Axes <- MCAxes
    Limits <- MCLimits
    Priority <- MCPriority
    Cost <- MCCost
    MaxTasks = 2
    MaxDeaths = 2
SPECIFICATION FairSpec
INVARIANTS BudgetPerLife NothingAffordableSkipped
PROPERTY SignalStops
