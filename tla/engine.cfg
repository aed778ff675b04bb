SPECIFICATION EngineSpec
CONSTANTS
    None = None
    DayLength = 4
    MonthLength = 2
    Workdays = {1}
    MicrodollarsPerCent = 4
    WhPerKWh = 2
    ReviewTolerance = 2
    Hour = 4
    MaxInt = 400
    Forms <- MCForms
    Scenarios <- MCScenarios
INVARIANTS PlansAreExact PublishedIsSound  ComparisonIsSound
CHECK_DEADLOCK FALSE
