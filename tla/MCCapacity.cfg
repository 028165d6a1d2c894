\* Two databases, two overlapping collections and three days in three months;
\* the calendar runs through a leap year; results of two instances;
\* the statistics of three rules and two owners.
CONSTANTS
    Databases = {x, y}
    Sizes = {1, 2}
    Syncs = {batch, manual}
    ManualSyncs = {manual}
    LastDay = 2
    PeriodLength = 2
    MonthLength = 1
    None = None
    BaseYear = 2022
    BaseWeekday = 5
    FirstDate = 690
    LastDate = 822
    Retentions = {1, 2, 12}
    Ahead = 1
    LastInstance = 2
    TrendPeriods = 2
    StatRules = {1, 2, 3}
    StatOwners = {1, 2}
    Classes = {"a", "b"}
    ClassOf <- MCClassOf
    ActiveClass <- MCActiveClass
    ActiveOn <- MCActiveOn
    Matched <- MCMatched
    CollectedOn <- MCCollected
    AggregatedOn <- MCAggregated
SPECIFICATION MCSpec
CHECK_DEADLOCK FALSE
SYMMETRY Symmetry
INVARIANTS
    CapacityRowsHold
    CalendarTells
    TrendsHold
    AggregationTells
