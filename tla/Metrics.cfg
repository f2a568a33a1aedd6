\* Two callers, three attempts and two scrapes.
SPECIFICATION Spec
CONSTANTS
    a = a
    b = b
    Callers = {a, b}
    s = s
    Scrapers = {s}
    Strategies <- MCStrategies
    None = None
    MaxInt = 7
    NaN = 99
    Collectors = {"retry", "adaptive"}
    MaxCalls = 3
    MaxTrips = 1
    MaxScrapes = 2
SYMMETRY Interchangeable
 
PROPERTY OnlyResetTakesBack
CHECK_DEADLOCK FALSE
