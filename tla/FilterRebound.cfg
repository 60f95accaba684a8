\* A wait with a filter, whose handler may bind the filter's name again.
CONSTANTS
    Names = {x, y}
    MaxNodes = 2
    MaxArgs = 1
    MaxArms = 1
    MaxHandlers = 1
SPECIFICATION BlockSpec
INVARIANT FiltersIntact
CHECK_DEADLOCK FALSE
