\* A wait with two handlers.
CONSTANTS
    Names = {x, y}
    MaxNodes = 3
    MaxArgs = 1
    MaxArms = 1
    MaxHandlers = 2
SPECIFICATION BlockSpec
INVARIANT FollowsSource
CHECK_DEADLOCK FALSE
