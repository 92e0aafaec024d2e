\* Two types of futures of one size: a finished task's memory is used for the other type.
CONSTANTS
    small = small
    other = other
    large = large
    Kinds = {small, other, large}
    Size <- MCSize
    MaxTasks = 3
SPECIFICATION Spec
INVARIANT TaskIsTheGivenFuture
CHECK_DEADLOCK FALSE
