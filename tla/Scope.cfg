SPECIFICATION FairSpec
CONSTANTS
    Owner = o
    Children = {c1, c2, c3}
CHECK_DEADLOCK FALSE
INVARIANTS ChildrenDone
PROPERTIES UsesWaitGroup ScopeEnds
