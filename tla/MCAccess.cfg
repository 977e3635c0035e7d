\* A crash, a refused link and a failed cycle are ends of the run.
SPECIFICATION Spec
CONSTANTS
    Depth = 4
    Projects <- MCProjects
    QueryLists <- MCQueryLists
    BufferSizes = {2, 12}
    Garbage = {0, 2}
PROPERTIES AssignsWhatItNames OnlyBadStatementsFail InitialisedAsDeclared QueriesAreOrderly
CHECK_DEADLOCK FALSE
