\* Timeouts only: the expired timer handler of a search that has already
\* completed runs on the freed search.
CONSTANTS
    s1 = s1
    s2 = s2
    a = a
    b = b
    Searches <- MCSearches
    Servers <- MCServers
    Timeouts = TRUE
    ConnFaults = FALSE
    LateCompletions = FALSE
SPECIFICATION Spec
INVARIANT NoUseAfterFree
