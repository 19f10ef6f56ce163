\* One search, with reads and writes that completed before close() still
\* running their handlers: the search still answers once and eventually.
CONSTANTS
    s1 = s1
    s2 = s2
    a = a
    b = b
    Searches <- MCOneSearch
    Servers <- MCServers
    Timeouts = TRUE
    ConnFaults = TRUE
    LateCompletions = TRUE
SPECIFICATION Spec
PROPERTY SearchAnswered
