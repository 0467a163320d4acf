SPECIFICATION FairSpec
CONSTANTS
    n1 = n1
    n2 = n2
    n3 = n3
    c1 = c1
    c2 = c2
    foo = foo
    bar = bar
    Servers = {n1, n2, n3}
    Clients = {c1, c2}
    Keys = {foo, bar}
    Times = {1, 2}
    Foo = foo
    Filtering = {n1, n2}
    PeerConfigs <- MCPeerConfigs
    Inputs <- MCInputs
    MaxFaults = 1
    None = None
CHECK_DEADLOCK FALSE
INVARIANTS AckedWritesStay ReadsAreFresh OrderDoesNotMatter
PROPERTY PromptReturns
