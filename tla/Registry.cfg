SPECIFICATION Spec
CONSTANTS
    addr1 = addr1
    addr2 = addr2
    addr3 = addr3
    alias = alias
    bad = bad
    Creator = c0
    Extenders = {e1, e2}
    Options <- MCOptions
    Addrs = {addr1, addr2, addr3, alias, bad}
    Norm <- MCNorm
    Invalid = Invalid
    LocalID = 1
CHECK_DEADLOCK FALSE
INVARIANTS DuplicatesOnlyFromRaces ConfigIsComplete ConfigurationsAreSets FailedNewConfigClosesAll
