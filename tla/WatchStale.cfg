SPECIFICATION FairSpec
CONSTANTS
    Cfg <- MCCfg
    Rtts = {1, 2}
    Causes = {down, refused}
    Filter = {down}
    TopSize = 1
    MaxChanges = 3
CHECK_DEADLOCK FALSE
PROPERTY ConsumerCatchesUp
