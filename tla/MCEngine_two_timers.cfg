CONSTANTS
    close = close
    reopen = reopen
    humidity = humidity
    gate = gate
    NotTiming = NotTiming
    Items = {reopen}
    Quantities = {humidity, gate}
    Configs <- TwoTimersConfigs
    MaxConds = 2
    MaxSpan = 2
    MaxFaults = 0
SPECIFICATION FairSpec
PROPERTY EveryHoldingItemFires
