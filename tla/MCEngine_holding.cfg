CONSTANTS
    close = close
    reopen = reopen
    humidity = humidity
    gate = gate
    NotTiming = NotTiming
    Items = {close, reopen}
    Quantities = {humidity}
    Configs <- GatedConfigs
    MaxConds = 2
    MaxSpan = 1
    MaxFaults = 1
SPECIFICATION FairSpec
PROPERTY HoldingFires
