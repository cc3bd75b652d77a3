CONSTANTS
    close = close
    reopen = reopen
    humidity = humidity
    gate = gate
    NotTiming = NotTiming
    Items = {close, reopen}
    Quantities = {humidity, gate}
    Configs <- WeatherConfigs
    MaxConds = 2
    MaxSpan = 2
    MaxFaults = 1
SPECIFICATION Spec
INVARIANTS RecordedMeansFired FiresOncePerEdge TimersNeverOvercount
