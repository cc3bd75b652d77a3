CONSTANTS
    station1 = station1
    station2 = station2
    Stations <- TwoStations
    Humidities <- HumidThenDry
    NaN = NaN
    None = None
    MaxAge = 2
    Above = 85
    Below = 80
    Span = 2
    MaxHands = 1
    MaxFaults = 1
SPECIFICATION FairSpec
PROPERTIES KeyHoldsDome ReleaseAfterSpell ClosesForGood DryReopens
