CONSTANTS
    Half = 12
    Skies <- AllSkies
SPECIFICATION Spec
INVARIANTS EveningStaysReached MorningStaysAhead WindowsAreExact NeverOpenByDay
PROPERTY EdgesAreEvents
