CONSTANTS
    Runner = runner
    Operators = {operator}
    Handlers = {handler}
    Instruments = {"dome", "site", "telescope", "robobs", "scheduler"}
    Keys = {k1}
    Plans <- AllPlans
    MaxFaults = 1
    Domes = 2
    Telescopes = 1
    Schedulers = 1
    Robots = 2
SPECIFICATION Spec
INVARIANTS TypeOK ReadyRobobsStopped
PROPERTIES BarredStaysShut ClosingIsTried LockedRobotStaysOff StopAllIsComplete
