CONSTANTS
    c1 = c1
    c2 = c2
    park = park
    Worker = Worker
    Nobody = Nobody
    Broken = Broken
    Items = {park}
    Hooks = {park}
    Callers = {c1, c2}
    Checklists <- OneItem
SPECIFICATION CallsSpec
INVARIANTS OneDriver AtMostOneLateCycle
PROPERTIES OneChecklistPerRun NoLostTrigger ShutdownEndsWorker CallsReturn
