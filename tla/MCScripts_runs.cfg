CONSTANTS
    check = check
    job = job
    Actions = {check, job}
    Background = {job}
    Quiet = {check}
    Runs = {r1, r2}
    NoRun = NoRun
SPECIFICATION FairSpec
INVARIANTS OneRunPerObject ToldInOrder
PROPERTY RunsEnd
