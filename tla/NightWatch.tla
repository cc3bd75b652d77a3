----------------------------- MODULE NightWatch -----------------------------
(***************************************************************************)
(* The engine, the conditions, the responses, the flag board and the dome  *)
(* together, on the part of the example checklist (docs/examples/t80s)     *)
(* that opens the dome for the night, closes and locks it on humidity, and *)
(* releases the lock after a dry spell.  One step is one condition, one    *)
(* read or write of an item's status, or one response; an open, which      *)
(* looks at the board before it moves the slit, is three.  Between any two *)
(* of them the weather stations report and operators lock and unlock.      *)
(* Calls of the board are atomic, as in FlagBoard, unless they raise half- *)
(* way; what overlapping statements add is the subject of StateStore and   *)
(* Responses, as are the events of the instruments, what the engine does   *)
(* under aborts, crashes and reloads that of Engine.                       *)
(***************************************************************************)
EXTENDS Flags, Naturals, Sequences

CONSTANTS
    Stations,       \* the weather stations, in the order of the configuration
    Humidities,     \* what each of them may report
    NaN,            \* not a number: the station does not measure humidity
    MaxAge,         \* max_weather_age, in ticks
    Above, Below,   \* the thresholds of close_on_humidity and unlock_humidity
    Span,           \* for: of unlock_humidity, in ticks
    None,
    MaxHands,       \* bound: locks, unlocks and manual runs by operators
    MaxFaults       \* bound: steps in which the store or a device raises

ASSUME WatchAssumption ==
    /\ \A n \in DOMAIN Stations : Humidities[Stations[n]] \subseteq Nat \cup {NaN}
    /\ NaN \notin Nat
    /\ None \notin Nat
    /\ {MaxAge, Span} \subseteq Nat \ {0}
    /\ {MaxHands, MaxFaults} \subseteq Nat
    /\ Below <= Above

VARIABLES
    report,         \* the last report of each station
    night,          \* the time condition of open_dome_at_sunset
    flag, keys,     \* of FlagBoard
    slit,           \* the slit is open
    status,         \* last_status of the automatic items
    timer,          \* of unlock_humidity: None, or the time since it started
    at,             \* the condition or response that is next
    hands, faults,  \* counters for the bounds
    raised,         \* history: the last command to close the slit raised
    byHand,         \* history: an operator put the humidity key in force
    unwatched,      \* history: the key was dropped under a close recorded True
    spell,          \* history: time since unlock_humidity read a high humidity
    missed,         \* history: that reading did not restart its timer
    torn,           \* history: keys whose lock() raised before it wrote LOCK
    overtook        \* history: keys put in force since the running open flagged the dome

sky == <<report, night>>
board == <<flag, keys>>
bounds == <<hands, faults>>
weather == <<spell, missed>>
overtaken == <<torn, overtook>>
history == <<raised, byHand, unwatched, weather, overtaken>>
vars == <<sky, board, slit, status, timer, at, bounds, history>>

Keys == {"humidity", "operator"}
Parts == {"dome", "site", "telescope", "scheduler"}
Board == INSTANCE FlagBoard WITH Instruments <- Parts, Settable <- Flag

StationSet == {Stations[n] : n \in DOMAIN Stations}

-----------------------------------------------------------------------------
(* The checklist                                                           *)

Humid      == [on |-> "humidity"]
Dry        == [on |-> "humidity_for"]
NightTime  == [on |-> "time"]
SlitClosed == [on |-> "slit"]
FlagIs(i, f, is) == [on |-> "flag", ins |-> i, flag |-> f, is |-> is]
KeyOnDome(k, is) == [on |-> "key", key |-> k, is |-> is]

SetFlag(i, f) == [do |-> "set_flag", ins |-> i, flag |-> f]
Lock(k)       == [do |-> "lock", key |-> k]
Unlock(k)     == [do |-> "unlock", key |-> k]
OpenSlit      == [do |-> "open_slit"]
CloseSlit     == [do |-> "close_slit"]
Unpark        == [do |-> "unpark"]

\* Left out: the responses behind open_slit, and those of items with on_error:
\* continue that touch neither the slit nor the flags read here.
Items ==
    [open_dome_at_sunset |->
        [conditions |-> <<NightTime, SlitClosed, FlagIs("site", "ready", TRUE),
                          FlagIs("dome", "lock", FALSE)>>,
         responses |-> <<SetFlag("site", "ready"), SetFlag("scheduler", "ready"), Unpark,
                         SetFlag("dome", "ready"), OpenSlit>>,
         always |-> TRUE, abort |-> TRUE],
     close_on_humidity |->
        [conditions |-> <<Humid, KeyOnDome("humidity", FALSE)>>,
         responses |-> <<CloseSlit, Lock("humidity")>>,
         always |-> FALSE, abort |-> FALSE],
     unlock_humidity |->
        [conditions |-> <<Dry, KeyOnDome("humidity", TRUE)>>,
         responses |-> <<Unlock("humidity")>>,
         always |-> FALSE, abort |-> FALSE],
     open_telescope |->
        [conditions |-> <<>>, responses |-> <<Unpark, OpenSlit>>,
         always |-> FALSE, abort |-> FALSE],
     operator_lock |->
        [conditions |-> <<>>, responses |-> <<CloseSlit, Lock("operator")>>,
         always |-> FALSE, abort |-> FALSE],
     operator_unlock |->
        [conditions |-> <<>>,
         responses |-> <<Unlock("operator"), SetFlag("dome", "ready")>>,
         always |-> FALSE, abort |-> FALSE]]

\* In the order of the files.
Cycle == <<"open_dome_at_sunset", "close_on_humidity", "unlock_humidity">>
Automatic == {Cycle[n] : n \in DOMAIN Cycle}
Manual == DOMAIN Items \ Automatic

-----------------------------------------------------------------------------
(* Conditions                                                              *)

Stale == [value |-> NaN, age |-> MaxAge]
Report == [value : UNION {Humidities[s] : s \in StationSet}, age : 0..MaxAge - 1]
          \cup {Stale}

\* A report that is too old is not read again: what it said is forgotten.
Aged(r) == IF r.age + 1 < MaxAge THEN [r EXCEPT !.age = @ + 1] ELSE Stale

\* _read_first_fresh: stale and unreadable stations, and those that do not
\* measure humidity, are skipped.
Measured ==
    LET usable == SelectSeq(Stations, LAMBDA s : report[s] # Stale /\
                                                 report[s].value # NaN) IN
    IF usable = <<>> THEN NaN ELSE report[Head(usable)].value

HasKey(i, k) == flag[i] = "lock" /\ k \in keys[i]

\* Mutant: without fresh data the sky counts as good.
IsHumidOnlyMeasured == Measured # NaN /\ Measured > Above

\* Without fresh data a bare threshold passes.
IsHumid == Measured = NaN \/ Measured > Above

\* Without fresh data a for: fails.
IsDry == Measured # NaN /\ Measured < Below

Passes(c) ==
    \/ c.on = "time" /\ night
    \/ c.on = "slit" /\ ~ slit
    \/ c.on = "flag" /\ (flag[c.ins] = c.flag) = c.is
    \/ c.on = "key"  /\ HasKey("dome", c.key) = c.is
    \/ c.on = "humidity" /\ IsHumid
    \/ c.on = "humidity_for" /\ IsDry /\ timer # None /\ timer >= Span

\* Mutant: only a pass restarts the timer.
TimerOfDryNoRestart ==
    IF Measured = NaN THEN timer ELSE IF timer = None \/ timer >= Span THEN 0 ELSE timer

\* The timer restarts when the comparison fails and when the span has passed;
\* without fresh data it goes on.
TimerOfDry ==
    IF Measured = NaN THEN timer
    ELSE IF ~ IsDry \/ timer = None \/ timer >= Span THEN 0
    ELSE timer

-----------------------------------------------------------------------------
(* The cycle                                                               *)

\* Between two cycles; "due" once time has passed since the last.
Rest == [item |-> None, part |-> "rest", n |-> 0]
Due == [Rest EXCEPT !.part = "due"]
Check(name, n) == [item |-> name, part |-> "check", n |-> n]
Act(name, n) == [item |-> name, part |-> "act", n |-> n]

Checking == at.part = "check"
Deciding == at.part = "decide"
Acting == at.part = "act"
Recording == at.part \in {"passed", "failed"}
Condition == Items[at.item].conditions[at.n]
Response == Items[at.item].responses[at.n]

\* The item is over: in a cycle its status waits to be recorded.
Leave(part) ==
    at' = IF at.item \in Automatic THEN [item |-> at.item, part |-> part, n |-> 0]
          ELSE Rest

NextItem ==
    at' = IF at.item = Cycle[Len(Cycle)] THEN Rest
          ELSE LET n == CHOOSE m \in DOMAIN Cycle : Cycle[m] = at.item IN
               Check(Cycle[n + 1], 1)

StartCycle ==
    /\ at \in {Rest, Due}
    /\ at' = Check(Cycle[1], 1)
    /\ UNCHANGED <<sky, board, slit, status, timer, bounds, history>>

\* Mutant: an item that runs always fires on a change only.
ShouldRunOnChange == status[at.item] # TRUE

ShouldRun == Items[at.item].always \/ status[at.item] # TRUE

Fault == faults < MaxFaults /\ faults' = faults + 1

\* unlock_humidity reads a humidity that is too high.
ReadsWet == Checking /\ Condition = Dry /\ Measured # NaN /\ ~ IsDry

\* One condition.  The first that fails ends the item.
CheckCondition ==
    /\ Checking
    /\ timer' = IF Condition = Dry THEN TimerOfDry ELSE timer
    /\ IF ~ Passes(Condition) THEN Leave("failed")
       ELSE IF at.n < Len(Items[at.item].conditions) THEN at' = [at EXCEPT !.n = @ + 1]
       ELSE at' = [at EXCEPT !.part = "decide"]
    /\ spell' = IF ReadsWet THEN 0 ELSE spell
    /\ missed' = (missed /\ ~ ReadsWet)
    /\ UNCHANGED <<sky, board, slit, status, bounds, raised, byHand, unwatched, overtaken>>

\* A condition that raises counts as failed.  The weather conditions swallow
\* what their stations raise, but not what the store does when a for: reads or
\* writes its timer, which then stays as it was.
ConditionRaises ==
    /\ Checking
    /\ Condition # Humid
    /\ Condition = Dry => Measured # NaN
    /\ Fault
    /\ Leave("failed")
    /\ spell' = IF ReadsWet THEN 0 ELSE spell
    /\ missed' = (missed \/ ReadsWet)
    /\ UNCHANGED <<sky, board, slit, status, timer, hands, raised, byHand, unwatched,
                   overtaken>>

\* item_status: behind the last condition the responses run, if the policy of
\* the item says so.  A store that fails here leaves the item as it was.
Decide ==
    /\ Deciding
    /\ \/ /\ IF ShouldRun THEN at' = Act(at.item, 1) ELSE Leave("passed")
          /\ UNCHANGED faults
       \/ Fault /\ NextItem
    /\ UNCHANGED <<sky, board, slit, status, timer, hands, history>>

\* update_item, which may fail as well.
Record ==
    /\ Recording
    /\ \/ /\ status' = [status EXCEPT ![at.item] = (at.part = "passed")]
          /\ UNCHANGED faults
       \/ Fault /\ UNCHANGED status
    /\ NextItem
    /\ unwatched' = (unwatched /\ status'["close_on_humidity"] # FALSE)
    /\ UNCHANGED <<sky, board, slit, timer, hands, raised, byHand, weather, overtaken>>

\* A response succeeds or not; the list goes on unless on_error: abort.
Proceed(ok) ==
    IF (ok \/ ~ Items[at.item].abort) /\ at.n < Len(Items[at.item].responses)
    THEN at' = Act(at.item, at.n + 1)
    ELSE Leave("passed")

\* While the close is recorded True, or about to be, nothing but the key keeps
\* the dome shut.
Watching == \/ status["close_on_humidity"] = TRUE
            \/ at.part \in {"act", "passed"} /\ at.item = "close_on_humidity"
Dropped(k) == unwatched' = (unwatched \/ (k = "humidity" /\ Watching))

\* lock(): the key and the LOCK that puts it, and all others, in force.
LockDome(k) ==
    /\ Board!Lock("dome", k)
    /\ torn' = {}
    /\ overtook' = IF at.part = "move" THEN keys'["dome"] ELSE overtook

\* lock() raises between its two commits: the key is there, and in force only if
\* the dome was LOCK before.
LockHalf(k) ==
    /\ keys' = [keys EXCEPT !["dome"] = @ \cup {k}]
    /\ UNCHANGED flag
    /\ IF flag["dome"] = "lock"
       THEN /\ overtook' = IF at.part = "move" THEN keys'["dome"] ELSE overtook
            /\ UNCHANGED torn
       ELSE torn' = torn \cup {k} /\ UNCHANGED overtook

UnlockDome(k) ==
    /\ Board!Unlock("dome", k)
    /\ UNCHANGED overtaken

\* unlock() raises behind the commit of its key: the flag stays LOCK.
UnlockHalf(k) ==
    /\ HasKey("dome", k)
    /\ keys' = [keys EXCEPT !["dome"] = @ \ {k}]
    /\ UNCHANGED <<flag, overtaken>>

\* A call raises, before it changed anything or between two commits.
ResponseRaises ==
    /\ Acting
    /\ Fault
    /\ \/ Response.do \in {"set_flag", "lock", "unlock"} /\ UNCHANGED <<board, overtaken>>
       \/ Response.do = "lock" /\ LockHalf(Response.key)
       \/ Response.do = "unlock" /\ UnlockHalf(Response.key)
    /\ IF Response.do \in {"lock", "unlock"} THEN Dropped(Response.key)
       ELSE UNCHANGED unwatched
    /\ Proceed(FALSE)
    /\ UNCHANGED <<sky, slit, status, timer, hands, raised, byHand, weather>>

\* Mutant: a set_flag response overrides the lock.
SetFlagResponseOverrides ==
    /\ Acting
    /\ Response.do = "set_flag"
    /\ Proceed(TRUE)
    /\ flag' = [flag EXCEPT ![Response.ins] = Response.flag]
    /\ UNCHANGED <<keys, sky, slit, status, timer, bounds, history>>

\* A lock refuses the flag.
SetFlagResponse ==
    /\ Acting
    /\ Response.do = "set_flag"
    /\ IF flag[Response.ins] = "lock"
       THEN Proceed(FALSE) /\ UNCHANGED board
       ELSE Proceed(TRUE) /\ Board!SetFlag(Response.ins, Response.flag)
    /\ UNCHANGED <<sky, slit, status, timer, bounds, history>>

\* An unpark that raises, or the store with it, leaves ERROR if the store lets
\* it, and every later unpark is refused.
UnparkResponse ==
    /\ Acting
    /\ Response = Unpark
    /\ \/ flag["telescope"] = "error" /\ Proceed(FALSE) /\ UNCHANGED <<board, faults>>
       \/ /\ flag["telescope"] # "error"
          /\ Board!SetFlag("telescope", "ready")
          /\ Proceed(TRUE)
          /\ UNCHANGED faults
       \/ /\ Fault
          /\ Board!SetFlag("telescope", "error") \/ UNCHANGED board
          /\ Proceed(FALSE)
    /\ UNCHANGED <<sky, slit, status, timer, hands, history>>

LockResponse ==
    /\ Acting
    /\ Response.do = "lock"
    /\ LockDome(Response.key)
    /\ Proceed(TRUE)
    /\ byHand' = (byHand /\ Response.key # "humidity")
    /\ UNCHANGED <<sky, slit, status, timer, bounds, raised, unwatched, weather>>

\* A key that does not hold the dome is no error.
UnlockResponse ==
    /\ Acting
    /\ Response.do = "unlock"
    /\ IF HasKey("dome", Response.key)
       THEN UnlockDome(Response.key) /\ Dropped(Response.key)
       ELSE UNCHANGED <<board, overtaken, unwatched>>
    /\ Proceed(TRUE)
    /\ byHand' = (byHand /\ Response.key # "humidity")
    /\ UNCHANGED <<sky, slit, status, timer, bounds, raised, weather>>

\* _guarded_open in three steps.  First can_open: refused, or on to the flag.
OpenAsk ==
    LET canOpen == {flag["dome"], flag["site"]} \subseteq {"ready", "operating"} IN
    /\ Acting
    /\ Response = OpenSlit
    /\ \/ canOpen /\ at' = [at EXCEPT !.part = "mark"] /\ UNCHANGED faults
       \/ ~ canOpen /\ Proceed(FALSE) /\ UNCHANGED faults
       \/ Fault /\ Proceed(FALSE)
    /\ UNCHANGED <<sky, board, slit, status, timer, hands, history>>

\* The dome is flagged, unless it has been locked meanwhile; a store that
\* raises is told ERROR, if it can be.
OpenMark ==
    /\ at.part = "mark"
    /\ \/ /\ flag["dome"] # "lock"
          /\ Board!SetFlag("dome", "operating")
          /\ at' = [at EXCEPT !.part = "move"]
          /\ overtook' = {}
          /\ UNCHANGED faults
       \/ flag["dome"] = "lock" /\ Proceed(FALSE) /\ UNCHANGED <<board, overtook, faults>>
       \/ /\ Fault
          /\ Board!SetFlag("dome", "error") \/ UNCHANGED board
          /\ Proceed(FALSE)
          /\ UNCHANGED overtook
    /\ UNCHANGED <<sky, slit, status, timer, hands, raised, byHand, unwatched, weather, torn>>

\* The slit moves, whatever has become of the flag; the command may raise.
OpenMove ==
    /\ at.part = "move"
    /\ \/ slit' = TRUE /\ Proceed(TRUE) /\ UNCHANGED faults
       \/ slit' \in {slit, TRUE} /\ Fault /\ Proceed(FALSE)
    /\ raised' = (raised /\ slit' = slit)
    /\ overtook' = {}
    /\ UNCHANGED <<sky, board, status, timer, hands, byHand, unwatched, weather, torn>>

\* _guarded_close: a store that raises does not keep the slit from closing; an
\* open slit that raises leaves ERROR on a dome that is not locked, if the store
\* lets it.  A lock() between its statements comes to the same as one before.
CloseResponse ==
    /\ Acting
    /\ Response = CloseSlit
    /\ \/ /\ IF flag["dome"] = "operating" THEN Board!SetFlag("dome", "ready")
             ELSE UNCHANGED board
          /\ slit' = FALSE
          /\ raised' = FALSE
          /\ Proceed(TRUE)
          /\ UNCHANGED faults
       \/ /\ Fault
          /\ slit' = FALSE
          /\ raised' = FALSE
          /\ Proceed(TRUE)
          /\ UNCHANGED board
       \/ /\ slit
          /\ Fault
          /\ slit' \in BOOLEAN
          /\ raised' = TRUE
          /\ Board!SetFlag("dome", "error") \/ UNCHANGED board
          /\ Proceed(FALSE)
    /\ UNCHANGED <<sky, status, timer, hands, byHand, unwatched, weather, overtaken>>

-----------------------------------------------------------------------------
(* Operators, the weather and time                                         *)

Hand == hands < MaxHands /\ hands' = hands + 1

\* An operator's call may raise half-way, too.
HandLock(k) ==
    /\ Hand
    /\ \/ LockDome(k) /\ UNCHANGED faults
       \/ Fault /\ LockHalf(k)
    /\ byHand' = \/ byHand
                 \/ "humidity" \in torn
                 \/ k = "humidity" /\ k \notin keys["dome"]
    /\ UNCHANGED <<sky, slit, status, timer, at, raised, unwatched, weather>>

HandUnlock(k) ==
    /\ Hand
    /\ \/ UnlockDome(k) /\ UNCHANGED faults
       \/ Fault /\ UnlockHalf(k)
    /\ Dropped(k)
    /\ byHand' = (byHand /\ k # "humidity")
    /\ UNCHANGED <<sky, slit, status, timer, at, raised, weather>>

\* run_action, when no cycle holds the lock.
RunAction(name) ==
    /\ Hand
    /\ at \in {Rest, Due}
    /\ at' = Act(name, 1)
    /\ UNCHANGED <<sky, board, slit, status, timer, faults, history>>

Observe(s) ==
    /\ \E v \in Humidities[s] :
          report' = [report EXCEPT ![s] = [value |-> v, age |-> 0]]
    /\ UNCHANGED <<night, board, slit, status, timer, at, bounds, history>>

\* Bound: cycles follow each other faster than time passes, as the period of
\* the cycles is a small part of the span.
Tick ==
    LET later(t) == IF t = None \/ t = Span THEN t ELSE t + 1 IN
    /\ at = Rest
    /\ at' = Due
    /\ report' = [s \in StationSet |-> Aged(report[s])]
    /\ night' \in BOOLEAN
    /\ timer' = later(timer)
    /\ spell' = later(spell)
    /\ UNCHANGED <<board, slit, status, bounds, raised, byHand, unwatched, missed,
                   overtaken>>

-----------------------------------------------------------------------------

\* An evening with the dome closed, the site and the scheduler ready and nothing
\* recorded.
Init ==
    /\ report = [s \in StationSet |-> Stale]
    /\ night = FALSE
    /\ flag = [i \in Parts |-> IF i \in {"site", "scheduler"} THEN "ready" ELSE "close"]
    /\ keys = [i \in Parts |-> {}]
    /\ slit = FALSE
    /\ status = [name \in Automatic |-> None]
    /\ timer = None
    /\ at = Rest
    /\ hands = 0
    /\ faults = 0
    /\ raised = FALSE
    /\ byHand = FALSE
    /\ unwatched = FALSE
    /\ spell = Span
    /\ missed = FALSE
    /\ torn = {}
    /\ overtook = {}

EngineStep == \/ StartCycle
              \/ CheckCondition
              \/ ConditionRaises
              \/ Decide
              \/ Record
              \/ ResponseRaises
              \/ SetFlagResponse
              \/ UnparkResponse
              \/ LockResponse
              \/ UnlockResponse
              \/ OpenAsk
              \/ OpenMark
              \/ OpenMove
              \/ CloseResponse

HandStep == \/ \E k \in Keys : HandLock(k) \/ HandUnlock(k)
            \/ \E name \in Manual : RunAction(name)

Next == EngineStep \/ HandStep \/ Tick \/ \E s \in StationSet : Observe(s)

Spec == Init /\ [][Next]_vars

\* The worker runs its cycles and time passes.
FairSpec == Spec /\ WF_vars(EngineStep) /\ SF_vars(Tick)

-----------------------------------------------------------------------------
(* Properties                                                              *)

TypeOK ==
    /\ report \in [StationSet -> Report]
    /\ night \in BOOLEAN
    /\ flag \in [Parts -> Flag]
    /\ keys \in [Parts -> SUBSET Keys]
    /\ slit \in BOOLEAN
    /\ status \in [Automatic -> BOOLEAN \cup {None}]
    /\ timer \in 0..Span \cup {None}
    /\ \/ at \in {Rest, Due}
       \/ Checking /\ at.item \in Automatic /\ at.n \in DOMAIN Items[at.item].conditions
       \/ Deciding /\ at.item \in Automatic
       \/ Recording /\ at.item \in Automatic
       \/ Acting /\ at.n \in DOMAIN Items[at.item].responses
       \/ at.part \in {"mark", "move"} /\ Response = OpenSlit
    /\ hands \in 0..MaxHands
    /\ faults \in 0..MaxFaults
    /\ {raised, byHand, unwatched, missed} \subseteq BOOLEAN
    /\ spell \in 0..Span
    /\ {torn, overtook} \subseteq SUBSET Keys

\* The slit opens under a key only if the lock() that put it in force came after
\* the open had flagged the dome, too late to be seen (actions.py:110), or if
\* that lock() raised before it wrote LOCK.  Neither the item that marks the dome
\* ready and opens it at sunset, nor open_telescope by hand, nor operator_unlock,
\* which releases the operator's key only, opens it under any other key,
\* whatever failed or was locked, closed and marked before.  (Where set_flag and
\* lock() overlap statement by statement, StateStore says what is lost.)
KeyHoldsDome == [][~ slit /\ slit' => keys["dome"] \subseteq overtook \cup torn]_vars

\* Once the stations say nothing but high humidity, or nothing, the slit is
\* closed for good, unless its last close raised, an operator had put the
\* humidity key before the weather could, or the key was dropped (by hand, by
\* a failing lock response, by unlock_humidity in the same cycle) before the
\* close was recorded False, which alone arms it again.
ClosesForGood ==
    <>[](Measured = NaN \/ Measured > Above) => <>[](~ slit \/ raised \/ byHand \/ unwatched)

\* A LOCK that no key releases: the unlock() of the last one raised half-way.
Orphaned == flag["dome"] = "lock" /\ keys["dome"] = {}

\* Once it is dry for good at night the dome is open again and again, whatever
\* was locked or failed before, unless an operator's key holds it, an unpark that
\* raised has left the telescope in ERROR, which refuses every later unpark and
\* so aborts the opening, or the last unlock() was torn.
DryReopens ==
    <>[](Measured # NaN /\ Measured < Below /\ night) =>
    <>[](slit \/ "operator" \in keys["dome"] \/ flag["telescope"] = "error" \/ Orphaned)

\* unlock_humidity releases the key a full span after its own last reading of
\* a high humidity, however the reports and the cycles fall, unless the store
\* failed as that reading was to restart the timer.
ReleaseAfterSpell ==
    [][at.item = "unlock_humidity" /\ keys' # keys /\ hands' = hands
          => spell >= Span \/ missed]_vars
=============================================================================
