------------------------------- MODULE Engine -------------------------------
(***************************************************************************)
(* The checklist engine (core/engine.py) with the timed thresholds of      *)
(* core/conditions.py and the item and timer rows of persistence/state.py. *)
(* One cycle evaluates the items in order; an item's conditions are read   *)
(* one after the other, the first failure drops the timers of the          *)
(* conditions behind it, and an item that passes fires its responses       *)
(* before its status is recorded.  Between any two of these steps the      *)
(* weather changes, time passes, an operator aborts or switches items,     *)
(* a statement of the store fails, or the process dies: status and timers  *)
(* are on disk, everything else is lost.                                   *)
(*                                                                         *)
(* Time is kept as elapsed times that saturate at MaxSpan: the code only   *)
(* compares now - since with a condition's span.                           *)
(***************************************************************************)
EXTENDS Naturals, Sequences

CONSTANTS
    Items,          \* item names
    Quantities,     \* what conditions read: weather quantities, flags, domes...
    Configs,        \* the checklists that may be loaded
    MaxConds,       \* bound: conditions of an item
    MaxSpan,        \* bound: the longest for: of a condition
    MaxFaults,      \* bound: crashes and failing statements of one behaviour
    NotTiming       \* no since timestamp

Index == 1..MaxConds
Span == 0..MaxSpan

\* threshold: a bare weather comparison; timed: one with for: span; other: any
\* condition that is simply true or false when evaluated.
Condition == [kind : {"threshold", "timed", "other"}, what : Quantities, span : Span]

Config == [order     : Seq(Items),
           conds     : [Items -> Seq(Condition)],
           responses : [Items -> Nat \ {0}],
           run       : [Items -> {"on_change", "always"}],
           on_error  : [Items -> {"continue", "abort"}],
           active    : [Items -> BOOLEAN]]

ASSUME EngineAssumption ==
    /\ MaxConds \in Nat
    /\ MaxSpan \in Nat
    /\ MaxFaults \in Nat
    /\ NotTiming \notin Nat
    /\ Configs \subseteq Config
    /\ \A c \in Configs : \A i \in Items : Len(c.conds[i]) <= MaxConds

VARIABLES
    sky,        \* what a reading of each quantity would show now
    conf,       \* the loaded checklist
    active,     \* the active attribute of every item
    must_stop,  \* the abort event
    pc,         \* where the worker is in the cycle
    pos,        \* the item of the cycle, as a position of conf.order
    idx,        \* the next condition, timer or response of that item
    verdict,    \* whether its conditions passed, from then on to its record
    manual,     \* the item run by hand, within run_action
    status,     \* table item_state: last_status of every item
    since,      \* table condition_state: time elapsed on every timer
    faults,     \* crashes and failed statements so far
    clean,      \* history: time a timer ran since it had a reason to restart
    torn,       \* history: timers whose reset a fault swallowed, or that an
                \* edit of the item left to another condition
    ran,        \* history: items that fired since they last had no True status
    fires       \* history: firings of an on_change item since then, less the
                \* ones whose record a fault swallowed

worker == <<pc, pos, idx, verdict, manual>>
durable == <<status, since>>
history == <<clean, torn, ran, fires>>
vars == <<sky, conf, active, must_stop, worker, durable, faults, history>>

-----------------------------------------------------------------------------

Loaded == {conf.order[n] : n \in DOMAIN conf.order}
Current == conf.order[pos]
Conds(i) == conf.conds[i]
Timed(i, n) == n \in DOMAIN Conds(i) /\ Conds(i)[n].kind = "timed"
Reading(i, n) == sky[Conds(i)[n].what]

\* Saturating addition of one unit of time.
Later(e) == IF e = NotTiming \/ e = MaxSpan THEN e ELSE e + 1

\* The result of evaluating condition n of item i.  Without fresh data a bare
\* threshold passes and a timed one fails; any other condition whose role or
\* device cannot be read is a failed condition.
Passes(i, n) ==
    CASE Conds(i)[n].kind = "threshold" -> Reading(i, n) # "fails"
      [] Conds(i)[n].kind = "other"     -> Reading(i, n) = "holds"
      [] Conds(i)[n].kind = "timed"     -> /\ Reading(i, n) = "holds"
                                           /\ since[i][n] # NotTiming
                                           /\ since[i][n] >= Conds(i)[n].span

\* Mutant: a comparison first seen to hold does not start the timer.
RestartsOnceSeenFailing(i, n) == Reading(i, n) = "fails" \/ Passes(i, n)

\* The timer starts again when the comparison is seen not to hold, when it is
\* first seen to hold, and when it passes; without fresh data it runs on.
Restarts(i, n) == \/ Reading(i, n) = "fails"
                  \/ Reading(i, n) = "holds" /\ since[i][n] = NotTiming
                  \/ Passes(i, n)

-----------------------------------------------------------------------------
(* The cycle                                                               *)

\* run_cycle forgets an abort that came before it.
StartCycle ==
    /\ pc = "idle"
    /\ must_stop' = FALSE
    /\ pc' = "item"
    /\ pos' = 1
    /\ UNCHANGED <<sky, conf, active, idx, verdict, manual, durable, faults, history>>

EndCycle ==
    /\ pc = "item"
    /\ pos > Len(conf.order) \/ must_stop
    /\ pc' = "idle"
    /\ pos' = 1
    /\ UNCHANGED <<sky, conf, active, must_stop, idx, verdict, manual, durable,
                   faults, history>>

\* Inactive and manual items are skipped.
NextItem ==
    /\ pc = "item"
    /\ pos <= Len(conf.order)
    /\ ~ must_stop
    /\ IF active[Current] /\ Conds(Current) # <<>>
       THEN pc' = "cond" /\ idx' = 1 /\ UNCHANGED pos
       ELSE pos' = pos + 1 /\ UNCHANGED <<pc, idx>>
    /\ UNCHANGED <<sky, conf, active, must_stop, verdict, manual, durable, faults,
                   history>>

\* CheckAbortedError: the item is left without a record.
AbortItem ==
    /\ pc = "cond"
    /\ idx \in DOMAIN Conds(Current)
    /\ must_stop
    /\ pc' = "idle"
    /\ pos' = 1
    /\ idx' = 1
    /\ UNCHANGED <<sky, conf, active, must_stop, verdict, manual, durable, faults,
                   history>>

EvalCondition ==
    /\ pc = "cond"
    /\ idx \in DOMAIN Conds(Current)
    /\ ~ must_stop
    /\ idx' = idx + 1
    /\ IF Passes(Current, idx)
       THEN UNCHANGED pc
       ELSE pc' = "reset"
    /\ since' = IF Timed(Current, idx) /\ Restarts(Current, idx)
                THEN [since EXCEPT ![Current][idx] = 0]
                ELSE since
    /\ clean' = [clean EXCEPT ![Current] =
                    [n \in Index |->
                        IF \/ n = idx /\ Timed(Current, n)
                                      /\ (Passes(Current, n) \/ Reading(Current, n) = "fails")
                           \/ n > idx /\ ~ Passes(Current, idx)
                        THEN 0 ELSE @[n]]]
    /\ torn' = IF Timed(Current, idx) /\ Restarts(Current, idx)
               THEN torn \ {<<Current, idx>>}
               ELSE torn
    /\ UNCHANGED <<sky, conf, active, must_stop, pos, verdict, manual, status, faults,
                   ran, fires>>

AllPassed ==
    /\ pc = "cond"
    /\ idx \notin DOMAIN Conds(Current)
    /\ verdict' = TRUE
    /\ pc' = "decide"
    /\ idx' = 1
    /\ UNCHANGED <<sky, conf, active, must_stop, pos, manual, durable, faults, history>>

\* Mutant: the conditions behind the failing one keep their timers.
ResetLaterNothing ==
    /\ pc = "reset"
    /\ idx \in DOMAIN Conds(Current)
    /\ idx' = idx + 1
    /\ UNCHANGED <<sky, conf, active, must_stop, pc, pos, verdict, manual, durable,
                   faults, history>>

\* Every condition behind the failing one drops its timer, each in a commit of
\* its own.
ResetLater ==
    /\ pc = "reset"
    /\ idx \in DOMAIN Conds(Current)
    /\ since' = IF Timed(Current, idx)
                THEN [since EXCEPT ![Current][idx] = NotTiming]
                ELSE since
    /\ torn' = IF Timed(Current, idx) THEN torn \ {<<Current, idx>>} ELSE torn
    /\ idx' = idx + 1
    /\ UNCHANGED <<sky, conf, active, must_stop, pc, pos, verdict, manual, status,
                   faults, clean, ran, fires>>

ResetDone ==
    /\ pc = "reset"
    /\ idx \notin DOMAIN Conds(Current)
    /\ pc' = "decide"
    /\ idx' = 1
    /\ UNCHANGED <<sky, conf, active, must_stop, pos, verdict, manual, durable,
                   faults, history>>

\* Mutant: an item without a record does not fire, as if it had not changed.
DecideOnFlip ==
    /\ pc = "decide"
    /\ IF verdict /\ (conf.run[Current] = "always" \/ status[Current] = "false")
       THEN /\ pc' = "resp"
            /\ fires' = IF conf.run[Current] = "on_change"
                        THEN [fires EXCEPT ![Current] = @ + 1]
                        ELSE fires
       ELSE pc' = "record" /\ UNCHANGED fires
    /\ UNCHANGED <<sky, conf, active, must_stop, pos, idx, verdict, manual, durable,
                   faults, clean, torn, ran>>

\* Mutant: the recorded status is not looked at.
DecideAnyway ==
    /\ pc = "decide"
    /\ IF verdict
       THEN /\ pc' = "resp"
            /\ fires' = IF conf.run[Current] = "on_change"
                        THEN [fires EXCEPT ![Current] = @ + 1]
                        ELSE fires
       ELSE pc' = "record" /\ UNCHANGED fires
    /\ UNCHANGED <<sky, conf, active, must_stop, pos, idx, verdict, manual, durable,
                   faults, clean, torn, ran>>

\* Responses fire when the conditions passed and the item either always runs
\* or was not recorded True.
Decide ==
    /\ pc = "decide"
    /\ IF verdict /\ (conf.run[Current] = "always" \/ status[Current] # "true")
       THEN /\ pc' = "resp"
            /\ fires' = IF conf.run[Current] = "on_change"
                        THEN [fires EXCEPT ![Current] = @ + 1]
                        ELSE fires
       ELSE pc' = "record" /\ UNCHANGED fires
    /\ UNCHANGED <<sky, conf, active, must_stop, pos, idx, verdict, manual, durable,
                   faults, clean, torn, ran>>

Responding == IF manual = {} THEN Current ELSE CHOOSE i \in manual : TRUE

\* The list of the item is over: every response was tried, or one failed under
\* on_error: abort.
ResponsesDone(failed) ==
    \/ idx = conf.responses[Responding]
    \/ failed /\ conf.on_error[Responding] = "abort"

\* One response; its failure is logged.
Respond ==
    /\ pc = "resp"
    /\ \E failed \in BOOLEAN :
          IF ResponsesDone(failed)
          THEN /\ idx' = 1
               /\ pc' = IF manual = {} THEN "record" ELSE "idle"
               /\ manual' = {}
               /\ ran' = IF manual = {} THEN ran \cup {Current} ELSE ran
          ELSE idx' = idx + 1 /\ UNCHANGED <<pc, manual, ran>>
    /\ UNCHANGED <<sky, conf, active, must_stop, pos, verdict, durable, faults,
                   clean, torn, fires>>

\* update_item.
Record ==
    /\ pc = "record"
    /\ status' = [status EXCEPT ![Current] = IF verdict THEN "true" ELSE "false"]
    /\ ran' = IF verdict THEN ran ELSE ran \ {Current}
    /\ fires' = IF verdict THEN fires ELSE [fires EXCEPT ![Current] = 0]
    /\ pc' = "item"
    /\ pos' = pos + 1
    /\ verdict' = FALSE
    /\ UNCHANGED <<sky, conf, active, must_stop, idx, manual, since, faults, clean,
                   torn>>

-----------------------------------------------------------------------------
(* The other threads.  Those that run responses or swap the checklist hold *)
(* the cycle lock: they come in only between cycles.                       *)

\* run_action: the responses of a loaded item, without its conditions.
RunAction(i) ==
    /\ pc = "idle"
    /\ i \in Loaded
    /\ manual' = {i}
    /\ pc' = "resp"
    /\ idx' = 1
    /\ UNCHANGED <<sky, conf, active, must_stop, pos, verdict, durable, faults, history>>

\* The positions at which checklist c has another condition than the loaded one.
Edited(c) == {p \in Items \X Index :
                 LET at(conds) == IF p[2] \in DOMAIN conds THEN {conds[p[2]]} ELSE {} IN
                 at(c.conds[p[1]]) # at(Conds(p[1]))}

Inherited(c) == {p \in Edited(c) : since[p[1]][p[2]] # NotTiming}

CleanAfter(c) == [i \in Items |-> [n \in Index |->
                     IF <<i, n>> \in Edited(c) THEN 0 ELSE clean[i][n]]]

\* Engine.load: state of items that are gone is dropped; the others keep
\* theirs, timers by position, whatever condition is there now.
Load(c) ==
    LET kept == {c.order[n] : n \in DOMAIN c.order} IN
    /\ conf' = c
    /\ active' = c.active
    /\ status' = [i \in Items |-> IF i \in kept THEN status[i] ELSE "none"]
    /\ since' = [i \in Items |-> IF i \in kept THEN since[i]
                                 ELSE [n \in Index |-> NotTiming]]
    /\ ran' = ran \cap kept
    /\ fires' = [i \in Items |-> IF i \in kept THEN fires[i] ELSE 0]
    /\ torn' = (torn \cup Inherited(c)) \cap (kept \X Index)
    /\ clean' = CleanAfter(c)

Reload(c) ==
    /\ pc = "idle"
    /\ Load(c)
    /\ UNCHANGED <<sky, must_stop, worker, faults>>

Activate(i) ==
    /\ pc # "off"
    /\ i \in Loaded
    /\ active' = [active EXCEPT ![i] = TRUE]
    /\ UNCHANGED <<sky, conf, must_stop, worker, durable, faults, history>>

Deactivate(i) ==
    /\ pc # "off"
    /\ i \in Loaded
    /\ active' = [active EXCEPT ![i] = FALSE]
    /\ UNCHANGED <<sky, conf, must_stop, worker, durable, faults, history>>

Abort ==
    /\ pc # "off"
    /\ must_stop' = TRUE
    /\ UNCHANGED <<sky, conf, active, worker, durable, faults, history>>

-----------------------------------------------------------------------------
(* The environment                                                         *)

SkyChanges ==
    /\ sky' \in [Quantities -> {"holds", "fails", "stale"}]
    /\ UNCHANGED <<conf, active, must_stop, worker, durable, faults, history>>

Tick ==
    /\ since' = [i \in Items |-> [n \in Index |-> Later(since[i][n])]]
    /\ clean' = [i \in Items |-> [n \in Index |->
                    IF since[i][n] = NotTiming THEN clean[i][n] ELSE Later(clean[i][n])]]
    /\ UNCHANGED <<sky, conf, active, must_stop, worker, status, faults, torn, ran,
                   fires>>

\* The timers the worker was about to drop, and the firing it was about to
\* record, when a fault strikes.
Swallow ==
    /\ torn' = IF pc = "reset"
               THEN torn \cup {<<Current, n>> : n \in {m \in Index : m >= idx}}
               ELSE torn
    /\ fires' = IF pc \in {"resp", "record"} /\ manual = {} /\ verdict
                   /\ status[Current] # "true" /\ conf.run[Current] = "on_change"
                THEN [fires EXCEPT ![Current] = @ - 1]
                ELSE fires

\* A statement of the store raises: the engine logs it and goes on with the
\* next item.
StoreFails ==
    /\ faults < MaxFaults
    /\ faults' = faults + 1
    /\ pc \in {"reset", "decide", "record"}
    /\ Swallow
    /\ pc' = "item"
    /\ pos' = pos + 1
    /\ idx' = 1
    /\ verdict' = FALSE
    /\ UNCHANGED <<sky, conf, active, must_stop, manual, durable, clean, ran>>

\* A timed condition cannot read or write its timer: it counts as failed.
MemoryFails ==
    /\ faults < MaxFaults
    /\ faults' = faults + 1
    /\ pc = "cond"
    /\ Timed(Current, idx)
    /\ ~ must_stop
    /\ Reading(Current, idx) # "stale"
    /\ pc' = "reset"
    /\ idx' = idx + 1
    /\ torn' = IF Reading(Current, idx) = "fails"
               THEN torn \cup {<<Current, idx>>}
               ELSE torn
    /\ clean' = [clean EXCEPT ![Current] =
                    [n \in Index |->
                        IF n > idx \/ (n = idx /\ Reading(Current, n) = "fails")
                        THEN 0 ELSE @[n]]]
    /\ UNCHANGED <<sky, conf, active, must_stop, pos, verdict, manual, durable, ran,
                   fires>>

\* The pruning of a reload raises, with the new items already in place.
ReloadFails(c) ==
    /\ faults < MaxFaults
    /\ faults' = faults + 1
    /\ pc = "idle"
    /\ conf' = c
    /\ active' = c.active
    /\ torn' = torn \cup Inherited(c)
    /\ clean' = CleanAfter(c)
    /\ UNCHANGED <<sky, must_stop, worker, durable, ran, fires>>

Crash ==
    /\ faults < MaxFaults
    /\ faults' = faults + 1
    /\ pc # "off"
    /\ Swallow
    /\ pc' = "off"
    /\ pos' = 1
    /\ idx' = 1
    /\ manual' = {}
    /\ verdict' = FALSE
    /\ must_stop' = FALSE
    /\ UNCHANGED <<sky, conf, active, durable, clean, ran>>

\* A new process over the same store loads whatever the files now hold.
Restart(c) ==
    /\ pc = "off"
    /\ pc' = "idle"
    /\ Load(c)
    /\ UNCHANGED <<sky, must_stop, pos, idx, verdict, manual, faults>>

-----------------------------------------------------------------------------

Init ==
    /\ sky = [q \in Quantities |-> "holds"]
    /\ conf \in Configs
    /\ active = conf.active
    /\ must_stop = FALSE
    /\ pc = "idle"
    /\ pos = 1
    /\ idx = 1
    /\ verdict = FALSE
    /\ manual = {}
    /\ status = [i \in Items |-> "none"]
    /\ since = [i \in Items |-> [n \in Index |-> NotTiming]]
    /\ faults = 0
    /\ clean = [i \in Items |-> [n \in Index |-> 0]]
    /\ torn = {}
    /\ ran = {}
    /\ fires = [i \in Items |-> 0]

Step == \/ EndCycle
        \/ NextItem
        \/ AbortItem
        \/ EvalCondition
        \/ AllPassed
        \/ ResetLater
        \/ ResetDone
        \/ Decide
        \/ Respond
        \/ Record

Next == \/ StartCycle
        \/ Step
        \/ \E i \in Items : RunAction(i) \/ Activate(i) \/ Deactivate(i)
        \/ \E c \in Configs : Reload(c) \/ ReloadFails(c) \/ Restart(c)
        \/ Abort
        \/ SkyChanges
        \/ Tick
        \/ StoreFails
        \/ MemoryFails
        \/ Crash

Spec == Init /\ [][Next]_vars

\* The worker thread runs, time passes, and control() keeps asking for cycles:
\* a cycle lock that is free again and again is eventually taken for one.
Fairness == WF_vars(Step) /\ WF_vars(Tick) /\ SF_vars(StartCycle)

FairSpec == Spec /\ Fairness

-----------------------------------------------------------------------------
(* Properties                                                              *)

TypeOK ==
    /\ sky \in [Quantities -> {"holds", "fails", "stale"}]
    /\ conf \in Configs
    /\ active \in [Items -> BOOLEAN]
    /\ must_stop \in BOOLEAN
    /\ pc \in {"off", "idle", "item", "cond", "reset", "decide", "resp", "record"}
    /\ pos \in Nat \ {0}
    /\ idx \in Nat \ {0}
    /\ verdict \in BOOLEAN
    /\ manual \in SUBSET Items
    /\ status \in [Items -> {"none", "true", "false"}]
    /\ since \in [Items -> [Index -> Span \cup {NotTiming}]]
    /\ faults \in Nat
    /\ clean \in [Items -> [Index -> Span]]
    /\ torn \in SUBSET (Items \X Index)
    /\ ran \in SUBSET Items
    /\ fires \in [Items -> Nat]

\* An item recorded True has had its whole response list tried since it was
\* last recorded False, created or pruned: wherever the process dies or the
\* store fails, a passing item is fired again rather than recorded unfired.
RecordedMeansFired == \A i \in Items : status[i] = "true" => i \in ran

\* Between two records of False an on_change item fires once, not counting the
\* firings that a fault kept from being recorded.
FiresOncePerEdge == \A i \in Items : fires[i] <= 1

\* The engine is about to drop the timer n of item i.
ResetPending(i, n) == pc = "reset" /\ i = Current /\ n >= idx

\* A timer never credits more time than has passed since its comparison was
\* last seen failing, since it last passed and since a failing sibling last
\* shut the item in front of it, restarts included.  The exceptions are a timer
\* whose reset a fault swallowed and one that was left to another condition by
\* an edit of the item, until it restarts or is dropped.
TimersNeverOvercount ==
    \A i \in Items, n \in Index :
        since[i][n] # NotTiming =>
            \/ since[i][n] <= clean[i][n]
            \/ ResetPending(i, n)
            \/ <<i, n>> \in torn

\* Item i is evaluated in every cycle and every reading holds.
Favourable(i) ==
    /\ pc # "off"
    /\ i \in Loaded
    /\ Conds(i) # <<>>
    /\ active[i]
    /\ ~ must_stop
    /\ \A n \in DOMAIN Conds(i) : Reading(i, n) = "holds"

Timers(i) == {n \in DOMAIN Conds(i) : Timed(i, n)}

\* When everything an item with at most one timer waits for holds for good,
\* the item is recorded True, and so has fired, again and again: no crash, no
\* earlier abort, no reload and no item in front of it starves it.
HoldingFires ==
    \A i \in Items :
        <>[](Favourable(i) /\ \A m, n \in Timers(i) : m = n) => []<>(status[i] = "true")

-----------------------------------------------------------------------------
(* What the documentation says and the code does not do.                   *)

\* docs/DESIGN.md:233 fires the responses when all conditions pass, and
\* docs/configuration.rst:97 has a for: pass once its comparison has held that
\* long: conditions that all hold for good get the item fired.
EveryHoldingItemFires ==
    \A i \in Items : <>[]Favourable(i) => []<>(status[i] = "true")
=============================================================================
