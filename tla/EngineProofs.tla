---------------------------- MODULE EngineProofs ----------------------------
(***************************************************************************)
(* Proofs about Engine.tla for every set of items and checklists, any      *)
(* spans and any number of faults: the types, that what is recorded True   *)
(* has fired, that an edge fires once, and that no timer overcounts.       *)
(***************************************************************************)
EXTENDS Engine, TLAPS

-----------------------------------------------------------------------------
(* The worker's place in the cycle                                         *)

\* The worker is at an item of the checklist.
AtItem == \/ pc \in {"cond", "reset", "decide", "record"}
          \/ pc = "resp" /\ manual = {}

PlaceInv ==
    /\ AtItem => pos \in DOMAIN conf.order
    /\ verdict => pc \in {"decide", "resp", "record"} /\ manual = {}
    /\ manual # {} => pc = "resp"

\* A firing whose record is still to come.
Firing(i) == /\ pc \in {"resp", "record"}
             /\ manual = {}
             /\ verdict
             /\ i = Current

\* An edge has fired once when it is recorded or about to be, and not before.
FireInv ==
    /\ \A i \in Items : fires[i] <= 1
    /\ \A i \in Items : fires[i] = 0 \/ status[i] = "true" \/ Firing(i)
    /\ Firing(Current) /\ status[Current] # "true" =>
          fires[Current] = IF conf.run[Current] = "on_change" THEN 1 ELSE 0

\* What is recorded True, or about to be, has fired.
RanInv ==
    /\ RecordedMeansFired
    /\ pc = "record" /\ verdict => Current \in ran

\* A timer without a timed condition was left by an edit of the item.
TimerInv ==
    /\ TimersNeverOvercount
    /\ \A i \in Items, n \in Index :
          since[i][n] # NotTiming /\ ~ Timed(i, n) => <<i, n>> \in torn

EngineInv == TypeOK /\ PlaceInv /\ FireInv /\ RanInv /\ TimerInv

LEMMA ConfigTypes ==
    \A c \in Configs :
        /\ c.order \in Seq(Items)
        /\ c.conds \in [Items -> Seq(Condition)]
        /\ c.active \in [Items -> BOOLEAN]
        /\ \A i \in Items : Len(c.conds[i]) <= MaxConds
  BY EngineAssumption DEF Config

LEMMA CurrentTyped == TypeOK /\ pos \in DOMAIN conf.order => Current \in Items
  BY ConfigTypes DEF TypeOK, Current

LEMMA AtItemTyped == TypeOK /\ PlaceInv /\ AtItem => Current \in Items
  BY CurrentTyped DEF PlaceInv

\* Saturating time keeps its range and its order.
LEMMA LaterTypes ==
    /\ \A e \in Span \cup {NotTiming} : Later(e) \in Span \cup {NotTiming}
    /\ \A e \in Span : Later(e) \in Span
    /\ \A e, d \in Span : e <= d => Later(e) <= Later(d)
    /\ \A e \in Span : Later(e) # NotTiming
    /\ Later(NotTiming) = NotTiming
  BY EngineAssumption DEF Later, Span

LEMMA InitEngine == Init => EngineInv
<1> SUFFICES ASSUME Init
             PROVE  EngineInv
  OBVIOUS
<1> USE DEF Init
<1>1. TypeOK
  <2>1. 0 \in Span
    BY EngineAssumption DEF Span
  <2>2. since \in [Items -> [Index -> Span \cup {NotTiming}]]
    OBVIOUS
  <2>3. clean \in [Items -> [Index -> Span]]
    BY <2>1
  <2>4. /\ sky \in [Quantities -> {"holds", "fails", "stale"}]
        /\ active \in [Items -> BOOLEAN]
        /\ status \in [Items -> {"none", "true", "false"}]
        /\ fires \in [Items -> Nat]
    BY ConfigTypes
  <2>5. /\ conf \in Configs /\ must_stop \in BOOLEAN /\ pc = "idle"
        /\ pos = 1 /\ idx = 1 /\ verdict \in BOOLEAN /\ faults = 0
        /\ manual = {} /\ torn = {} /\ ran = {}
    OBVIOUS
  <2> HIDE DEF Init
  <2> QED
    BY <2>2, <2>3, <2>4, <2>5 DEF TypeOK
<1>2. PlaceInv
  BY DEF PlaceInv, AtItem
<1>3. FireInv
  BY DEF FireInv, Firing
<1>4. RanInv
  BY DEF RanInv, RecordedMeansFired
<1>5. TimerInv
  BY DEF TimerInv, TimersNeverOvercount
<1> QED
  BY <1>1, <1>2, <1>3, <1>4, <1>5 DEF EngineInv

LEMMA PlaceStep == TypeOK /\ PlaceInv /\ [Next]_vars => PlaceInv'
<1> SUFFICES ASSUME TypeOK, PlaceInv, [Next]_vars
             PROVE  PlaceInv'
  OBVIOUS
<1> USE DEF PlaceInv, AtItem
<1>1. CASE StartCycle \/ EndCycle \/ AbortItem
  BY <1>1 DEF StartCycle, EndCycle, AbortItem
<1>2. CASE NextItem
  <2>1. pos <= Len(conf.order) => pos \in DOMAIN conf.order
    BY ConfigTypes DEF TypeOK
  <2> QED
    BY <1>2, <2>1 DEF NextItem
<1>3. CASE EvalCondition \/ AllPassed
  BY <1>3 DEF EvalCondition, AllPassed
<1>4. CASE ResetLater \/ ResetDone
  BY <1>4 DEF ResetLater, ResetDone
<1>5. CASE Decide
  BY <1>5 DEF Decide
<1>6. CASE Respond
  BY <1>6 DEF Respond
<1>7. CASE Record
  BY <1>7 DEF Record
<1>8. CASE \E i \in Items : RunAction(i) \/ Activate(i) \/ Deactivate(i)
  BY <1>8 DEF RunAction, Activate, Deactivate, worker
<1>9. CASE \E c \in Configs : Reload(c) \/ ReloadFails(c) \/ Restart(c)
  BY <1>9 DEF Reload, ReloadFails, Restart, Load, worker
<1>10. CASE Abort \/ SkyChanges \/ Tick
  BY <1>10 DEF Abort, SkyChanges, Tick, worker
<1>11. CASE StoreFails \/ MemoryFails \/ Crash
  BY <1>11 DEF StoreFails, MemoryFails, Crash
<1>12. CASE UNCHANGED vars
  BY <1>12 DEF vars, worker
<1> QED
  BY <1>1, <1>2, <1>3, <1>4, <1>5, <1>6, <1>7, <1>8, <1>9, <1>10, <1>11, <1>12
     DEF Next, Step

-----------------------------------------------------------------------------
(* Types                                                                   *)

\* A firing that a fault swallows has been counted.
LEMMA SwallowTypes ==
    ASSUME TypeOK, PlaceInv, FireInv, Swallow
    PROVE  /\ torn' \in SUBSET (Items \X Index)
           /\ fires' \in [Items -> Nat]
           /\ \A i \in Items : fires'[i] <= fires[i]
<1>1. torn' \in SUBSET (Items \X Index)
  <2>1. CASE pc = "reset"
    <3>1. Current \in Items
      BY <2>1, AtItemTyped DEF AtItem
    <3> QED
      BY <2>1, <3>1 DEF Swallow, TypeOK
  <2>2. CASE pc # "reset"
    BY <2>2 DEF Swallow, TypeOK
  <2> QED
    BY <2>1, <2>2
<1>2. fires' \in [Items -> Nat] /\ \A i \in Items : fires'[i] <= fires[i]
  <2> DEFINE Swallows == /\ pc \in {"resp", "record"} /\ manual = {} /\ verdict
                         /\ status[Current] # "true" /\ conf.run[Current] = "on_change"
  <2>1. CASE Swallows
    <3>1. Current \in Items
      BY <2>1, AtItemTyped DEF AtItem
    <3>2. fires[Current] = 1
      BY <2>1 DEF FireInv, Firing
    <3>3. fires' = [fires EXCEPT ![Current] = fires[Current] - 1]
      BY <2>1 DEF Swallow
    <3> QED
      BY <3>1, <3>2, <3>3 DEF TypeOK
  <2>2. CASE ~ Swallows
    <3>1. fires' = fires
      BY <2>2 DEF Swallow
    <3> QED
      BY <3>1 DEF TypeOK
  <2> QED
    BY <2>1, <2>2
<1> QED
  BY <1>1, <1>2

LEMMA LoadTypes ==
    ASSUME TypeOK, NEW c \in Configs
    PROVE  /\ Inherited(c) \subseteq Items \X Index
           /\ CleanAfter(c) \in [Items -> [Index -> Span]]
<1>1. 0 \in Span
  BY EngineAssumption DEF Span
<1> QED
  BY <1>1 DEF TypeOK, Inherited, Edited, CleanAfter

LEMMA TypeStep == EngineInv /\ [Next]_vars => TypeOK'
<1> SUFFICES ASSUME EngineInv, [Next]_vars
             PROVE  TypeOK'
  OBVIOUS
<1>0. /\ TypeOK /\ PlaceInv /\ FireInv
      /\ 0 \in Span
      /\ AtItem => Current \in Items
  BY AtItemTyped, EngineAssumption DEF EngineInv, Span
<1> USE <1>0
<1>1. CASE \/ StartCycle \/ EndCycle \/ NextItem \/ AbortItem \/ AllPassed \/ ResetDone
           \/ UNCHANGED vars
  <2>1. /\ UNCHANGED <<sky, conf, active, status, since, faults, clean, torn, ran, fires>>
        /\ UNCHANGED manual
    BY <1>1, Zenon DEF StartCycle, EndCycle, NextItem, AbortItem, AllPassed, ResetDone,
       durable, history, vars, worker
  <2>2. /\ must_stop' \in BOOLEAN
        /\ pc' \in {"off", "idle", "item", "cond", "reset", "decide", "resp", "record"}
        /\ pos' \in Nat \ {0}
        /\ idx' \in Nat \ {0}
        /\ verdict' \in BOOLEAN
    <3>1. must_stop' \in BOOLEAN /\ verdict' \in BOOLEAN
      BY <1>1, Zenon DEF StartCycle, EndCycle, NextItem, AbortItem, AllPassed, ResetDone,
         TypeOK, vars, worker
    <3>2. /\ pos' \in {1, pos, pos + 1} /\ idx' \in {1, idx}
          /\ pc' \in {pc, "idle", "item", "cond", "decide"}
      BY <1>1, Zenon DEF StartCycle, EndCycle, NextItem, AbortItem, AllPassed, ResetDone,
         vars, worker
    <3> QED
      BY <3>1, <3>2 DEF TypeOK
  <2> QED
    BY <2>1, <2>2 DEF TypeOK
<1>2. CASE EvalCondition
  <2>1. since' \in [Items -> [Index -> Span \cup {NotTiming}]]
    BY <1>2 DEF EvalCondition, TypeOK, AtItem
  <2>2. clean' \in [Items -> [Index -> Span]]
    BY <1>2 DEF EvalCondition, TypeOK, AtItem
  <2>3. torn' \in SUBSET (Items \X Index)
    BY <1>2 DEF EvalCondition, TypeOK
  <2> QED
    BY <1>2, <2>1, <2>2, <2>3 DEF EvalCondition, TypeOK
<1>3. CASE ResetLater
  <2>1. since' \in [Items -> [Index -> Span \cup {NotTiming}]]
    BY <1>3 DEF ResetLater, TypeOK, AtItem
  <2>2. torn' \in SUBSET (Items \X Index)
    BY <1>3 DEF ResetLater, TypeOK
  <2> QED
    BY <1>3, <2>1, <2>2 DEF ResetLater, TypeOK
<1>4. CASE Decide
  <2>1. fires' \in [Items -> Nat]
    BY <1>4 DEF Decide, TypeOK, AtItem
  <2> QED
    BY <1>4, <2>1 DEF Decide, TypeOK, durable
<1>5. CASE Respond
  <2>1. ran' \in SUBSET Items
    BY <1>5 DEF Respond, TypeOK, AtItem
  <2>2. /\ UNCHANGED <<sky, conf, active, must_stop, pos, verdict, status, since,
                        faults, clean, torn, fires>>
        /\ pc' \in {pc, "record", "idle"}
        /\ idx' \in {1, idx + 1}
        /\ manual' \in {manual, {}}
    BY <1>5, Zenon DEF Respond, durable
  <2> QED
    BY <2>1, <2>2 DEF TypeOK
<1>6. CASE Record
  <2>1. /\ status' \in [Items -> {"none", "true", "false"}]
        /\ fires' \in [Items -> Nat]
        /\ ran' \in SUBSET Items
    BY <1>6 DEF Record, TypeOK, AtItem
  <2>2. /\ UNCHANGED <<sky, conf, active, must_stop, idx, manual, since, faults, clean,
                        torn>>
        /\ pc' = "item" /\ pos' = pos + 1 /\ verdict' \in BOOLEAN
    BY <1>6, Zenon DEF Record
  <2> QED
    BY <2>1, <2>2 DEF TypeOK
<1>7. ASSUME NEW i \in Items, RunAction(i) \/ Activate(i) \/ Deactivate(i)
      PROVE  TypeOK'
  <2>1. UNCHANGED <<sky, conf, must_stop, pos, verdict, status, since, faults, clean,
                    torn, ran, fires>>
    BY <1>7, Zenon DEF RunAction, Activate, Deactivate, worker, durable, history
  <2>2. CASE RunAction(i)
    BY <2>1, <2>2 DEF RunAction, TypeOK
  <2>3. CASE Activate(i) \/ Deactivate(i)
    <3>1. UNCHANGED <<pc, idx, manual>> /\ active' \in [Items -> BOOLEAN]
      BY <2>3 DEF Activate, Deactivate, worker, TypeOK
    <3> QED
      BY <2>1, <3>1 DEF TypeOK
  <2> QED
    BY <1>7, <2>2, <2>3
<1>8. CASE \E c \in Configs : Reload(c) \/ Restart(c)
  <2>1. PICK c \in Configs : Reload(c) \/ Restart(c)
    BY <1>8
  <2>2. Load(c)
    BY <2>1 DEF Reload, Restart
  <2>3. /\ conf' \in Configs
        /\ active' \in [Items -> BOOLEAN]
        /\ status' \in [Items -> {"none", "true", "false"}]
        /\ ran' \in SUBSET Items
        /\ fires' \in [Items -> Nat]
    BY <2>2, ConfigTypes DEF Load, TypeOK
  <2>4. since' \in [Items -> [Index -> Span \cup {NotTiming}]]
    BY <2>2 DEF Load, TypeOK
  <2>5. torn' \in SUBSET (Items \X Index) /\ clean' \in [Items -> [Index -> Span]]
    BY <2>2, LoadTypes DEF Load, TypeOK
  <2> QED
    BY <2>1, <2>3, <2>4, <2>5 DEF Reload, Restart, TypeOK, worker
<1>9. CASE \E c \in Configs : ReloadFails(c)
  BY <1>9, ConfigTypes, LoadTypes DEF ReloadFails, TypeOK, worker, durable
<1>10. CASE Abort \/ SkyChanges
  BY <1>10 DEF Abort, SkyChanges, TypeOK, worker, durable, history
<1>11. CASE Tick
  <2>1. since' \in [Items -> [Index -> Span \cup {NotTiming}]]
    BY <1>11, LaterTypes DEF Tick, TypeOK
  <2>2. clean' \in [Items -> [Index -> Span]]
    BY <1>11, LaterTypes DEF Tick, TypeOK
  <2> QED
    BY <1>11, <2>1, <2>2 DEF Tick, TypeOK, worker
<1>12. CASE StoreFails \/ Crash
  <2>1. Swallow
    BY <1>12 DEF StoreFails, Crash
  <2>2. torn' \in SUBSET (Items \X Index) /\ fires' \in [Items -> Nat]
    BY <2>1, SwallowTypes
  <2>3. /\ UNCHANGED <<sky, conf, active, status, since, clean, ran>>
        /\ faults' = faults + 1
        /\ pc' \in {"item", "off"}
        /\ pos' \in {1, pos + 1}
        /\ idx' = 1
        /\ verdict' \in BOOLEAN
        /\ manual' \in {manual, {}}
        /\ must_stop' \in BOOLEAN
    BY <1>12, Zenon DEF StoreFails, Crash, durable, TypeOK
  <2> QED
    BY <2>2, <2>3 DEF TypeOK
<1>13. CASE MemoryFails
  <2>1. Current \in Items
    BY <1>13 DEF MemoryFails, AtItem
  <2>2. idx \in Index
    BY <1>13, <2>1, ConfigTypes, EngineAssumption
       DEF MemoryFails, TypeOK, Timed, Index, Conds
  <2>3. clean' \in [Items -> [Index -> Span]]
    BY <1>13 DEF MemoryFails, TypeOK
  <2>4. torn' \in SUBSET (Items \X Index)
    BY <1>13, <2>1, <2>2 DEF MemoryFails, TypeOK
  <2>5. /\ UNCHANGED <<sky, conf, active, must_stop, pos, verdict, manual, status, since,
                        ran, fires>>
        /\ faults' = faults + 1
        /\ pc' = "reset"
        /\ idx' = idx + 1
    BY <1>13, Zenon DEF MemoryFails, durable
  <2> QED
    BY <2>3, <2>4, <2>5 DEF TypeOK
<1> QED
  BY <1>1, <1>2, <1>3, <1>4, <1>5, <1>6, <1>7, <1>8, <1>9, <1>10, <1>11, <1>12, <1>13
     DEF Next, Step

-----------------------------------------------------------------------------
(* One firing per edge, and none that was not fired                        *)

LEMMA FireStep == EngineInv /\ [Next]_vars => FireInv'
<1> SUFFICES ASSUME EngineInv, [Next]_vars
             PROVE  FireInv'
  OBVIOUS
<1>0. /\ TypeOK /\ PlaceInv /\ FireInv
      /\ AtItem => Current \in Items
  BY AtItemTyped DEF EngineInv
<1> USE <1>0
\* Where nothing was firing and nothing is, fires and status stay.
<1>1. ASSUME UNCHANGED <<status, fires>>, pc \notin {"resp", "record"},
             pc' \notin {"resp", "record"} \/ manual' # {}
      PROVE  FireInv'
  BY <1>1 DEF FireInv, Firing
<1>2. ASSUME UNCHANGED <<status, fires, pc, manual, verdict, pos, conf>>
      PROVE  FireInv'
  BY <1>2 DEF FireInv, Firing, Current
<1>3. CASE \/ StartCycle \/ EndCycle \/ NextItem \/ AbortItem \/ EvalCondition
           \/ AllPassed \/ ResetLater \/ ResetDone \/ MemoryFails
           \/ (\E c \in Configs : ReloadFails(c)) \/ (\E i \in Items : RunAction(i))
  <2>1. UNCHANGED <<status, fires>>
    BY <1>3, Zenon DEF StartCycle, EndCycle, NextItem, AbortItem, EvalCondition, AllPassed,
       ResetLater, ResetDone, MemoryFails, ReloadFails, RunAction, durable, history
  <2>2. pc \notin {"resp", "record"} /\ (pc' \notin {"resp", "record"} \/ manual' # {})
    BY <1>3 DEF StartCycle, EndCycle, NextItem, AbortItem, EvalCondition, AllPassed,
       ResetLater, ResetDone, MemoryFails, ReloadFails, RunAction, worker
  <2> QED
    BY <2>1, <2>2, <1>1
<1>4. CASE \/ (\E i \in Items : Activate(i) \/ Deactivate(i))
           \/ Abort \/ SkyChanges \/ Tick \/ UNCHANGED vars
  <2>1. UNCHANGED <<status, fires, pc, manual, verdict, pos, conf>>
    BY <1>4, Zenon DEF Activate, Deactivate, Abort, SkyChanges, Tick, vars, worker,
       durable, history
  <2> QED
    BY <2>1, <1>2
<1>5. CASE Decide
  <2>1. /\ pc = "decide" /\ Current \in Items
        /\ UNCHANGED <<status, manual, verdict, conf, pos>>
        /\ Current' = Current
    BY <1>5 DEF Decide, AtItem, durable, Current
  <2>2. \A i \in Items : fires[i] = 0 \/ status[i] = "true"
    BY <2>1 DEF FireInv, Firing
  <2>3. CASE verdict /\ (conf.run[Current] = "always" \/ status[Current] # "true")
    <3>1. pc' = "resp" /\ manual = {}
      BY <1>5, <2>3 DEF Decide, PlaceInv
    <3>2. CASE conf.run[Current] = "on_change"
      <4>1. fires[Current] = 0 /\ fires' = [fires EXCEPT ![Current] = fires[Current] + 1]
        BY <1>5, <2>1, <2>2, <2>3, <3>2 DEF Decide
      <4>2. fires'[Current] = 1 /\ \A i \in Items : i # Current => fires'[i] = fires[i]
        BY <2>1, <4>1 DEF TypeOK
      <4>3. \A i \in Items : fires'[i] <= 1 /\ (fires'[i] = 0 \/ status[i] = "true" \/ i = Current)
        BY <2>1, <2>2, <4>2 DEF FireInv
      <4>4. Firing(Current)' /\ Current' = Current
        BY <2>1, <2>3, <3>1 DEF Firing
      <4>5. fires'[Current'] = 1 /\ conf'.run[Current'] = "on_change"
        BY <2>1, <3>2, <4>2
      <4> QED
        BY <2>1, <2>3, <3>1, <4>3, <4>4, <4>5 DEF FireInv, Firing
    <3>3. CASE conf.run[Current] # "on_change"
      <4>1. fires' = fires
        BY <1>5, <2>3, <3>3 DEF Decide
      <4> QED
        BY <2>1, <2>2, <3>3, <4>1 DEF FireInv, Firing
    <3> QED
      BY <3>2, <3>3
  <2>4. CASE ~ (verdict /\ (conf.run[Current] = "always" \/ status[Current] # "true"))
    <3>1. fires' = fires /\ pc' = "record"
      BY <1>5, <2>4 DEF Decide
    <3> QED
      BY <2>1, <2>2, <2>4, <3>1 DEF FireInv, Firing
  <2> QED
    BY <2>3, <2>4
<1>6. CASE Respond
  <2>1. /\ pc = "resp"
        /\ UNCHANGED <<status, fires, verdict, conf, pos>>
        /\ Current' = Current
        /\ manual' # manual => manual # {}
        /\ manual = {} => manual' = {} /\ pc' \in {"resp", "record"}
    BY <1>6 DEF Respond, durable, Current
  <2> QED
    BY <2>1 DEF FireInv, Firing, PlaceInv
<1>7. CASE Record
  <2>1. /\ Current \in Items
        /\ pc' = "item"
        /\ status' = [status EXCEPT ![Current] = IF verdict THEN "true" ELSE "false"]
        /\ fires' = IF verdict THEN fires ELSE [fires EXCEPT ![Current] = 0]
    BY <1>7 DEF Record, AtItem
  <2>2. \A i \in Items : i # Current => status'[i] = status[i] /\ fires'[i] = fires[i]
    BY <2>1 DEF TypeOK
  <2>3. \/ status'[Current] = "true" /\ fires'[Current] <= 1
        \/ fires'[Current] = 0
    BY <2>1 DEF TypeOK, FireInv
  <2> QED
    BY <2>1, <2>2, <2>3 DEF FireInv, Firing
<1>8. CASE \E c \in Configs : Reload(c) \/ Restart(c)
  <2>1. PICK c \in Configs : Reload(c) \/ Restart(c)
    BY <1>8
  <2>2. pc \notin {"resp", "record"} /\ pc' \notin {"resp", "record"} /\ Load(c)
    BY <2>1 DEF Reload, Restart, worker
  <2>3. \A i \in Items : fires[i] = 0 \/ status[i] = "true"
    BY <2>2 DEF FireInv, Firing
  <2>4. \A i \in Items : \/ fires'[i] = fires[i] /\ status'[i] = status[i]
                         \/ fires'[i] = 0
    BY <2>2 DEF Load
  <2> QED
    BY <2>2, <2>3, <2>4 DEF FireInv, Firing
<1>9. CASE StoreFails \/ Crash
  <2>1. Swallow /\ UNCHANGED status /\ pc' \in {"item", "off"}
    BY <1>9 DEF StoreFails, Crash, durable
  <2>2. ASSUME NEW i \in Items
        PROVE  fires'[i] <= 1 /\ (fires'[i] = 0 \/ status[i] = "true")
    <3>1. CASE i = Current /\ Firing(i) /\ status[i] # "true"
      <4>1. CASE conf.run[Current] = "on_change"
        <5>1. fires[Current] = 1 /\ fires' = [fires EXCEPT ![Current] = fires[Current] - 1]
          BY <2>1, <3>1, <4>1 DEF Swallow, FireInv, Firing
        <5> QED
          BY <3>1, <5>1 DEF TypeOK
      <4>2. CASE conf.run[Current] # "on_change"
        <5>1. fires' = fires
          BY <2>1, <4>2 DEF Swallow
        <5> QED
          BY <3>1, <4>2, <5>1 DEF FireInv
      <4> QED
        BY <4>1, <4>2
    <3>2. CASE ~ (i = Current /\ Firing(i) /\ status[i] # "true")
      <4>1. fires[i] <= 1 /\ (fires[i] = 0 \/ status[i] = "true")
        BY <3>2 DEF FireInv, Firing
      <4>2. fires'[i] <= fires[i] /\ fires'[i] \in Nat
        BY <2>1, SwallowTypes
      <4> QED
        BY <4>1, <4>2 DEF TypeOK
    <3> QED
      BY <3>1, <3>2
  <2> QED
    BY <2>1, <2>2 DEF FireInv, Firing
<1> QED
  BY <1>3, <1>4, <1>5, <1>6, <1>7, <1>8, <1>9 DEF Next, Step

LEMMA RanStep == EngineInv /\ [Next]_vars => RanInv'
<1> SUFFICES ASSUME EngineInv, [Next]_vars
             PROVE  RanInv'
  OBVIOUS
<1>0. /\ TypeOK /\ PlaceInv /\ RanInv
      /\ AtItem => Current \in Items
  BY AtItemTyped DEF EngineInv
<1> USE <1>0
<1>1. ASSUME UNCHANGED <<status, ran>>, pc' # "record"
      PROVE  RanInv'
  BY <1>1 DEF RanInv, RecordedMeansFired
<1>2. CASE \/ StartCycle \/ EndCycle \/ NextItem \/ AbortItem \/ EvalCondition
           \/ AllPassed \/ ResetLater \/ ResetDone \/ MemoryFails \/ StoreFails \/ Crash
           \/ (\E c \in Configs : ReloadFails(c)) \/ (\E i \in Items : RunAction(i))
  <2>1. UNCHANGED <<status, ran>>
    BY <1>2, Zenon DEF StartCycle, EndCycle, NextItem, AbortItem, EvalCondition, AllPassed,
       ResetLater, ResetDone, MemoryFails, StoreFails, Crash, ReloadFails, RunAction,
       durable, history
  <2>2. pc' # "record"
    BY <1>2 DEF StartCycle, EndCycle, NextItem, AbortItem, EvalCondition, AllPassed,
       ResetLater, ResetDone, MemoryFails, StoreFails, Crash, ReloadFails, RunAction, worker
  <2> QED
    BY <2>1, <2>2, <1>1
<1>3. CASE \/ (\E i \in Items : Activate(i) \/ Deactivate(i))
           \/ Abort \/ SkyChanges \/ Tick \/ UNCHANGED vars
  <2>1. UNCHANGED <<status, ran, pc, verdict, pos, conf>>
    BY <1>3, Zenon DEF Activate, Deactivate, Abort, SkyChanges, Tick, vars, worker,
       durable, history
  <2> QED
    BY <2>1 DEF RanInv, RecordedMeansFired, Current
<1>4. CASE Decide
  <2>1. UNCHANGED <<status, ran, verdict, pos, conf>> /\ Current \in Items
    BY <1>4 DEF Decide, durable, AtItem
  <2>2. pc' = "record" /\ verdict => status[Current] = "true"
    BY <1>4 DEF Decide
  <2> QED
    BY <2>1, <2>2 DEF RanInv, RecordedMeansFired, Current
<1>5. CASE Respond
  <2>1. UNCHANGED <<status, verdict, pos, conf>> /\ ran \subseteq ran'
    BY <1>5 DEF Respond, durable
  <2>2. pc' = "record" => Current \in ran'
    BY <1>5 DEF Respond
  <2> QED
    BY <2>1, <2>2 DEF RanInv, RecordedMeansFired, Current
<1>6. CASE Record
  <2>1. /\ pc = "record" /\ pc' = "item" /\ Current \in Items
        /\ status' = [status EXCEPT ![Current] = IF verdict THEN "true" ELSE "false"]
        /\ ran' = IF verdict THEN ran ELSE ran \ {Current}
    BY <1>6 DEF Record, AtItem
  <2> QED
    BY <2>1 DEF RanInv, RecordedMeansFired, TypeOK
<1>7. CASE \E c \in Configs : Reload(c) \/ Restart(c)
  <2>1. PICK c \in Configs : Load(c) /\ pc' # "record"
    BY <1>7 DEF Reload, Restart, worker
  <2> QED
    BY <2>1 DEF Load, RanInv, RecordedMeansFired
<1> QED
  BY <1>2, <1>3, <1>4, <1>5, <1>6, <1>7 DEF Next, Step

-----------------------------------------------------------------------------
(* Timers                                                                  *)

\* The account of one timer.
Counted(i, n) == \/ since[i][n] <= clean[i][n]
                 \/ ResetPending(i, n)
                 \/ <<i, n>> \in torn

\* An edit that leaves a timer to another condition is remembered, and a
\* position it does not touch keeps its condition.
LEMMA EditStep ==
    ASSUME TypeOK, TimerInv, NEW c \in Configs, NEW i \in Items, NEW n \in Index,
           since[i][n] # NotTiming, pc # "reset", conf' = c
    PROVE  \/ <<i, n>> \in torn \cup Inherited(c)
           \/ /\ since[i][n] <= CleanAfter(c)[i][n]
              /\ Timed(i, n) /\ Timed(i, n)'
<1>1. CASE <<i, n>> \in Edited(c)
  BY <1>1 DEF Inherited
<1>2. CASE <<i, n>> \notin Edited(c) /\ <<i, n>> \notin torn
  <2>1. CleanAfter(c)[i][n] = clean[i][n]
    BY <1>2 DEF CleanAfter
  <2>2. since[i][n] <= clean[i][n]
    BY <1>2 DEF TimerInv, TimersNeverOvercount, ResetPending
  <2>3. Timed(i, n)
    BY <1>2 DEF TimerInv
  <2>4. n \in DOMAIN c.conds[i] /\ c.conds[i][n] = Conds(i)[n]
    BY <1>2, <2>3 DEF Edited, Timed
  <2> QED
    BY <2>1, <2>2, <2>3, <2>4 DEF Timed, Conds
<1> QED
  BY <1>1, <1>2

LEMMA TimerStep == EngineInv /\ [Next]_vars => TimerInv'
<1> SUFFICES ASSUME EngineInv, [Next]_vars, NEW i \in Items, NEW n \in Index,
                    (since[i][n] # NotTiming)'
             PROVE  Counted(i, n)' /\ (~ Timed(i, n) => <<i, n>> \in torn)'
  BY DEF TimerInv, TimersNeverOvercount, Counted
<1>0. /\ TypeOK /\ PlaceInv /\ TimerInv
      /\ AtItem => Current \in Items
      /\ since[i][n] # NotTiming =>
            Counted(i, n) /\ (~ Timed(i, n) => <<i, n>> \in torn)
      /\ since[i][n] \in Span \cup {NotTiming} /\ clean[i][n] \in Span
  BY AtItemTyped DEF EngineInv, TimerInv, TimersNeverOvercount, Counted, TypeOK
<1> USE <1>0
<1>1. CASE \/ StartCycle \/ EndCycle \/ NextItem \/ AbortItem \/ AllPassed \/ Decide
           \/ Respond \/ Record \/ (\E j \in Items : RunAction(j))
           \/ (\E j \in Items : Activate(j) \/ Deactivate(j)) \/ Abort \/ SkyChanges
           \/ UNCHANGED vars
  <2>1. UNCHANGED <<since, clean, torn, conf>>
    BY <1>1, Zenon DEF StartCycle, EndCycle, NextItem, AbortItem, AllPassed, Decide,
       Respond, Record, RunAction, Activate, Deactivate, Abort, SkyChanges, vars, worker,
       durable, history
  <2>2. pc # "reset" \/ UNCHANGED <<pc, idx, pos>>
    BY <1>1 DEF StartCycle, EndCycle, NextItem, AbortItem, AllPassed, Decide,
       Respond, Record, RunAction, Activate, Deactivate, Abort, SkyChanges, vars, worker
  <2> QED
    BY <2>1, <2>2 DEF Counted, ResetPending, Timed, Conds, Current
<1>2. CASE EvalCondition
  <2>1. /\ pc = "cond" /\ Current \in Items /\ UNCHANGED <<pos, conf>> /\ idx' = idx + 1
        /\ Passes(Current, idx) \/ pc' = "reset"
        /\ Current' = Current
        /\ Timed(i, n)' = Timed(i, n)
    BY <1>2 DEF EvalCondition, AtItem, Current, Timed, Conds
  <2>2. CASE i = Current /\ n = idx
    <3>1. CASE Timed(i, n) /\ Restarts(i, n)
      <4>1. since'[i][n] = 0
        BY <1>2, <2>2, <3>1 DEF EvalCondition, TypeOK
      <4>2. clean'[i][n] \in {0, clean[i][n]}
        BY <1>2, <2>1, <2>2 DEF EvalCondition, TypeOK
      <4> QED
        BY <2>1, <3>1, <4>1, <4>2, EngineAssumption DEF Counted, Span
    <3>2. CASE ~ (Timed(i, n) /\ Restarts(i, n))
      <4>1. since' = since /\ torn' = torn
        BY <1>2, <2>2, <3>2 DEF EvalCondition
      <4>2. Timed(i, n) => clean'[i][n] = clean[i][n]
        BY <1>2, <2>1, <2>2, <3>2 DEF EvalCondition, TypeOK, Restarts, Index
      <4> QED
        BY <2>1, <4>1, <4>2 DEF Counted, ResetPending
    <3> QED
      BY <3>1, <3>2
  <2>3. CASE ~ (i = Current /\ n = idx)
    <3>1. since'[i][n] = since[i][n]
      BY <1>2, <2>1, <2>3 DEF EvalCondition, TypeOK
    <3>2. <<i, n>> \in torn => <<i, n>> \in torn'
      BY <1>2, <2>3 DEF EvalCondition
    <3>3. clean'[i][n] = clean[i][n] \/ ResetPending(i, n)'
      BY <1>2, <2>1, <2>3 DEF EvalCondition, TypeOK, ResetPending, Index
    <3> QED
      BY <2>1, <3>1, <3>2, <3>3 DEF Counted, ResetPending
  <2> QED
    BY <2>2, <2>3
<1>3. CASE ResetLater
  <2>1. /\ pc = "reset" /\ UNCHANGED <<pc, pos, conf, clean>> /\ Current \in Items
        /\ idx' = idx + 1
        /\ Current' = Current
        /\ Timed(i, n)' = Timed(i, n)
    BY <1>3 DEF ResetLater, AtItem, Current, Timed, Conds
  <2>2. ~ (i = Current /\ n = idx /\ Timed(i, n))
    BY <1>3, <2>1 DEF ResetLater, TypeOK
  <2>3. since'[i][n] = since[i][n] /\ (<<i, n>> \in torn => <<i, n>> \in torn')
    BY <1>3, <2>1, <2>2 DEF ResetLater, TypeOK
  <2>4. ResetPending(i, n) => ResetPending(i, n)' \/ (i = Current /\ n = idx)
    BY <2>1 DEF ResetPending, Index, TypeOK
  <2> QED
    BY <2>1, <2>2, <2>3, <2>4 DEF Counted
<1>4. CASE ResetDone
  <2>1. /\ UNCHANGED <<since, clean, torn, conf>> /\ idx \notin DOMAIN Conds(Current)
        /\ pc = "reset" /\ Timed(i, n)' = Timed(i, n)
    BY <1>4 DEF ResetDone, durable, history, Timed, Conds
  <2>2. ResetPending(i, n) => ~ Timed(i, n)
    <3>1. Current \in Items /\ Conds(Current) \in Seq(Condition)
      BY <2>1, ConfigTypes DEF AtItem, Conds, TypeOK
    <3> QED
      BY <2>1, <3>1 DEF ResetPending, Timed, TypeOK, Index
  <2> QED
    BY <2>1, <2>2 DEF Counted
<1>5. CASE \E c \in Configs : Reload(c) \/ Restart(c)
  <2>1. PICK c \in Configs : Load(c) /\ pc # "reset"
    BY <1>5 DEF Reload, Restart
  <2>2. /\ since'[i][n] = since[i][n]
        /\ \E m \in DOMAIN c.order : i = c.order[m]
    BY <2>1 DEF Load
  <2>3. torn' = (torn \cup Inherited(c)) \cap ({c.order[m] : m \in DOMAIN c.order} \X Index)
    BY <2>1 DEF Load
  <2>4. clean' = CleanAfter(c) /\ conf' = c
    BY <2>1 DEF Load
  <2> QED
    BY <2>1, <2>2, <2>3, <2>4, EditStep DEF Counted
<1>6. CASE \E c \in Configs : ReloadFails(c)
  <2>1. PICK c \in Configs : ReloadFails(c)
    BY <1>6
  <2>2. /\ UNCHANGED since /\ pc # "reset" /\ conf' = c /\ clean' = CleanAfter(c)
        /\ torn' = torn \cup Inherited(c)
    BY <2>1 DEF ReloadFails, durable
  <2> QED
    BY <2>2, EditStep DEF Counted
<1>7. CASE Tick
  <2>1. /\ UNCHANGED <<pc, pos, idx, conf, torn>>
        /\ since'[i][n] = Later(since[i][n])
        /\ since[i][n] # NotTiming => clean'[i][n] = Later(clean[i][n])
    BY <1>7 DEF Tick, worker
  <2>2. since[i][n] # NotTiming
    BY <2>1, LaterTypes
  <2>3. since[i][n] <= clean[i][n] => since'[i][n] <= clean'[i][n]
    BY <2>1, <2>2, LaterTypes
  <2> QED
    BY <2>1, <2>2, <2>3 DEF Counted, ResetPending, Timed, Conds, Current
<1>8. CASE StoreFails \/ Crash
  <2>1. /\ Swallow /\ UNCHANGED <<since, clean, conf>>
        /\ Timed(i, n)' = Timed(i, n)
    BY <1>8 DEF StoreFails, Crash, durable, Timed, Conds
  <2>2. ResetPending(i, n) \/ <<i, n>> \in torn => <<i, n>> \in torn'
    BY <2>1 DEF Swallow, ResetPending
  <2> QED
    BY <2>1, <2>2 DEF Counted
<1>9. CASE MemoryFails
  <2>1. /\ pc = "cond" /\ pc' = "reset" /\ UNCHANGED <<since, conf, pos>>
        /\ idx' = idx + 1
        /\ Current' = Current /\ Current \in Items
        /\ Timed(i, n)' = Timed(i, n)
        /\ torn \subseteq torn'
    BY <1>9 DEF MemoryFails, durable, AtItem, Current, Timed, Conds
  <2>2. CASE i = Current /\ n > idx
    BY <2>1, <2>2 DEF Counted, ResetPending, Index, TypeOK
  <2>3. CASE ~ (i = Current /\ n > idx)
    <3>1. clean'[i][n] = clean[i][n] \/ <<i, n>> \in torn'
      BY <1>9, <2>1, <2>3 DEF MemoryFails, TypeOK
    <3> QED
      BY <2>1, <3>1 DEF Counted, ResetPending
  <2> QED
    BY <2>2, <2>3
<1> QED
  BY <1>1, <1>2, <1>3, <1>4, <1>5, <1>6, <1>7, <1>8, <1>9 DEF Next, Step

-----------------------------------------------------------------------------

THEOREM EngineIsSound == Spec => []EngineInv
<1>1. EngineInv /\ [Next]_vars => EngineInv'
  BY PlaceStep, TypeStep, FireStep, RanStep, TimerStep DEF EngineInv
<1> QED
  BY <1>1, InitEngine, PTL DEF Spec

\* The types, for every checklist and any number of faults.
THEOREM EngineTypeOK == Spec => []TypeOK
<1>1. EngineInv => TypeOK
  BY DEF EngineInv
<1> QED
  BY <1>1, EngineIsSound, PTL

\* What is recorded True has fired.
THEOREM RecordsHaveFired == Spec => []RecordedMeansFired
<1>1. EngineInv => RecordedMeansFired
  BY DEF EngineInv, RanInv
<1> QED
  BY <1>1, EngineIsSound, PTL

\* An on_change item fires once between two records of False.
THEOREM EdgesFireOnce == Spec => []FiresOncePerEdge
<1>1. EngineInv => FiresOncePerEdge
  BY DEF EngineInv, FireInv, FiresOncePerEdge
<1> QED
  BY <1>1, EngineIsSound, PTL

\* No timer credits more time than its comparison may count.
THEOREM TimersCountHonestly == Spec => []TimersNeverOvercount
<1>1. EngineInv => TimersNeverOvercount
  BY DEF EngineInv, TimerInv
<1> QED
  BY <1>1, EngineIsSound, PTL
=============================================================================
