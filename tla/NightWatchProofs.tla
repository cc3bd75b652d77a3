-------------------------- MODULE NightWatchProofs --------------------------
(***************************************************************************)
(* Proofs about NightWatch.tla for every set of stations and reports, any  *)
(* thresholds, any span and any number of operator steps and faults.       *)
(***************************************************************************)
EXTENDS NightWatch, TLAPS

-----------------------------------------------------------------------------
(* Where the worker goes                                                   *)

ResponseStep == \/ ResponseRaises \/ SetFlagResponse \/ UnparkResponse
                \/ LockResponse \/ UnlockResponse
                \/ OpenAsk \/ OpenMark \/ OpenMove \/ CloseResponse

LEMMA EngineCases ==
    EngineStep <=> StartCycle \/ CheckCondition \/ ConditionRaises \/ Decide \/ Record
                   \/ ResponseStep
  BY Zenon DEF EngineStep, ResponseStep

Responding == at.part \in {"act", "mark", "move"}

\* A response leads to the next one, out of the item, or on with an open.
LEMMA ResponseMoves ==
    ASSUME ResponseStep
    PROVE  /\ Responding
           /\ \/ \E ok \in BOOLEAN : Proceed(ok)
              \/ Acting /\ Response = OpenSlit /\ at' = [at EXCEPT !.part = "mark"]
              \/ OpenMark /\ at' = [at EXCEPT !.part = "move"]
           /\ UNCHANGED <<sky, status, timer, hands, weather>>
<1>1. CASE ResponseRaises \/ SetFlagResponse \/ UnparkResponse \/ LockResponse
           \/ UnlockResponse \/ CloseResponse
  <2>1. Acting /\ \E ok \in BOOLEAN : Proceed(ok)
    BY <1>1, Zenon DEF ResponseRaises, SetFlagResponse, UnparkResponse, LockResponse,
       UnlockResponse, CloseResponse
  <2>2. UNCHANGED <<sky, status, timer, hands, weather>>
    BY <1>1, Zenon DEF ResponseRaises, SetFlagResponse, UnparkResponse, LockResponse,
       UnlockResponse, CloseResponse, bounds, history
  <2> QED
    BY <2>1, <2>2 DEF Responding, Acting
<1>2. CASE OpenAsk
  <2>1. Acting /\ Response = OpenSlit
        /\ (at' = [at EXCEPT !.part = "mark"] \/ Proceed(FALSE))
    BY <1>2, Zenon DEF OpenAsk
  <2>2. UNCHANGED <<sky, status, timer, hands, weather>>
    BY <1>2, Zenon DEF OpenAsk, history
  <2> QED
    BY <2>1, <2>2, Zenon DEF Responding, Acting
<1>3. CASE OpenMark
  <2>1. at.part = "mark" /\ (at' = [at EXCEPT !.part = "move"] \/ Proceed(FALSE))
    BY <1>3, Zenon DEF OpenMark
  <2>2. UNCHANGED <<sky, status, timer, hands, weather>>
    BY <1>3, Zenon DEF OpenMark
  <2> QED
    BY <1>3, <2>1, <2>2, Zenon DEF Responding
<1>4. CASE OpenMove
  <2>1. at.part = "move" /\ \E ok \in BOOLEAN : Proceed(ok)
    BY <1>4, Zenon DEF OpenMove
  <2>2. UNCHANGED <<sky, status, timer, hands, weather>>
    BY <1>4, Zenon DEF OpenMove
  <2> QED
    BY <2>1, <2>2, Zenon DEF Responding
<1> QED
  BY <1>1, <1>2, <1>3, <1>4 DEF ResponseStep

\* An item is left for its record, or for rest.
Left == \/ at' = Rest
        \/ \E name : at' = Check(name, 1)
        \/ at.item \in Automatic /\ \E part \in {"passed", "failed"} :
               at' = [item |-> at.item, part |-> part, n |-> 0]

LEMMA LeaveLeaves == \A part \in {"passed", "failed"} : Leave(part) => Left
  BY DEF Leave, Left

LEMMA NextItemLeaves == NextItem => Left
<1>1. CASE at.item = Cycle[Len(Cycle)]
  BY <1>1, Zenon DEF NextItem, Left
<1>2. CASE at.item # Cycle[Len(Cycle)]
  BY <1>2, Zenon DEF NextItem, Left
<1> QED
  BY <1>1, <1>2

LEMMA ProceedLeaves ==
    ASSUME NEW ok, Proceed(ok)
    PROVE  \/ at' = Act(at.item, at.n + 1) /\ at.n < Len(Items[at.item].responses)
           \/ Left
<1>1. CASE (ok \/ ~ Items[at.item].abort) /\ at.n < Len(Items[at.item].responses)
  BY <1>1, Zenon DEF Proceed
<1>2. CASE ~ ((ok \/ ~ Items[at.item].abort) /\ at.n < Len(Items[at.item].responses))
  <2>1. Leave("passed")
    BY <1>2, Zenon DEF Proceed
  <2> QED
    BY <2>1, LeaveLeaves
<1> QED
  BY <1>1, <1>2

-----------------------------------------------------------------------------
(* The timer of unlock_humidity never shows more than the dry spell, unless  *)
(* the store failed to restart it, and behind the first condition of the     *)
(* item the spell is a full one.                                             *)

TimerInv ==
    /\ hands \in Nat
    /\ spell \in 0..Span
    /\ timer \in 0..Span \cup {None}
    /\ timer # None => timer <= spell \/ missed

Unlocking == at.item = "unlock_humidity"

\* The key may go: the spell is a full one, or the timer does not know better.
Ripe == spell >= Span \/ missed

CursorInv ==
    /\ at = [item |-> at.item, part |-> at.part, n |-> at.n]
    /\ Unlocking /\ Checking => at.n = 1 \/ (at.n = 2 /\ Ripe)
    /\ Unlocking /\ (Deciding \/ Responding) => Ripe

SpellInv == TimerInv /\ CursorInv

LEMMA UnlockItem ==
    /\ Items.unlock_humidity.conditions = <<Dry, KeyOnDome("humidity", TRUE)>>
    /\ "unlock_humidity" \in Automatic
<1>1. Items.unlock_humidity.conditions = <<Dry, KeyOnDome("humidity", TRUE)>>
  BY DEF Items
<1>2. 3 \in DOMAIN Cycle /\ Cycle[3] = "unlock_humidity"
  BY DEF Cycle
<1> QED
  BY <1>1, <1>2 DEF Automatic

LEMMA DryPass == Passes(Dry) => IsDry /\ timer # None /\ timer >= Span
  BY DEF Passes, Dry

LEMMA InitSpell == WatchAssumption /\ Init => SpellInv
  BY DEF WatchAssumption, Init, SpellInv, TimerInv, CursorInv, Unlocking, Checking,
         Deciding, Responding, Rest

LEMMA TimerStep == WatchAssumption /\ TimerInv /\ [Next]_vars => TimerInv'
<1> SUFFICES ASSUME WatchAssumption, TimerInv, [Next]_vars
             PROVE  TimerInv'
  OBVIOUS
<1> USE DEF TimerInv, WatchAssumption
<1>1. CASE StartCycle \/ Decide \/ Record \/ ResponseStep
  <2>1. UNCHANGED <<hands, weather, timer>>
    BY <1>1, ResponseMoves, Zenon DEF StartCycle, Decide, Record, bounds, history
  <2> QED
    BY <2>1 DEF weather
<1>2. CASE CheckCondition
  <2>1. /\ hands' = hands
        /\ timer' = IF Condition = Dry THEN TimerOfDry ELSE timer
        /\ spell' = IF ReadsWet THEN 0 ELSE spell
        /\ missed' = (missed /\ ~ ReadsWet)
    BY <1>2, Zenon DEF CheckCondition, bounds
  <2>2. CASE ReadsWet
    <3>1. timer' = 0 /\ spell' = 0
      BY <2>1, <2>2 DEF ReadsWet, TimerOfDry
    <3> QED
      BY <2>1, <3>1
  <2>3. CASE ~ ReadsWet
    <3>1. timer' \in {timer, 0}
      BY <2>1 DEF TimerOfDry
    <3>2. spell' = spell /\ (missed => missed')
      BY <2>1, <2>3
    <3> QED
      BY <2>1, <3>1, <3>2
  <2> QED
    BY <2>2, <2>3
<1>3. CASE ConditionRaises
  <2>1. /\ UNCHANGED <<hands, timer>>
        /\ spell' = IF ReadsWet THEN 0 ELSE spell
        /\ missed' = (missed \/ ReadsWet)
    BY <1>3, Zenon DEF ConditionRaises
  <2>2. CASE ReadsWet
    <3>1. missed'
      BY <2>1, <2>2, Zenon
    <3>2. spell' = 0
      BY <2>1, <2>2
    <3> QED
      BY <2>1, <3>1, <3>2
  <2>3. CASE ~ ReadsWet
    BY <2>1, <2>3
  <2> QED
    BY <2>2, <2>3
<1>4. CASE HandStep
  <2>1. UNCHANGED <<weather, timer>> /\ Hand
    BY <1>4, Zenon DEF HandStep, HandLock, HandUnlock, RunAction, history
  <2> QED
    BY <2>1 DEF Hand, weather
<1>5. CASE Tick
  BY <1>5 DEF Tick, bounds
<1>6. CASE (\E s \in StationSet : Observe(s)) \/ UNCHANGED vars
  <2>1. UNCHANGED <<hands, weather, timer>>
    BY <1>6, Zenon DEF Observe, bounds, history, vars
  <2> QED
    BY <2>1 DEF weather
<1> QED
  BY <1>1, <1>2, <1>3, <1>4, <1>5, <1>6, EngineCases DEF Next

LEMMA LeftCursor == Left => CursorInv'
  BY DEF Left, CursorInv, Unlocking, Checking, Deciding, Responding, Rest, Check

\* A pass of the first condition of unlock_humidity means a full spell.
LEMMA CheckCursor == WatchAssumption /\ SpellInv /\ CheckCondition => CursorInv'
<1> SUFFICES ASSUME WatchAssumption, SpellInv, CheckCondition
             PROVE  CursorInv'
  OBVIOUS
<1>1. CASE Leave("failed")
  BY <1>1, LeaveLeaves, LeftCursor
<1>2. CASE ~ Leave("failed")
  <2>1. /\ Checking
        /\ Passes(Condition)
        /\ IF at.n < Len(Items[at.item].conditions)
           THEN at' = [at EXCEPT !.n = @ + 1]
           ELSE at' = [at EXCEPT !.part = "decide"]
        /\ spell' = IF ReadsWet THEN 0 ELSE spell
        /\ missed' = (missed /\ ~ ReadsWet)
    BY <1>2, Zenon DEF CheckCondition
  <2> USE DEF SpellInv, CursorInv
  <2>2. at'.item = at.item /\ at' = [item |-> at'.item, part |-> at'.part, n |-> at'.n]
    BY <2>1
  <2>3. CASE ~ Unlocking
    BY <2>2, <2>3 DEF Unlocking
  <2>4. CASE Unlocking
    <3>1. Ripe /\ ~ ReadsWet
      <4>1. CASE at.n = 1
        <5>1. Condition = Dry
          BY <2>4, <4>1, UnlockItem DEF Condition, Unlocking
        <5>2. IsDry /\ timer # None /\ timer >= Span
          BY <2>1, <5>1, DryPass
        <5> QED
          BY <5>2 DEF TimerInv, WatchAssumption, Ripe, ReadsWet
      <4>2. CASE at.n = 2
        <5>1. Condition # Dry
          BY <2>4, <4>2, UnlockItem DEF Condition, Dry, KeyOnDome, Unlocking
        <5> QED
          BY <2>1, <2>4, <4>2, <5>1 DEF ReadsWet
      <4> QED
        BY <2>1, <2>4, <4>1, <4>2
    <3>2. Ripe'
      BY <2>1, <3>1 DEF Ripe
    <3>3. CASE at' = [at EXCEPT !.part = "decide"]
      BY <2>2, <3>2, <3>3 DEF Checking
    <3>4. CASE at' = [at EXCEPT !.n = @ + 1] /\ at.n < Len(Items[at.item].conditions)
      <4>1. at.n < 2
        <5>1. at.n < Len(Items.unlock_humidity.conditions)
          BY <2>4, <3>4, Zenon DEF Unlocking
        <5> QED
          BY <5>1, UnlockItem
      <4>2. at.n = 1
        BY <2>1, <2>4, <4>1
      <4> QED
        BY <2>1, <2>2, <3>2, <3>4, <4>2 DEF Checking, Deciding, Responding
    <3> QED
      BY <2>1, <3>3, <3>4
  <2> QED
    BY <2>3, <2>4
<1> QED
  BY <1>1, <1>2

\* A step within the decision and the responses of an item.
LEMMA ResponseCursor ==
    ASSUME CursorInv, Deciding \/ Responding, UNCHANGED weather,
           NEW part \in {"act", "mark", "move"}, NEW n,
           at' = [item |-> at.item, part |-> part, n |-> n]
    PROVE  CursorInv'
  BY DEF CursorInv, Unlocking, Checking, Deciding, Responding, Ripe, weather

LEMMA CursorStep == WatchAssumption /\ SpellInv /\ [Next]_vars => CursorInv'
<1> SUFFICES ASSUME WatchAssumption, SpellInv, [Next]_vars
             PROVE  CursorInv'
  OBVIOUS
<1>0. CursorInv
  BY DEF SpellInv
<1>1. CASE StartCycle
  BY <1>1, LeftCursor, Zenon DEF StartCycle, Left
<1>2. CASE CheckCondition
  BY <1>2, CheckCursor
<1>3. CASE ConditionRaises
  BY <1>3, LeaveLeaves, LeftCursor DEF ConditionRaises
<1>4. CASE Decide
  <2>1. /\ Deciding
        /\ UNCHANGED weather
        /\ at' = Act(at.item, 1) \/ Leave("passed") \/ NextItem
    BY <1>4, Zenon DEF Decide, history
  <2> QED
    BY <1>0, <2>1, LeaveLeaves, NextItemLeaves, LeftCursor, ResponseCursor DEF Act
<1>5. CASE Record
  BY <1>5, NextItemLeaves, LeftCursor DEF Record
<1>6. CASE ResponseStep
  <2>1. Responding /\ UNCHANGED weather
    BY <1>6, ResponseMoves
  <2>2. ASSUME NEW ok, Proceed(ok)
        PROVE  CursorInv'
    BY <1>0, <2>1, <2>2, ProceedLeaves, LeftCursor, ResponseCursor DEF Act
  <2>3. ASSUME NEW part \in {"mark", "move"}, at' = [at EXCEPT !.part = part]
        PROVE  CursorInv'
    <3>1. at' = [item |-> at.item, part |-> part, n |-> at.n]
      BY <1>0, <2>3 DEF CursorInv
    <3> QED
      BY <1>0, <2>1, <3>1, ResponseCursor
  <2> QED
    BY <1>6, <2>2, <2>3, ResponseMoves
<1>7. ASSUME NEW name \in Manual, RunAction(name)
      PROVE  CursorInv'
  <2>1. name # "unlock_humidity"
    BY UnlockItem DEF Manual
  <2> QED
    BY <1>7, <2>1 DEF RunAction, CursorInv, Unlocking, Act
<1>8. CASE Tick
  BY <1>8 DEF Tick, CursorInv, Checking, Deciding, Responding, Due, Rest
<1>9. CASE \/ \E k \in Keys : HandLock(k) \/ HandUnlock(k)
           \/ \E s \in StationSet : Observe(s)
           \/ UNCHANGED vars
  <2>1. UNCHANGED <<at, weather>>
    BY <1>9, Zenon DEF HandLock, HandUnlock, Observe, history, vars
  <2> QED
    BY <1>0, <2>1 DEF CursorInv, Unlocking, Checking, Deciding, Responding, Ripe, weather
<1> QED
  BY <1>1, <1>2, <1>3, <1>4, <1>5, <1>6, <1>7, <1>8, <1>9, EngineCases
     DEF Next, HandStep

LEMMA SpellStep == SpellInv /\ [Next]_vars => SpellInv'
  BY TimerStep, CursorStep, WatchAssumption DEF SpellInv

LEMMA KeysChange ==
    ASSUME SpellInv, [Next]_vars, Unlocking, keys' # keys, hands' = hands
    PROVE  Ripe
<1>1. Responding
  <2>1. CASE ResponseStep
    BY <2>1, ResponseMoves
  <2>2. CASE HandStep
    <3>1. hands' = hands + 1
      BY <2>2, Zenon DEF HandStep, HandLock, HandUnlock, RunAction, Hand
    <3> QED
      BY <3>1 DEF SpellInv, TimerInv
  <2>3. CASE \/ StartCycle \/ CheckCondition \/ ConditionRaises \/ Decide \/ Record
             \/ Tick \/ (\E s \in StationSet : Observe(s)) \/ UNCHANGED vars
    <3>1. UNCHANGED board
      BY <2>3, Zenon DEF StartCycle, CheckCondition, ConditionRaises, Decide, Record,
         Tick, Observe, vars
    <3> QED
      BY <3>1 DEF board
  <2> QED
    BY <2>1, <2>2, <2>3, EngineCases DEF Next
<1> QED
  BY <1>1 DEF SpellInv, CursorInv

\* unlock_humidity releases the key only after a full dry spell, unless the store
\* failed to restart its timer on the last high humidity.
THEOREM KeysOutlastTheWet == Spec => ReleaseAfterSpell
<1>1. SpellInv /\ [Next]_vars => SpellInv'
  BY SpellStep
<1>2. Init => SpellInv
  BY InitSpell, WatchAssumption
<1>3. SpellInv /\ [Next]_vars =>
          (at.item = "unlock_humidity" /\ keys' # keys /\ hands' = hands
              => spell >= Span \/ missed)
  BY KeysChange DEF Unlocking, Ripe
<1> QED
  BY <1>1, <1>2, <1>3, PTL DEF Spec, ReleaseAfterSpell

-----------------------------------------------------------------------------
(* The board under every step of the night                                 *)

\* What holds the dome shut: a key on it keeps it LOCK, unless the lock() that
\* put the key raised before it wrote LOCK.
KeysInForce == flag["dome"] # "lock" => keys["dome"] \subseteq torn

BoardInv ==
    /\ flag = [i \in Parts |-> flag[i]]
    /\ keys = [i \in Parts |-> keys[i]]
    /\ KeysInForce

\* Behind the flag that an open has set, a key came later than that flag.
MoveInv == at.part = "move" => keys["dome"] \subseteq overtook \cup torn

\* A step of the night is one call on the board, or half of one, or none.
BoardMove == \/ UNCHANGED <<board, torn>>
             \/ \E i, f : Board!SetFlag(i, f) /\ UNCHANGED torn
             \/ \E k : LockDome(k) \/ LockHalf(k) \/ UnlockDome(k) \/ UnlockHalf(k)

LEMMA MoveKeepsBoard == BoardInv /\ BoardMove => BoardInv'
<1> SUFFICES ASSUME BoardInv, BoardMove
             PROVE  BoardInv'
  OBVIOUS
<1> USE DEF BoardInv, KeysInForce, Parts
<1>1. CASE UNCHANGED <<board, torn>>
  BY <1>1 DEF board
<1>2. ASSUME NEW i, NEW f, Board!SetFlag(i, f), UNCHANGED torn
      PROVE  BoardInv'
  BY <1>2 DEF Board!SetFlag
<1>3. ASSUME NEW k, LockDome(k)
      PROVE  BoardInv'
  BY <1>3 DEF LockDome, Board!Lock
<1>4. ASSUME NEW k, LockHalf(k)
      PROVE  BoardInv'
  BY <1>4 DEF LockHalf
<1>5. ASSUME NEW k, UnlockDome(k)
      PROVE  BoardInv'
  BY <1>5 DEF UnlockDome, Board!Unlock, overtaken
<1>6. ASSUME NEW k, UnlockHalf(k)
      PROVE  BoardInv'
  BY <1>6 DEF UnlockHalf, HasKey, overtaken
<1> QED
  BY <1>1, <1>2, <1>3, <1>4, <1>5, <1>6 DEF BoardMove

LEMMA StepsMoveBoard == [Next]_vars => BoardMove
<1> SUFFICES ASSUME [Next]_vars
             PROVE  BoardMove
  OBVIOUS
<1> USE DEF BoardMove
<1>1. CASE StartCycle \/ CheckCondition \/ ConditionRaises \/ Decide \/ Record
  BY <1>1 DEF StartCycle, CheckCondition, ConditionRaises, Decide, Record, history,
              overtaken
<1>2. CASE ResponseRaises
  BY <1>2 DEF ResponseRaises, overtaken
<1>3. CASE SetFlagResponse \/ UnparkResponse
  BY <1>3 DEF SetFlagResponse, UnparkResponse, board, history, overtaken
<1>4. CASE LockResponse \/ UnlockResponse
  BY <1>4 DEF LockResponse, UnlockResponse, board, overtaken
<1>5. CASE OpenAsk \/ OpenMark \/ OpenMove
  BY <1>5 DEF OpenAsk, OpenMark, OpenMove, board, history, overtaken
<1>6. CASE CloseResponse
  BY <1>6 DEF CloseResponse, board, overtaken
<1>7. CASE HandStep
  BY <1>7 DEF HandStep, HandLock, HandUnlock, RunAction, history, overtaken
<1>8. CASE Tick \/ (\E s \in StationSet : Observe(s)) \/ UNCHANGED vars
  BY <1>8 DEF Tick, Observe, vars, history, overtaken
<1> QED
  BY <1>1, <1>2, <1>3, <1>4, <1>5, <1>6, <1>7, <1>8 DEF Next, EngineStep

\* An open is on the move only once it has flagged the dome.
LEMMA EngineRests ==
    ASSUME SpellInv, EngineStep, at'.part = "move"
    PROVE  OpenMark
<1>0. at = [item |-> at.item, part |-> at.part, n |-> at.n]
  BY DEF SpellInv, CursorInv
<1>1. ~ Left
  BY DEF Left, Rest, Check
<1>2. at' # [at EXCEPT !.part = "mark"] /\ at' # [at EXCEPT !.part = "decide"]
  BY <1>0
<1>3. \A name, n : at' # Act(name, n) /\ at' # Check(name, n)
  BY DEF Act, Check
<1>4. ~ StartCycle
  BY <1>3 DEF StartCycle
<1>5. ~ CheckCondition
  <2>1. SUFFICES ASSUME CheckCondition
                 PROVE  FALSE
    OBVIOUS
  <2>2. Checking /\ at' = [at EXCEPT !.n = @ + 1]
    BY <2>1, <1>1, <1>2, LeaveLeaves, Zenon DEF CheckCondition
  <2> QED
    BY <2>2, <1>0 DEF Checking
<1>6. ~ ConditionRaises /\ ~ Decide /\ ~ Record
  BY <1>1, <1>3, LeaveLeaves, NextItemLeaves, Zenon DEF ConditionRaises, Decide, Record
<1>7. ASSUME ResponseStep
      PROVE  OpenMark
  BY <1>1, <1>2, <1>3, <1>7, ResponseMoves, ProceedLeaves, Zenon
<1> QED
  BY <1>4, <1>5, <1>6, <1>7, EngineCases

LEMMA MoveStep == SpellInv /\ BoardInv /\ MoveInv /\ [Next]_vars => MoveInv'
<1> SUFFICES ASSUME SpellInv, BoardInv, MoveInv, [Next]_vars, at'.part = "move"
             PROVE  keys'["dome"] \subseteq overtook' \cup torn'
  BY DEF MoveInv
<1>1. CASE EngineStep
  <2>1. OpenMark
    BY <1>1, EngineRests
  <2>2. /\ flag["dome"] # "lock"
        /\ Board!SetFlag("dome", "operating")
        /\ UNCHANGED torn
    <3>1. ASSUME Proceed(FALSE)
          PROVE  FALSE
      <4>1. at' = Act(at.item, at.n + 1) \/ Left
        BY <3>1, ProceedLeaves, Zenon
      <4> QED
        BY <4>1 DEF Left, Act, Rest, Check
    <3> QED
      BY <2>1, <3>1, Zenon DEF OpenMark
  <2> QED
    BY <2>2 DEF BoardInv, KeysInForce, Board!SetFlag
<1>2. ASSUME NEW k \in Keys, HandLock(k)
      PROVE  keys'["dome"] \subseteq overtook' \cup torn'
  <2>1. at.part = "move"
    BY <1>2 DEF HandLock
  <2>2. CASE LockDome(k)
    BY <2>1, <2>2 DEF LockDome
  <2>3. CASE LockHalf(k)
    BY <2>1, <2>3 DEF LockHalf, MoveInv, BoardInv, Parts
  <2> QED
    BY <1>2, <2>2, <2>3 DEF HandLock
<1>3. ASSUME NEW k \in Keys, HandUnlock(k)
      PROVE  keys'["dome"] \subseteq overtook' \cup torn'
  <2>1. UNCHANGED <<at, overtaken>>
    BY <1>3, Zenon DEF HandUnlock, UnlockDome, UnlockHalf
  <2>2. keys' = [keys EXCEPT !["dome"] = @ \ {k}]
    BY <1>3, Zenon DEF HandUnlock, UnlockDome, UnlockHalf, Board!Unlock
  <2> QED
    BY <2>1, <2>2 DEF MoveInv, BoardInv, Parts, overtaken
<1>4. ASSUME NEW name, RunAction(name)
      PROVE  FALSE
  BY <1>4 DEF RunAction, Act
<1>5. CASE Tick
  BY <1>5 DEF Tick, Due, Rest
<1>6. CASE (\E s \in StationSet : Observe(s)) \/ UNCHANGED vars
  BY <1>6 DEF Observe, MoveInv, vars, board, history, overtaken
<1> QED
  BY <1>1, <1>2, <1>3, <1>4, <1>5, <1>6 DEF Next, HandStep

HeldInv == SpellInv /\ BoardInv /\ MoveInv

LEMMA InitHeld == Init => HeldInv
<1> SUFFICES ASSUME Init
             PROVE  HeldInv
  OBVIOUS
<1>1. SpellInv
  BY InitSpell, WatchAssumption
<1>2. BoardInv /\ MoveInv
  BY DEF Init, BoardInv, KeysInForce, MoveInv, Parts, Rest
<1> QED
  BY <1>1, <1>2 DEF HeldInv

LEMMA HeldStep == HeldInv /\ [Next]_vars => HeldInv'
  BY SpellStep, MoveKeepsBoard, StepsMoveBoard, MoveStep DEF HeldInv

\* A key on the dome is in force, through every lock, unlock, flag and fault of
\* the night, unless the lock() that put it raised before it wrote LOCK.
THEOREM KeyedIsLocked == Spec => []KeysInForce
<1>1. HeldInv => KeysInForce
  BY DEF HeldInv, BoardInv
<1> QED
  BY <1>1, InitHeld, HeldStep, PTL DEF Spec

LEMMA OpensFree ==
    ASSUME HeldInv, [Next]_vars, ~ slit, slit'
    PROVE  keys["dome"] \subseteq overtook \cup torn
<1>1. CASE OpenMove
  BY <1>1 DEF OpenMove, HeldInv, MoveInv
<1>2. CASE CloseResponse
  <2>1. slit' = FALSE \/ slit
    BY <1>2, Zenon DEF CloseResponse
  <2> QED
    BY <2>1
<1>3. CASE ~ OpenMove /\ ~ CloseResponse
  <2>1. UNCHANGED slit
    BY <1>3, Zenon DEF Next, EngineStep, StartCycle, CheckCondition, ConditionRaises,
       Decide, Record, ResponseRaises, SetFlagResponse, UnparkResponse, LockResponse,
       UnlockResponse, OpenAsk, OpenMark, HandStep, HandLock, HandUnlock, RunAction,
       Tick, Observe, vars
  <2> QED
    BY <2>1
<1> QED
  BY <1>1, <1>2, <1>3

\* Nothing opens the slit under a key but one that was locked behind the flag the
\* running open had set, or whose lock() was torn.
THEOREM KeyedDomeStaysShut == Spec => KeyHoldsDome
<1>1. HeldInv /\ [Next]_vars =>
          (~ slit /\ slit' => keys["dome"] \subseteq overtook \cup torn)
  BY OpensFree
<1> QED
  BY <1>1, InitHeld, HeldStep, PTL DEF Spec, KeyHoldsDome

-----------------------------------------------------------------------------
(* The types                                                               *)

Lists(item) == /\ DOMAIN item.conditions = 1..Len(item.conditions)
               /\ DOMAIN item.responses = 1..Len(item.responses)
               /\ {Len(item.conditions), Len(item.responses)} \subseteq Nat
               /\ Len(item.responses) > 0

\* What a response writes to the board.
Writes(r) == /\ r.do = "set_flag" => r.ins \in Parts /\ r.flag \in Flag
             /\ r.do \in {"lock", "unlock"} => r.key \in Keys

\* Where the worker may be.
PlaceOK == \/ at \in {Rest, Due}
           \/ /\ Checking
              /\ at.item \in Automatic
              /\ at.n \in DOMAIN Items[at.item].conditions
           \/ (Deciding \/ Recording) /\ at.item \in Automatic
           \/ /\ Responding
              /\ at.item \in DOMAIN Items
              /\ at.n \in DOMAIN Items[at.item].responses
              /\ Acting \/ Response = OpenSlit

SkyOK == /\ report \in [StationSet -> Report]
         /\ night \in BOOLEAN
         /\ slit \in BOOLEAN

BoardOK == /\ flag \in [Parts -> Flag]
           /\ keys \in [Parts -> SUBSET Keys]

StatusOK == status \in [Automatic -> BOOLEAN \cup {None}]

CountsOK == /\ hands \in 0..MaxHands
            /\ faults \in 0..MaxFaults

HistoryOK == /\ raised \in BOOLEAN
             /\ byHand \in BOOLEAN
             /\ unwatched \in BOOLEAN
             /\ missed \in BOOLEAN

OvertakenOK == torn \subseteq Keys /\ overtook \subseteq Keys

WatchInv == /\ PlaceOK /\ SkyOK /\ BoardOK /\ StatusOK /\ CountsOK
            /\ HistoryOK /\ OvertakenOK /\ SpellInv

LEMMA AutomaticItems ==
    /\ Automatic = {"open_dome_at_sunset", "close_on_humidity", "unlock_humidity"}
    /\ Cycle \in Seq(Automatic) /\ Len(Cycle) = 3
    /\ DOMAIN Items = Automatic \cup {"open_telescope", "operator_lock", "operator_unlock"}
<1>1. Automatic = {"open_dome_at_sunset", "close_on_humidity", "unlock_humidity"}
  BY DEF Automatic, Cycle
<1>2. Cycle \in Seq(Automatic) /\ Len(Cycle) = 3
  BY <1>1 DEF Cycle
<1> QED
  BY <1>1, <1>2 DEF Items

LEMMA ItemLists ==
    ASSUME NEW name \in DOMAIN Items
    PROVE  /\ Lists(Items[name])
           /\ name \in Automatic => Len(Items[name].conditions) > 0
           /\ \A n \in DOMAIN Items[name].responses : Writes(Items[name].responses[n])
<1> USE AutomaticItems
<1>1. CASE name = "open_dome_at_sunset"
  <2>1. Items[name].conditions = <<NightTime, SlitClosed, FlagIs("site", "ready", TRUE),
                                   FlagIs("dome", "lock", FALSE)>>
    BY <1>1 DEF Items
  <2>2. Items[name].responses = <<SetFlag("site", "ready"), SetFlag("scheduler", "ready"),
                                  Unpark, SetFlag("dome", "ready"), OpenSlit>>
    BY <1>1 DEF Items
  <2>3. Lists(Items[name]) /\ (name \in Automatic => Len(Items[name].conditions) > 0)
    BY <1>1, <2>1, <2>2 DEF Lists
  <2>4. \A n \in DOMAIN Items[name].responses : Writes(Items[name].responses[n])
    BY <2>2 DEF Writes, SetFlag, Lock, Unlock, OpenSlit, CloseSlit, Unpark, Flag, Keys, Parts
  <2> QED
    BY <2>3, <2>4
<1>2. CASE name = "close_on_humidity"
  <2>1. Items[name].conditions = <<Humid, KeyOnDome("humidity", FALSE)>>
    BY <1>2 DEF Items
  <2>2. Items[name].responses = <<CloseSlit, Lock("humidity")>>
    BY <1>2 DEF Items
  <2>3. Lists(Items[name]) /\ (name \in Automatic => Len(Items[name].conditions) > 0)
    BY <1>2, <2>1, <2>2 DEF Lists
  <2>4. \A n \in DOMAIN Items[name].responses : Writes(Items[name].responses[n])
    BY <2>2 DEF Writes, SetFlag, Lock, Unlock, OpenSlit, CloseSlit, Unpark, Flag, Keys, Parts
  <2> QED
    BY <2>3, <2>4
<1>3. CASE name = "unlock_humidity"
  <2>1. Items[name].conditions = <<Dry, KeyOnDome("humidity", TRUE)>>
    BY <1>3 DEF Items
  <2>2. Items[name].responses = <<Unlock("humidity")>>
    BY <1>3 DEF Items
  <2>3. Lists(Items[name]) /\ (name \in Automatic => Len(Items[name].conditions) > 0)
    BY <1>3, <2>1, <2>2 DEF Lists
  <2>4. \A n \in DOMAIN Items[name].responses : Writes(Items[name].responses[n])
    BY <2>2 DEF Writes, SetFlag, Lock, Unlock, OpenSlit, CloseSlit, Unpark, Flag, Keys, Parts
  <2> QED
    BY <2>3, <2>4
<1>4. CASE name = "open_telescope"
  <2>1. Items[name].conditions = <<>>
    BY <1>4 DEF Items
  <2>2. Items[name].responses = <<Unpark, OpenSlit>>
    BY <1>4 DEF Items
  <2>3. Lists(Items[name]) /\ (name \in Automatic => Len(Items[name].conditions) > 0)
    BY <1>4, <2>1, <2>2 DEF Lists
  <2>4. \A n \in DOMAIN Items[name].responses : Writes(Items[name].responses[n])
    BY <2>2 DEF Writes, SetFlag, Lock, Unlock, OpenSlit, CloseSlit, Unpark, Flag, Keys, Parts
  <2> QED
    BY <2>3, <2>4
<1>5. CASE name = "operator_lock"
  <2>1. Items[name].conditions = <<>>
    BY <1>5 DEF Items
  <2>2. Items[name].responses = <<CloseSlit, Lock("operator")>>
    BY <1>5 DEF Items
  <2>3. Lists(Items[name]) /\ (name \in Automatic => Len(Items[name].conditions) > 0)
    BY <1>5, <2>1, <2>2 DEF Lists
  <2>4. \A n \in DOMAIN Items[name].responses : Writes(Items[name].responses[n])
    BY <2>2 DEF Writes, SetFlag, Lock, Unlock, OpenSlit, CloseSlit, Unpark, Flag, Keys, Parts
  <2> QED
    BY <2>3, <2>4
<1>6. CASE name = "operator_unlock"
  <2>1. Items[name].conditions = <<>>
    BY <1>6 DEF Items
  <2>2. Items[name].responses = <<Unlock("operator"), SetFlag("dome", "ready")>>
    BY <1>6 DEF Items
  <2>3. Lists(Items[name]) /\ (name \in Automatic => Len(Items[name].conditions) > 0)
    BY <1>6, <2>1, <2>2 DEF Lists
  <2>4. \A n \in DOMAIN Items[name].responses : Writes(Items[name].responses[n])
    BY <2>2 DEF Writes, SetFlag, Lock, Unlock, OpenSlit, CloseSlit, Unpark, Flag, Keys, Parts
  <2> QED
    BY <2>3, <2>4
<1> QED
  BY <1>1, <1>2, <1>3, <1>4, <1>5, <1>6

LEMMA FirstConditions ==
    ASSUME NEW n \in DOMAIN Cycle
    PROVE  Cycle[n] \in Automatic /\ 1 \in DOMAIN Items[Cycle[n]].conditions
<1>1. Cycle[n] \in Automatic /\ Cycle[n] \in DOMAIN Items
  BY AutomaticItems DEF Automatic
<1> QED
  BY <1>1, ItemLists DEF Lists

\* An item is left for its own record only by the cycle.
LEMMA LeaveTyped == \A part \in {"passed", "failed"} : Leave(part) => PlaceOK'
<1> SUFFICES ASSUME NEW part \in {"passed", "failed"}, Leave(part)
             PROVE  PlaceOK'
  OBVIOUS
<1>1. CASE at.item \in Automatic
  <2>1. at' = [item |-> at.item, part |-> part, n |-> 0]
    BY <1>1, Zenon DEF Leave
  <2> QED
    BY <1>1, <2>1 DEF PlaceOK, Recording
<1>2. CASE at.item \notin Automatic
  BY <1>2, Zenon DEF Leave, PlaceOK
<1> QED
  BY <1>1, <1>2

\* The next item of the cycle.
LEMMA NextItemTyped == at.item \in Automatic /\ NextItem => PlaceOK'
<1> SUFFICES ASSUME at.item \in Automatic, NextItem
             PROVE  PlaceOK'
  OBVIOUS
<1>1. CASE at.item # Cycle[Len(Cycle)]
  <2>1. PICK n : /\ n = CHOOSE m \in DOMAIN Cycle : Cycle[m] = at.item
                 /\ at' = Check(Cycle[n + 1], 1)
    BY <1>1, Zenon DEF NextItem
  <2>2. \E m \in DOMAIN Cycle : Cycle[m] = at.item
    BY DEF Automatic
  <2>3. n \in DOMAIN Cycle /\ Cycle[n] = at.item
    BY <2>1, <2>2, Zenon
  <2>4. n + 1 \in DOMAIN Cycle
    BY <1>1, <2>3, AutomaticItems
  <2> QED
    BY <2>1, <2>4, FirstConditions DEF PlaceOK, Check, Checking
<1>2. CASE at.item = Cycle[Len(Cycle)]
  BY <1>2, Zenon DEF NextItem, PlaceOK
<1> QED
  BY <1>1, <1>2

\* Where a response leads.
LEMMA ResponseTypedPlace ==
    ASSUME PlaceOK, CursorInv, ResponseStep
    PROVE  PlaceOK'
<1>1. /\ at.item \in DOMAIN Items
      /\ at.n \in DOMAIN Items[at.item].responses
  BY ResponseMoves DEF PlaceOK, Responding, Checking, Deciding, Recording, Rest, Due
<1>2. ASSUME NEW ok, Proceed(ok)
      PROVE  PlaceOK'
  <2>1. CASE (ok \/ ~ Items[at.item].abort) /\ at.n < Len(Items[at.item].responses)
    <3>1. at' = Act(at.item, at.n + 1)
      BY <1>2, <2>1, Zenon DEF Proceed
    <3>2. at.n + 1 \in DOMAIN Items[at.item].responses
      BY <1>1, <2>1, ItemLists DEF Lists
    <3> QED
      BY <1>1, <3>1, <3>2 DEF PlaceOK, Act, Acting, Responding
  <2>2. CASE ~ ((ok \/ ~ Items[at.item].abort) /\ at.n < Len(Items[at.item].responses))
    <3>1. Leave("passed")
      BY <1>2, <2>2, Zenon DEF Proceed
    <3> QED
      BY <3>1, LeaveTyped
  <2> QED
    BY <2>1, <2>2
<1>3. ASSUME NEW part \in {"mark", "move"}, at' = [at EXCEPT !.part = part],
             Response = OpenSlit
      PROVE  PlaceOK'
  <2>1. at' = [item |-> at.item, part |-> part, n |-> at.n]
    BY <1>3 DEF CursorInv
  <2>2. Response' = OpenSlit
    BY <1>3, <2>1 DEF Response
  <2> QED
    BY <1>1, <2>1, <2>2 DEF PlaceOK, Responding
<1>4. OpenMark => Response = OpenSlit
  BY DEF OpenMark, PlaceOK, Responding, Acting, Checking, Deciding, Recording, Rest, Due
<1> QED
  BY <1>2, <1>3, <1>4, ResponseMoves

LEMMA PlaceStep == WatchInv /\ [Next]_vars => PlaceOK'
<1> SUFFICES ASSUME WatchInv, [Next]_vars
             PROVE  PlaceOK'
  OBVIOUS
<1>0. PlaceOK /\ CursorInv
  BY DEF WatchInv, SpellInv
<1> USE <1>0
<1>1. CASE StartCycle
  <2>1. 1 \in DOMAIN Cycle
    BY AutomaticItems
  <2> QED
    BY <1>1, <2>1, FirstConditions DEF StartCycle, PlaceOK, Check, Checking
<1>2. CASE CheckCondition
  <2>1. CASE Leave("failed")
    BY <2>1, LeaveTyped
  <2>2. CASE ~ Leave("failed")
    <3>1. /\ Checking
          /\ \/ /\ at.n < Len(Items[at.item].conditions)
                /\ at' = [at EXCEPT !.n = @ + 1]
             \/ at' = [at EXCEPT !.part = "decide"]
      BY <1>2, <2>2, Zenon DEF CheckCondition
    <3>2. /\ at.item \in Automatic /\ at.item \in DOMAIN Items
          /\ at.n \in DOMAIN Items[at.item].conditions
      BY <3>1, AutomaticItems
         DEF PlaceOK, Responding, Checking, Deciding, Recording, Rest, Due
    <3>3. CASE at' = [at EXCEPT !.part = "decide"]
      <4>1. at' = [item |-> at.item, part |-> "decide", n |-> at.n]
        BY <3>3 DEF CursorInv
      <4> QED
        BY <3>2, <4>1 DEF PlaceOK, Deciding
    <3>4. CASE at' = [at EXCEPT !.n = @ + 1] /\ at.n < Len(Items[at.item].conditions)
      <4>1. at.n + 1 \in DOMAIN Items[at.item].conditions
        BY <3>2, <3>4, ItemLists DEF Lists
      <4>2. at' = [item |-> at.item, part |-> at.part, n |-> at.n + 1]
        BY <3>4 DEF CursorInv
      <4> QED
        BY <3>1, <3>2, <4>1, <4>2 DEF PlaceOK, Checking
    <3> QED
      BY <3>1, <3>3, <3>4
  <2> QED
    BY <2>1, <2>2
<1>3. CASE ConditionRaises
  BY <1>3, LeaveTyped DEF ConditionRaises
<1>4. CASE Decide
  <2>1. Deciding /\ (at' = Act(at.item, 1) \/ Leave("passed") \/ NextItem)
    BY <1>4, Zenon DEF Decide
  <2>2. at.item \in Automatic /\ at.item \in DOMAIN Items
    BY <2>1, AutomaticItems
       DEF PlaceOK, Responding, Checking, Deciding, Recording, Rest, Due
  <2>3. 1 \in DOMAIN Items[at.item].responses
    BY <2>2, ItemLists DEF Lists
  <2>4. CASE at' = Act(at.item, 1)
    BY <2>2, <2>3, <2>4 DEF PlaceOK, Act, Acting, Responding
  <2> QED
    BY <2>1, <2>2, <2>4, LeaveTyped, NextItemTyped
<1>5. CASE Record
  <2>1. Recording /\ NextItem
    BY <1>5, Zenon DEF Record
  <2>2. at.item \in Automatic
    BY <2>1 DEF PlaceOK, Responding, Checking, Deciding, Recording, Rest, Due
  <2> QED
    BY <2>1, <2>2, NextItemTyped
<1>6. CASE ResponseStep
  BY <1>6, ResponseTypedPlace
<1>7. ASSUME NEW name \in Manual, RunAction(name)
      PROVE  PlaceOK'
  <2>1. name \in DOMAIN Items /\ 1 \in DOMAIN Items[name].responses
    BY ItemLists DEF Manual, Lists
  <2> QED
    BY <1>7, <2>1 DEF RunAction, PlaceOK, Act, Acting, Responding
<1>8. CASE \/ \E k \in Keys : HandLock(k) \/ HandUnlock(k)
           \/ \E s \in StationSet : Observe(s)
           \/ UNCHANGED vars
  <2>1. UNCHANGED at
    BY <1>8, Zenon DEF HandLock, HandUnlock, Observe, vars
  <2> QED
    BY <2>1 DEF PlaceOK, Acting, Checking, Deciding, Recording, Responding, Response
<1>9. CASE Tick
  BY <1>9 DEF Tick, PlaceOK
<1> QED
  BY <1>1, <1>2, <1>3, <1>4, <1>5, <1>6, <1>7, <1>8, <1>9, EngineCases
     DEF Next, HandStep

\* A step records the status of an automatic item, or none.
LEMMA StatusStep == WatchInv /\ [Next]_vars => StatusOK'
<1> SUFFICES ASSUME WatchInv, [Next]_vars
             PROVE  StatusOK'
  OBVIOUS
<1>1. StatusOK
  BY DEF WatchInv
<1>2. CASE Record
  <2>1. \/ status' = [status EXCEPT ![at.item] = (at.part = "passed")]
        \/ UNCHANGED status
    BY <1>2, Zenon DEF Record
  <2>2. (at.part = "passed") \in BOOLEAN
    OBVIOUS
  <2> QED
    BY <1>1, <2>1, <2>2 DEF StatusOK
<1>3. CASE ~ Record
  <2>1. UNCHANGED status
    BY <1>3, ResponseMoves, EngineCases, Zenon DEF Next, StartCycle, CheckCondition,
       ConditionRaises, Decide, HandStep, HandLock, HandUnlock, RunAction, Tick, Observe,
       vars
  <2> QED
    BY <1>1, <2>1 DEF StatusOK
<1> QED
  BY <1>2, <1>3

\* The response that is next, as the checklist has it.
LEMMA ResponseTyped == PlaceOK /\ Acting => Writes(Response)
<1> SUFFICES ASSUME PlaceOK, Acting
             PROVE  Writes(Response)
  OBVIOUS
<1>1. at.item \in DOMAIN Items /\ at.n \in DOMAIN Items[at.item].responses
  BY DEF PlaceOK, Acting, Checking, Deciding, Recording, Responding, Rest, Due
<1> QED
  BY <1>1, ItemLists DEF Response

\* lock() or unlock() raised behind its first commit.
HalfCall == Fault /\ \E k \in Keys : LockHalf(k) \/ UnlockHalf(k)

\* A step of the night is one call of FlagBoard, with an instrument, a flag and
\* a key that are of the board, or half of one, or it leaves the board alone.
LEMMA StepsCallBoard == WatchInv /\ [Next]_vars => [Board!Next \/ HalfCall]_board
<1> SUFFICES ASSUME WatchInv, [Next]_vars
             PROVE  Board!Next \/ HalfCall \/ UNCHANGED board
  OBVIOUS
<1>0. PlaceOK
  BY DEF WatchInv
<1>1. ASSUME NEW i \in Parts, NEW f \in Flag, Board!SetFlag(i, f)
      PROVE  Board!Next
  BY <1>1 DEF Board!Next
<1>2. ASSUME NEW k \in Keys, LockDome(k) \/ UnlockDome(k)
      PROVE  Board!Next
  BY <1>2 DEF Board!Next, LockDome, UnlockDome, Parts
<1>3. {"ready", "operating", "error"} \subseteq Flag /\ {"dome", "telescope"} \subseteq Parts
  BY DEF Flag, Parts
<1>4. CASE SetFlagResponse
  <2>1. UNCHANGED board \/ Board!SetFlag(Response.ins, Response.flag)
    BY <1>4 DEF SetFlagResponse
  <2>2. Response.ins \in Parts /\ Response.flag \in Flag
    BY <1>0, <1>4, ResponseTyped DEF SetFlagResponse, Writes
  <2> QED
    BY <2>1, <2>2, <1>1
<1>5. CASE LockResponse \/ UnlockResponse
  <2>1. Response.key \in Keys
    BY <1>0, <1>5, ResponseTyped DEF LockResponse, UnlockResponse, Writes
  <2>2. UNCHANGED board \/ LockDome(Response.key) \/ UnlockDome(Response.key)
    BY <1>5, Zenon DEF LockResponse, UnlockResponse
  <2> QED
    BY <2>1, <2>2, <1>2
<1>6. CASE ResponseRaises
  <2>1. /\ Acting
        /\ Fault
        /\ \/ UNCHANGED board
           \/ Response.do = "lock" /\ LockHalf(Response.key)
           \/ Response.do = "unlock" /\ UnlockHalf(Response.key)
    BY <1>6, Zenon DEF ResponseRaises
  <2>2. Response.do \in {"lock", "unlock"} => Response.key \in Keys
    BY <1>0, <2>1, ResponseTyped DEF Writes
  <2> QED
    BY <2>1, <2>2 DEF HalfCall
<1>7. CASE UnparkResponse
  <2>1. \/ Board!SetFlag("telescope", "ready")
        \/ Board!SetFlag("telescope", "error")
        \/ UNCHANGED board
    BY <1>7, Zenon DEF UnparkResponse
  <2> QED
    BY <2>1, <1>1, <1>3
<1>8. CASE OpenAsk \/ OpenMark \/ OpenMove \/ CloseResponse
  <2>1. \/ Board!SetFlag("dome", "ready")
        \/ Board!SetFlag("dome", "operating")
        \/ Board!SetFlag("dome", "error")
        \/ UNCHANGED board
    BY <1>8, Zenon DEF OpenAsk, OpenMark, OpenMove, CloseResponse
  <2> QED
    BY <2>1, <1>1, <1>3
<1>9. CASE HandStep
  <2>1. \/ \E k \in Keys : LockDome(k) \/ UnlockDome(k)
        \/ HalfCall
        \/ UNCHANGED board
    BY <1>9, Zenon DEF HandStep, HandLock, HandUnlock, RunAction, HalfCall
  <2> QED
    BY <2>1, <1>2
<1>10. CASE \/ StartCycle \/ CheckCondition \/ ConditionRaises \/ Decide \/ Record
            \/ Tick \/ (\E s \in StationSet : Observe(s)) \/ UNCHANGED vars
  BY <1>10, Zenon DEF StartCycle, CheckCondition, ConditionRaises, Decide, Record,
     Tick, Observe, vars
<1> QED
  BY <1>4, <1>5, <1>6, <1>7, <1>8, <1>9, <1>10 DEF Next, EngineStep

LEMMA BoardStep == WatchInv /\ [Next]_vars => BoardOK'
<1> SUFFICES ASSUME WatchInv, [Board!Next \/ HalfCall]_board
             PROVE  BoardOK'
  BY StepsCallBoard
<1> USE DEF BoardOK
<1>0. BoardOK
  BY DEF WatchInv
<1>1. ASSUME NEW i, NEW f \in Flag, Board!SetFlag(i, f)
      PROVE  BoardOK'
  BY <1>0, <1>1 DEF Board!SetFlag
<1>2. ASSUME NEW i, NEW k \in Keys, Board!Lock(i, k)
      PROVE  BoardOK'
  BY <1>0, <1>2 DEF Board!Lock, Flag
<1>3. ASSUME NEW i, NEW k, Board!Unlock(i, k)
      PROVE  BoardOK'
  BY <1>0, <1>3 DEF Board!Unlock, Flag
<1>4. ASSUME NEW i, Board!Register(i)
      PROVE  BoardOK'
  BY <1>0, <1>4 DEF Board!Register, Flag
<1>5. CASE HalfCall
  BY <1>0, <1>5 DEF HalfCall, LockHalf, UnlockHalf
<1>6. CASE UNCHANGED board
  BY <1>0, <1>6 DEF board
<1> QED
  BY <1>1, <1>2, <1>3, <1>4, <1>5, <1>6 DEF Board!Next

\* The keys that a lock() has torn or that overtook an open are keys.
LEMMA OvertakenStep == WatchInv /\ [Next]_vars => OvertakenOK'
<1> SUFFICES ASSUME WatchInv, [Next]_vars
             PROVE  OvertakenOK'
  OBVIOUS
<1>0. OvertakenOK /\ PlaceOK
  BY DEF WatchInv
<1>1. keys' \in [Parts -> SUBSET Keys]
  BY BoardStep DEF BoardOK
<1>2. ASSUME NEW k \in Keys, LockDome(k) \/ LockHalf(k)
      PROVE  OvertakenOK'
  BY <1>0, <1>1, <1>2 DEF LockDome, LockHalf, OvertakenOK, Parts
<1>3. CASE UNCHANGED overtaken
  BY <1>0, <1>3 DEF overtaken, OvertakenOK
<1>4. CASE ResponseRaises \/ LockResponse
  <2>1. /\ Acting
        /\ \/ UNCHANGED overtaken
           \/ /\ Response.do = "lock"
              /\ LockDome(Response.key) \/ LockHalf(Response.key)
    BY <1>4, Zenon DEF ResponseRaises, LockResponse, UnlockHalf
  <2>2. Response.do = "lock" => Response.key \in Keys
    BY <1>0, <2>1, ResponseTyped DEF Writes
  <2> QED
    BY <2>1, <2>2, <1>2, <1>3
<1>5. CASE OpenMark \/ OpenMove
  <2>1. torn' = torn /\ overtook' \in {overtook, {}}
    BY <1>5, Zenon DEF OpenMark, OpenMove
  <2> QED
    BY <1>0, <2>1 DEF OvertakenOK
<1>6. CASE HandStep
  <2>1. \/ \E k \in Keys : LockDome(k) \/ LockHalf(k)
        \/ UNCHANGED overtaken
    BY <1>6, Zenon DEF HandStep, HandLock, HandUnlock, UnlockDome, UnlockHalf,
       RunAction, history
  <2> QED
    BY <2>1, <1>2, <1>3
<1>7. CASE \/ StartCycle \/ CheckCondition \/ ConditionRaises \/ Decide \/ Record
           \/ SetFlagResponse \/ UnparkResponse \/ UnlockResponse \/ OpenAsk
           \/ CloseResponse \/ Tick \/ (\E s \in StationSet : Observe(s))
           \/ UNCHANGED vars
  <2>1. UNCHANGED overtaken
    BY <1>7, Zenon DEF StartCycle, CheckCondition, ConditionRaises, Decide, Record,
       SetFlagResponse, UnparkResponse, UnlockResponse, UnlockDome, OpenAsk,
       CloseResponse, Tick, Observe, history, vars
  <2> QED
    BY <2>1, <1>3
<1> QED
  BY <1>4, <1>5, <1>6, <1>7 DEF Next, EngineStep

\* A report is of an age that counts as fresh, or stale.
LEMMA AgedTyped == \A r \in Report : Aged(r) \in Report
<1> SUFFICES ASSUME NEW r \in Report
             PROVE  Aged(r) \in Report
  OBVIOUS
<1>1. CASE r = Stale
  BY <1>1, WatchAssumption DEF Aged, Stale, Report
<1>2. CASE r \in [value : UNION {Humidities[s] : s \in StationSet}, age : 0..MaxAge - 1]
  BY <1>2, WatchAssumption DEF Aged, Report
<1> QED
  BY <1>1, <1>2 DEF Report

LEMMA SkyStep == WatchInv /\ [Next]_vars => SkyOK'
<1> SUFFICES ASSUME WatchInv, [Next]_vars
             PROVE  SkyOK'
  OBVIOUS
<1>0. SkyOK
  BY DEF WatchInv
<1> USE <1>0 DEF SkyOK
<1>1. CASE Tick
  <2>1. /\ report' = [s \in StationSet |-> Aged(report[s])]
        /\ night' \in BOOLEAN
        /\ slit' = slit
    BY <1>1, Zenon DEF Tick
  <2>2. report' \in [StationSet -> Report]
    BY <2>1, AgedTyped
  <2> QED
    BY <2>1, <2>2, Zenon
<1>2. ASSUME NEW s \in StationSet, Observe(s)
      PROVE  SkyOK'
  <2>1. PICK v \in Humidities[s] : report' = [report EXCEPT ![s] = [value |-> v, age |-> 0]]
    BY <1>2 DEF Observe
  <2>2. [value |-> v, age |-> 0] \in Report
    BY WatchAssumption DEF Report
  <2>3. report' \in [StationSet -> Report]
    BY <2>1, <2>2
  <2>4. UNCHANGED <<night, slit>>
    BY <1>2, Zenon DEF Observe
  <2> QED
    BY <2>3, <2>4, Zenon
<1>3. CASE OpenMove \/ CloseResponse
  <2>1. UNCHANGED sky
    BY <1>3, Zenon DEF OpenMove, CloseResponse
  <2>2. slit' \in {slit, TRUE, FALSE}
    BY <1>3, Zenon DEF OpenMove, CloseResponse
  <2> QED
    BY <2>1, <2>2, Zenon DEF sky
<1>4. CASE \/ StartCycle \/ CheckCondition \/ ConditionRaises \/ Decide \/ Record
           \/ ResponseRaises \/ SetFlagResponse \/ UnparkResponse \/ LockResponse
           \/ UnlockResponse \/ OpenAsk \/ OpenMark \/ HandStep \/ UNCHANGED vars
  <2>1. UNCHANGED <<sky, slit>>
    BY <1>4, Zenon DEF StartCycle, CheckCondition, ConditionRaises, Decide, Record,
       ResponseRaises, SetFlagResponse, UnparkResponse, LockResponse, UnlockResponse,
       OpenAsk, OpenMark, HandStep, HandLock, HandUnlock, RunAction, vars
  <2> QED
    BY <2>1, Zenon DEF sky
<1> QED
  BY <1>1, <1>2, <1>3, <1>4 DEF Next, EngineStep

LEMMA CountStep == WatchInv /\ [Next]_vars => CountsOK'
<1> SUFFICES ASSUME WatchInv, [Next]_vars
             PROVE  CountsOK'
  OBVIOUS
<1>1. CountsOK
  BY DEF WatchInv
<1>2. hands' = hands \/ Hand
  BY Zenon DEF Next, EngineStep, StartCycle, CheckCondition, ConditionRaises, Decide,
     Record, ResponseRaises, SetFlagResponse, UnparkResponse, LockResponse,
     UnlockResponse, OpenAsk, OpenMark, OpenMove, CloseResponse, HandStep, HandLock,
     HandUnlock, RunAction, Tick, Observe, bounds, vars
<1>3. faults' = faults \/ Fault
  BY Zenon DEF Next, EngineStep, StartCycle, CheckCondition, ConditionRaises, Decide,
     Record, ResponseRaises, SetFlagResponse, UnparkResponse, LockResponse,
     UnlockResponse, OpenAsk, OpenMark, OpenMove, CloseResponse, HandStep, HandLock,
     HandUnlock, RunAction, Tick, Observe, bounds, vars
<1> QED
  BY <1>1, <1>2, <1>3, WatchAssumption DEF CountsOK, Hand, Fault

LEMMA HistoryStep == WatchInv /\ [Next]_vars => HistoryOK'
<1> SUFFICES ASSUME WatchInv, [Next]_vars
             PROVE  HistoryOK'
  OBVIOUS
<1>0. raised \in BOOLEAN /\ byHand \in BOOLEAN /\ unwatched \in BOOLEAN /\ missed \in BOOLEAN
  BY DEF WatchInv, HistoryOK
<1> USE <1>0
<1>1. CASE \/ StartCycle \/ Decide \/ SetFlagResponse \/ UnparkResponse \/ OpenAsk
           \/ Tick \/ (\E s \in StationSet : Observe(s))
           \/ (\E name \in Manual : RunAction(name))
           \/ UNCHANGED vars
  <2>1. UNCHANGED <<raised, byHand, unwatched, missed>>
    BY <1>1, Zenon DEF StartCycle, Decide, SetFlagResponse, UnparkResponse, OpenAsk,
       Tick, Observe, RunAction, history, weather, vars
  <2> QED
    BY <2>1, Zenon DEF HistoryOK
<1>2. CASE CheckCondition \/ ConditionRaises
  BY <1>2, Zenon DEF CheckCondition, ConditionRaises, HistoryOK
<1>3. CASE Record
  BY <1>3, Zenon DEF Record, weather, HistoryOK
<1>4. CASE ResponseRaises
  BY <1>4, Zenon DEF ResponseRaises, Dropped, weather, HistoryOK
<1>5. CASE LockResponse \/ UnlockResponse
  BY <1>5, Zenon DEF LockResponse, UnlockResponse, Dropped, weather, HistoryOK
<1>6. CASE OpenMark \/ OpenMove \/ CloseResponse
  BY <1>6, Zenon DEF OpenMark, OpenMove, CloseResponse, weather, HistoryOK
<1>7. CASE \E k \in Keys : HandLock(k) \/ HandUnlock(k)
  BY <1>7, Zenon DEF HandLock, HandUnlock, Dropped, weather, HistoryOK
<1> QED
  BY <1>1, <1>2, <1>3, <1>4, <1>5, <1>6, <1>7 DEF Next, EngineStep, HandStep

LEMMA InitWatch == Init => WatchInv
<1> SUFFICES ASSUME Init
             PROVE  WatchInv
  OBVIOUS
<1>1. SpellInv
  BY InitSpell, WatchAssumption
<1>2. PlaceOK
  BY DEF Init, PlaceOK
<1>3. SkyOK
  <2>1. report \in [StationSet -> Report]
    BY DEF Init, Report
  <2> QED
    BY <2>1, Zenon DEF Init, SkyOK
<1>4. BoardOK
  BY DEF Init, BoardOK, Parts, Flag
<1>5. StatusOK
  BY DEF Init, StatusOK
<1>6. CountsOK
  BY WatchAssumption DEF Init, CountsOK
<1>7. HistoryOK
  BY Zenon DEF Init, HistoryOK
<1>8. OvertakenOK
  BY DEF Init, OvertakenOK
<1> QED
  BY <1>1, <1>2, <1>3, <1>4, <1>5, <1>6, <1>7, <1>8 DEF WatchInv

LEMMA WatchStep == WatchInv /\ [Next]_vars => WatchInv'
<1> SUFFICES ASSUME WatchInv, [Next]_vars
             PROVE  WatchInv'
  OBVIOUS
<1>1. SpellInv'
  BY SpellStep DEF WatchInv
<1> QED
  BY <1>1, PlaceStep, StatusStep, BoardStep, SkyStep, CountStep, HistoryStep,
     OvertakenStep DEF WatchInv

\* Every step of a condition, a response, an operator, a station and the clock
\* is a call of the atomic board or leaves it alone, unless lock() or unlock()
\* raises half-way: but for those, what is proved of FlagBoard holds of the board
\* through the night.
THEOREM NightCallsBoard == Spec => [][Board!Next \/ HalfCall]_board
  BY WatchStep, StepsCallBoard, InitWatch, PTL DEF Spec

\* The types of the night: the reports are fresh or stale, the worker is at a
\* condition or response that exists, what is written is a flag or a key.
THEOREM WatchTypeOK == Spec => []TypeOK
<1>1. WatchInv => TypeOK
  <2> SUFFICES ASSUME WatchInv
               PROVE  TypeOK
    OBVIOUS
  <2>1. \/ at \in {Rest, Due}
        \/ /\ Checking
           /\ at.item \in Automatic
           /\ at.n \in DOMAIN Items[at.item].conditions
        \/ Deciding /\ at.item \in Automatic
        \/ Recording /\ at.item \in Automatic
        \/ Acting /\ at.n \in DOMAIN Items[at.item].responses
        \/ at.part \in {"mark", "move"} /\ Response = OpenSlit
    BY DEF WatchInv, PlaceOK, Responding, Acting
  <2>2. {raised, byHand, unwatched, missed} \subseteq BOOLEAN
    BY Zenon DEF WatchInv, HistoryOK
  <2>3. spell \in 0..Span /\ timer \in 0..Span \cup {None}
    BY DEF WatchInv, SpellInv, TimerInv
  <2>4. {torn, overtook} \subseteq SUBSET Keys
    BY DEF WatchInv, OvertakenOK
  <2> QED
    BY <2>1, <2>2, <2>3, <2>4, Zenon
       DEF TypeOK, WatchInv, SkyOK, BoardOK, StatusOK, CountsOK
<1> QED
  BY <1>1, WatchStep, InitWatch, PTL DEF Spec
=============================================================================
