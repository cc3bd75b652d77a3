-------------------------- MODULE SupervisorProofs --------------------------
(***************************************************************************)
(* Proofs about Supervisor.tla for every set of caller threads, items and  *)
(* checklists.                                                             *)
(***************************************************************************)
EXTENDS Supervisor, TLAPS

-----------------------------------------------------------------------------
(* The inductive invariant.                                                *)

\* Whoever is in the middle of a cycle or of a manual run holds the lock, and
\* nobody else does.
LockHeld ==
    /\ work \in {"item", "script", "respond"} <=> owner = Worker
    /\ \A c \in Callers : Driving(c) <=> owner = c

\* The worker decides on a cycle only while none has begun late, and starting
\* the checklist again forgets the late one.
LateCounted ==
    /\ late <= 1
    /\ running /\ ~ shutdown => late = 0
    /\ work = "acquire" => late = 0

SupervisorInv == TypeOK /\ LockHeld /\ LateCounted

-----------------------------------------------------------------------------

(* Types.  The Booleans go apart: Zenon is for them, SMT for the rest.      *)

BooleansOK ==
    /\ running \in BOOLEAN
    /\ trigger \in BOOLEAN
    /\ shutdown \in BOOLEAN
    /\ must_stop \in BOOLEAN
    /\ resolved \in BOOLEAN
    /\ connected \in BOOLEAN
    /\ subscribed \in BOOLEAN

CallsOK == call \in [Callers -> {NoCall} \cup RunCall \cup ReloadCall \cup StopCall]

RestOK ==
    /\ owner \in Callers \cup {Worker, Nobody}
    /\ conf \in Checklists \cup {<<>>}
    /\ files \in Checklists \cup {Broken}
    /\ work \in {"top", "wait", "clear", "check", "acquire", "item", "script",
                 "respond", "exit"}
    /\ n \in Nat \ {0}
    /\ tick \in {"idle", "context", "trigger"}
    /\ stopping \in {"up", "abort", "join", "closed"}
    /\ late \in Nat

LEMMA TypeParts == TypeOK <=> BooleansOK /\ CallsOK /\ RestOK
  BY Zenon DEF TypeOK, BooleansOK, CallsOK, RestOK

LEMMA InitInv == SupervisorAssumption /\ Init => SupervisorInv
<1> SUFFICES ASSUME SupervisorAssumption, Init
             PROVE  SupervisorInv
  OBVIOUS
<1>1. BooleansOK
  BY Zenon DEF Init, BooleansOK
<1>2. CallsOK
  BY DEF Init, CallsOK
<1>3. RestOK
  BY DEF Init, RestOK
<1>4. LockHeld
  BY DEF Init, SupervisorAssumption, LockHeld, Driving, At, NoCall
<1>5. LateCounted
  BY DEF Init, LateCounted
<1> QED
  BY <1>1, <1>2, <1>3, <1>4, <1>5, TypeParts DEF SupervisorInv

LEMMA BooleansStep == BooleansOK /\ [Next]_vars => BooleansOK'
<1> SUFFICES ASSUME BooleansOK, [Next]_vars
             PROVE  BooleansOK'
  OBVIOUS
<1> USE DEF BooleansOK, events, engine, worker, control
<1>1. CASE WorkerStep
  BY <1>1, Zenon DEF WorkerStep, WorkerTop, WorkerWait, WorkerClear, WorkerCheck,
              WorkerBegin, WorkerItem, WorkerRespond, WorkerEnd
<1>2. CASE Control
  BY <1>2, Zenon DEF Control, ControlConnect, ControlContext, ControlTrigger
<1>3. CASE \E c \in Callers : Ask(c)
  BY <1>3, Zenon DEF Ask, RunAsk, HookEvent, ReloadParse, StartChecklist,
              StopChecklist, Wakeup
<1>4. CASE \E c \in Callers : Answer(c)
  BY <1>4, Zenon DEF Answer, RunEnter, Enters, RunRefused, RunDone, ReloadSwap, StopAbort
<1>5. CASE EditFiles \/ Shutdown
  BY <1>5, Zenon DEF EditFiles, Shutdown, ShutdownBegin, ShutdownAbort, ShutdownClose
<1>6. CASE ScriptEnds
  BY <1>6, Zenon DEF ScriptEnds
<1>7. CASE UNCHANGED vars
  BY <1>7, Zenon DEF vars
<1> QED
  BY <1>1, <1>2, <1>3, <1>4, <1>5, <1>6, <1>7, Zenon DEF Next

\* Calls other than the one that steps keep their records, and that one gets
\* the record of its next statement.
LEMMA CallsStep == CallsOK /\ files \in Checklists \cup {Broken} /\ [Next]_vars => CallsOK'
<1> SUFFICES ASSUME CallsOK, files \in Checklists \cup {Broken}, [Next]_vars
             PROVE  CallsOK'
  OBVIOUS
<1> USE DEF CallsOK
<1>1. CASE WorkerStep
  BY <1>1 DEF WorkerStep, WorkerTop, WorkerWait, WorkerClear, WorkerCheck,
              WorkerBegin, WorkerItem, WorkerRespond, WorkerEnd
<1>2. CASE Control
  BY <1>2 DEF Control, ControlConnect, ControlContext, ControlTrigger
<1>3. ASSUME NEW c \in Callers, Ask(c)
      PROVE  CallsOK'
  <2>1. ASSUME NEW i \in Items, RunAsk(c, i) \/ HookEvent(c, i)
        PROVE  CallsOK'
    <3>1. [pc |-> "run_wait", item |-> i] \in RunCall
      BY DEF RunCall
    <3> QED
      BY <2>1, <3>1 DEF RunAsk, HookEvent
  <2>2. CASE ReloadParse(c)
    BY <2>2 DEF ReloadParse, ReloadCall
  <2>3. CASE StartChecklist(c) \/ Wakeup(c)
    BY <2>3 DEF StartChecklist, Wakeup
  <2>4. CASE StopChecklist(c)
    BY <2>4 DEF StopChecklist, StopCall
  <2> QED
    BY <1>3, <2>1, <2>2, <2>3, <2>4 DEF Ask
<1>4. ASSUME NEW c \in Callers, Answer(c)
      PROVE  CallsOK'
  <2>1. ASSUME At(c, "run_wait"), NEW label \in {"run_script", "run_respond"}
        PROVE  [call[c] EXCEPT !.pc = label] \in RunCall
    <3>1. call[c] \in RunCall
      BY <2>1 DEF At, NoCall, RunCall, ReloadCall, StopCall
    <3> QED
      BY <3>1 DEF RunCall
  <2>2. CASE RunEnter(c)
    BY <2>1, <2>2 DEF RunEnter, Enters, Return
  <2>3. CASE RunRefused(c) \/ RunDone(c) \/ StopAbort(c) \/ ReloadSwap(c)
    BY <2>3 DEF RunRefused, RunDone, StopAbort, ReloadSwap, Return
  <2> QED
    BY <1>4, <2>2, <2>3 DEF Answer
<1>5. CASE EditFiles \/ Shutdown
  BY <1>5 DEF EditFiles, Shutdown, ShutdownBegin, ShutdownAbort, ShutdownClose
<1>6. CASE ScriptEnds
  <2>1. CASE UNCHANGED call
    BY <2>1
  <2>2. ASSUME NEW c \in Callers, At(c, "run_script"),
               call' = [call EXCEPT ![c].pc = "run_respond"]
        PROVE  CallsOK'
    <3>1. call[c] \in RunCall
      BY <2>2 DEF At, NoCall, RunCall, ReloadCall, StopCall
    <3>2. [call[c] EXCEPT !.pc = "run_respond"] \in RunCall
      BY <3>1 DEF RunCall
    <3> QED
      BY <2>2, <3>2
  <2> QED
    BY <1>6, <2>1, <2>2 DEF ScriptEnds
<1>7. CASE UNCHANGED vars
  BY <1>7 DEF vars
<1> QED
  BY <1>1, <1>2, <1>3, <1>4, <1>5, <1>6, <1>7 DEF Next

LEMMA RestStep == CallsOK /\ RestOK /\ [Next]_vars => RestOK'
<1> SUFFICES ASSUME CallsOK, RestOK, [Next]_vars
             PROVE  RestOK'
  OBVIOUS
<1> USE DEF RestOK, engine, worker, control
<1>1. CASE WorkerStep
  BY <1>1 DEF WorkerStep, WorkerTop, WorkerWait, WorkerClear, WorkerCheck,
              WorkerBegin, WorkerItem, WorkerRespond, WorkerEnd
<1>2. CASE Control
  BY <1>2 DEF Control, ControlConnect, ControlContext, ControlTrigger
<1>3. CASE \E c \in Callers : Ask(c)
  BY <1>3 DEF Ask, RunAsk, HookEvent, ReloadParse, StartChecklist, StopChecklist,
              Wakeup
<1>4. ASSUME NEW c \in Callers, Answer(c)
      PROVE  RestOK'
  <2>1. CASE RunEnter(c) \/ RunRefused(c) \/ RunDone(c) \/ StopAbort(c)
    BY <2>1 DEF RunEnter, RunRefused, RunDone, StopAbort
  <2>2. CASE ReloadSwap(c)
    <3>1. call[c].items \in Checklists
      BY <2>2 DEF ReloadSwap, At, CallsOK, NoCall, RunCall, ReloadCall, StopCall
    <3> QED
      BY <2>2, <3>1 DEF ReloadSwap
  <2> QED
    BY <1>4, <2>1, <2>2 DEF Answer
<1>5. CASE EditFiles \/ Shutdown
  BY <1>5 DEF EditFiles, Shutdown, ShutdownBegin, ShutdownAbort, ShutdownClose
<1>6. CASE ScriptEnds
  BY <1>6 DEF ScriptEnds
<1>7. CASE UNCHANGED vars
  BY <1>7 DEF vars
<1> QED
  BY <1>1, <1>2, <1>3, <1>4, <1>5, <1>6, <1>7 DEF Next

LEMMA TypeStep == TypeOK /\ [Next]_vars => TypeOK'
<1> SUFFICES ASSUME TypeOK, [Next]_vars
             PROVE  TypeOK'
  OBVIOUS
<1>1. BooleansOK /\ CallsOK /\ RestOK
  BY TypeParts
<1>2. BooleansOK' /\ CallsOK' /\ RestOK'
  BY <1>1, BooleansStep, CallsStep, RestStep DEF RestOK
<1> QED
  BY <1>2, Zenon DEF TypeOK, BooleansOK, CallsOK, RestOK

-----------------------------------------------------------------------------

\* The lock passes from thread to thread only when it is free.
LEMMA LockStep ==
    SupervisorAssumption /\ CallsOK /\ LockHeld /\ [Next]_vars => LockHeld'
<1> SUFFICES ASSUME SupervisorAssumption, CallsOK, LockHeld, [Next]_vars
             PROVE  LockHeld'
  OBVIOUS
<1> USE DEF CallsOK, LockHeld, Driving, At, SupervisorAssumption, events, engine,
            worker, control
<1>1. CASE WorkerStep
  BY <1>1 DEF WorkerStep, WorkerTop, WorkerWait, WorkerClear, WorkerCheck,
              WorkerBegin, WorkerItem, WorkerRespond, WorkerEnd, Free
<1>2. CASE Control
  BY <1>2 DEF Control, ControlConnect, ControlContext, ControlTrigger
<1>3. ASSUME NEW c \in Callers, Ask(c)
      PROVE  LockHeld'
  <2>1. CASE \E i \in Items : RunAsk(c, i) \/ HookEvent(c, i)
    BY <2>1 DEF RunAsk, HookEvent, Idle, NoCall
  <2>2. CASE ReloadParse(c) \/ StopChecklist(c)
    BY <2>2 DEF ReloadParse, StopChecklist, Idle, NoCall
  <2>3. CASE StartChecklist(c) \/ Wakeup(c)
    BY <2>3 DEF StartChecklist, Wakeup
  <2> QED
    BY <1>3, <2>1, <2>2, <2>3 DEF Ask
<1>4. ASSUME NEW c \in Callers, Answer(c)
      PROVE  LockHeld'
  <2>1. CASE RunEnter(c)
    <3>1. owner = Nobody /\ work \notin {"item", "script", "respond"}
      BY <2>1 DEF RunEnter, Free
    <3>2. CASE owner' = c /\ Enters(c)
      BY <2>1, <3>1, <3>2 DEF RunEnter, Enters
    <3>3. CASE Return(c) /\ UNCHANGED owner
      BY <2>1, <3>1, <3>3 DEF RunEnter, Return, NoCall
    <3> QED
      BY <2>1, <3>2, <3>3 DEF RunEnter
  <2>2. CASE RunRefused(c) \/ StopAbort(c) \/ ReloadSwap(c)
    BY <2>2 DEF RunRefused, StopAbort, ReloadSwap, Return, NoCall
  <2>3. CASE RunDone(c)
    BY <2>3 DEF RunDone, Return, NoCall
  <2> QED
    BY <1>4, <2>1, <2>2, <2>3 DEF Answer
<1>5. CASE EditFiles
  BY <1>5 DEF EditFiles
<1>6. CASE Shutdown
  BY <1>6 DEF Shutdown, ShutdownBegin, ShutdownAbort, ShutdownClose
<1>7. CASE ScriptEnds
  <2>1. CASE work = "script" /\ work' = "respond" /\ UNCHANGED call
    BY <1>7, <2>1 DEF ScriptEnds
  <2>2. ASSUME NEW c \in Callers, At(c, "run_script"),
               call' = [call EXCEPT ![c].pc = "run_respond"], UNCHANGED work
        PROVE  LockHeld'
    <3>1. call[c] \in RunCall /\ UNCHANGED owner
      BY <1>7, <2>2 DEF ScriptEnds, NoCall, RunCall, ReloadCall, StopCall
    <3>2. call'[c].pc = "run_respond" /\ \A d \in Callers \ {c} : call'[d] = call[d]
      BY <2>2, <3>1 DEF RunCall
    <3> QED
      BY <2>2, <3>1, <3>2
  <2> QED
    BY <1>7, <2>1, <2>2 DEF ScriptEnds
<1>8. CASE UNCHANGED vars
  BY <1>8 DEF vars
<1> QED
  BY <1>1, <1>2, <1>3, <1>4, <1>5, <1>6, <1>7, <1>8 DEF Next

\* A cycle is decided on only while the checklist runs, and counted when it
\* begins after that has changed.
LEMMA LateStep == RestOK /\ LateCounted /\ [Next]_vars => LateCounted'
<1> SUFFICES ASSUME RestOK, LateCounted, [Next]_vars
             PROVE  LateCounted'
  OBVIOUS
<1> USE DEF RestOK, LateCounted, events, engine, worker, control
<1>1. CASE WorkerStep
  BY <1>1 DEF WorkerStep, WorkerTop, WorkerWait, WorkerClear, WorkerCheck,
              WorkerBegin, WorkerItem, WorkerRespond, WorkerEnd
<1>2. CASE Control
  BY <1>2 DEF Control, ControlConnect, ControlContext, ControlTrigger
<1>3. ASSUME NEW c \in Callers, Ask(c)
      PROVE  LateCounted'
  BY <1>3 DEF Ask, RunAsk, HookEvent, ReloadParse, StartChecklist, StopChecklist,
              Wakeup
<1>4. ASSUME NEW c \in Callers, Answer(c)
      PROVE  LateCounted'
  BY <1>4 DEF Answer, RunEnter, Enters, RunRefused, RunDone, ReloadSwap, StopAbort
<1>5. CASE EditFiles
  BY <1>5 DEF EditFiles
<1>6. CASE Shutdown
  BY <1>6 DEF Shutdown, ShutdownBegin, ShutdownAbort, ShutdownClose
<1>7. CASE ScriptEnds
  BY <1>7 DEF ScriptEnds
<1>8. CASE UNCHANGED vars
  BY <1>8 DEF vars
<1> QED
  BY <1>1, <1>2, <1>3, <1>4, <1>5, <1>6, <1>7, <1>8 DEF Next

LEMMA SupervisorInvariant == SupervisorAssumption => (Spec => []SupervisorInv)
<1> SUFFICES ASSUME SupervisorAssumption
             PROVE  Spec => []SupervisorInv
  OBVIOUS
<1>1. Init => SupervisorInv
  BY InitInv
<1>2. SupervisorInv /\ [Next]_vars => SupervisorInv'
  BY TypeStep, LockStep, LateStep, TypeParts DEF SupervisorInv
<1> QED
  BY <1>1, <1>2, PTL DEF Spec

-----------------------------------------------------------------------------
(* The theorems                                                            *)

\* The variables keep their types.
THEOREM SupervisorTypeOK == SupervisorAssumption => (Spec => []TypeOK)
<1>1. SupervisorInv => TypeOK
  BY DEF SupervisorInv
<1> QED
  BY <1>1, SupervisorInvariant, PTL

\* The cycle lock does its work: however many threads run items, hooks and
\* cycles, the responses of two of them never overlap.
THEOREM InstrumentsHaveOneDriver == SupervisorAssumption => (Spec => []OneDriver)
<1> SUFFICES ASSUME SupervisorAssumption
             PROVE  Spec => []OneDriver
  OBVIOUS
<1>1. SupervisorInv => OneDriver
  BY DEF SupervisorInv, LockHeld, OneDriver, Drivers, Responding
<1> QED
  BY <1>1, SupervisorInvariant, PTL

\* stop and shutdown let through at most the cycle the worker had already
\* decided on, whatever else is called meanwhile.
THEOREM StopLetsOneCycleThrough ==
    SupervisorAssumption => (Spec => []AtMostOneLateCycle)
<1>1. SupervisorInv => AtMostOneLateCycle
  BY DEF SupervisorInv, LateCounted, AtMostOneLateCycle
<1> QED
  BY <1>1, SupervisorInvariant, PTL

\* No reload and no reconnection changes the checklist or the context under a
\* cycle or a manual run.
THEOREM RunsSeeOneChecklist == SupervisorAssumption => (Spec => OneChecklistPerRun)
<1> SUFFICES ASSUME SupervisorAssumption
             PROVE  Spec => OneChecklistPerRun
  OBVIOUS
<1>1. SupervisorInv /\ [Next]_vars =>
          [Drivers # {} \/ work = "item" => UNCHANGED engine]_vars
  <2> SUFFICES ASSUME SupervisorInv, [Next]_vars, Drivers # {} \/ work = "item"
               PROVE  UNCHANGED engine
    OBVIOUS
  <2>1. ~ Free
    BY DEF SupervisorInv, LockHeld, Drivers, Responding, Free, SupervisorAssumption
  <2> USE DEF engine
  <2>2. CASE WorkerStep
    BY <2>2 DEF WorkerStep, WorkerTop, WorkerWait, WorkerClear, WorkerCheck,
                WorkerBegin, WorkerItem, WorkerRespond, WorkerEnd
  <2>3. CASE Control
    BY <2>1, <2>3 DEF Control, ControlConnect, ControlContext, ControlTrigger
  <2>4. CASE \E c \in Callers : Ask(c)
    BY <2>4 DEF Ask, RunAsk, HookEvent, ReloadParse, StartChecklist, StopChecklist,
                Wakeup
  <2>5. CASE \E c \in Callers : Answer(c)
    BY <2>1, <2>5 DEF Answer, RunEnter, Enters, RunRefused, RunDone, ReloadSwap, StopAbort
  <2>6. CASE EditFiles \/ Shutdown
    BY <2>6 DEF EditFiles, Shutdown, ShutdownBegin, ShutdownAbort, ShutdownClose
  <2>7. CASE ScriptEnds
    BY <2>7 DEF ScriptEnds
  <2>8. CASE UNCHANGED vars
    BY <2>8 DEF vars
  <2> QED
    BY <2>2, <2>3, <2>4, <2>5, <2>6, <2>7, <2>8 DEF Next
<1>2. Spec => [][Next]_vars
  BY PTL DEF Spec
<1> QED
  BY <1>1, <1>2, SupervisorInvariant, PTL DEF OneChecklistPerRun
=============================================================================
