----------------------------- MODULE Supervisor -----------------------------
(***************************************************************************)
(* The threads of controllers/supervisor.py around the checklist engine:   *)
(* the engine worker, the control loop of chimera that triggers it, the    *)
(* calls that arrive on the Telegram and bus threads, the threads of the   *)
(* event hooks, and the shutdown.  They share one trigger event, one abort *)
(* event, the _running flag and the lock that a cycle, a manual run, a     *)
(* reload and the first control tick hold.  What an item evaluates to is   *)
(* left open here; Engine.tla models it.                                   *)
(***************************************************************************)
EXTENDS Naturals, Sequences

CONSTANTS
    Callers,        \* threads of operator calls and of event hooks
    Items,          \* item names
    Hooks,          \* items that chimera events run
    Checklists,     \* what the checklist directory may hold
    Broken,         \* a directory that does not parse
    Worker,         \* the engine worker, as an owner of the cycle lock
    Nobody          \* the cycle lock is free

ASSUME SupervisorAssumption ==
    /\ Hooks \subseteq Items
    /\ Checklists \subseteq Seq(Items)
    /\ Checklists # {}
    /\ Broken \notin Checklists
    /\ Worker # Nobody
    /\ Worker \notin Callers
    /\ Nobody \notin Callers

VARIABLES
    running,    \* _running: automatic cycles are wanted
    trigger,    \* _trigger: a cycle was asked for
    shutdown,   \* _shutdown
    must_stop,  \* the engine's abort event
    owner,      \* who holds _cycle_lock
    conf,       \* engine.items
    resolved,   \* engine.ctx: whether its roles resolved to proxies
    files,      \* what the checklist directory holds
    work,       \* statement of the worker
    n,          \* its item of the cycle
    call,       \* what each caller is doing
    tick,       \* statement of the control loop
    connected,  \* _events_connected
    subscribed, \* whether the instruments' events reach us
    stopping,   \* statement of __stop__
    late        \* history: cycles begun since the checklist was last stopped

events == <<running, trigger, shutdown, must_stop>>
engine == <<conf, resolved>>
worker == <<work, n>>
control == <<tick, connected, subscribed>>
vars == <<events, owner, engine, files, worker, call, control, stopping, late>>

-----------------------------------------------------------------------------

Loaded == {conf[m] : m \in DOMAIN conf}
Free == owner = Nobody

NoCall == [pc |-> "idle"]
RunCall == [pc : {"run_wait", "run_script", "run_respond"}, item : Items]
ReloadCall == [pc : {"reload_lock"}, items : Checklists]
StopCall == [pc : {"stop_abort"}]

Idle(c) == call[c] = NoCall
At(c, label) == call[c].pc = label
Return(c) == call' = [call EXCEPT ![c] = NoCall]

\* This thread is in the middle of responses: it commands instruments, or waits
\* for a foreground script, which may never let go of its output.
Driving(c) == call[c].pc \in {"run_script", "run_respond"}
Responding == work \in {"script", "respond"}
Drivers == {c \in Callers : Driving(c)} \cup (IF Responding THEN {Worker} ELSE {})

-----------------------------------------------------------------------------
(* _work_loop and the engine cycle inside it                               *)

\* Mutant: the loop does not look at the shutdown.
WorkerTopForever ==
    /\ work = "top"
    /\ work' = "wait"
    /\ UNCHANGED <<events, owner, engine, files, n, call, control, stopping, late>>

WorkerTop ==
    /\ work = "top"
    /\ work' = IF shutdown THEN "exit" ELSE "wait"
    /\ UNCHANGED <<events, owner, engine, files, n, call, control, stopping, late>>

\* The wait ends after a second without a trigger.
WorkerWait ==
    /\ work = "wait"
    /\ work' = IF trigger THEN "clear" ELSE "top"
    /\ UNCHANGED <<events, owner, engine, files, n, call, control, stopping, late>>

WorkerClear ==
    /\ work = "clear"
    /\ trigger' = FALSE
    /\ work' = "check"
    /\ UNCHANGED <<running, shutdown, must_stop, owner, engine, files, n, call,
                   control, stopping, late>>

\* Mutant: _running is not looked at.
WorkerCheckAnyway ==
    /\ work = "check"
    /\ work' = IF ~ shutdown THEN "acquire" ELSE "top"
    /\ UNCHANGED <<events, owner, engine, files, n, call, control, stopping, late>>

WorkerCheck ==
    /\ work = "check"
    /\ work' = IF running /\ ~ shutdown THEN "acquire" ELSE "top"
    /\ UNCHANGED <<events, owner, engine, files, n, call, control, stopping, late>>

\* run_cycle starts by forgetting any abort that came before it.
WorkerBegin ==
    /\ work = "acquire"
    /\ Free
    /\ owner' = Worker
    /\ must_stop' = FALSE
    /\ work' = "item"
    /\ n' = 1
    /\ late' = IF running /\ ~ shutdown THEN late ELSE late + 1
    /\ UNCHANGED <<running, trigger, shutdown, engine, files, call, control, stopping>>

\* An item is skipped, or fails, or fires its responses; one of these may be a
\* script that is waited for without a timeout.
WorkerItem ==
    /\ work = "item"
    /\ n <= Len(conf)
    /\ ~ must_stop
    /\ \/ work' \in {"script", "respond"} /\ UNCHANGED n
       \/ n' = n + 1 /\ UNCHANGED work
    /\ UNCHANGED <<events, owner, engine, files, call, control, stopping, late>>

\* The responses of an item are not interrupted by an abort.
WorkerRespond ==
    /\ work = "respond"
    /\ work' = "item"
    /\ n' = n + 1
    /\ UNCHANGED <<events, owner, engine, files, call, control, stopping, late>>

\* Mutant: the trigger is cleared after the cycle.
WorkerEndClearing ==
    /\ work = "item"
    /\ n > Len(conf) \/ must_stop
    /\ owner' = Nobody
    /\ trigger' = FALSE
    /\ work' = "top"
    /\ n' = 1
    /\ UNCHANGED <<running, shutdown, must_stop, engine, files, call, control,
                   stopping, late>>

WorkerEnd ==
    /\ work = "item"
    /\ n > Len(conf) \/ must_stop
    /\ owner' = Nobody
    /\ work' = "top"
    /\ n' = 1
    /\ UNCHANGED <<events, engine, files, call, control, stopping, late>>

\* A script that was waited for lets go of its output; nothing makes it.
ScriptEnds ==
    /\ \/ work = "script" /\ work' = "respond" /\ UNCHANGED call
       \/ \E c \in Callers :
             /\ At(c, "run_script")
             /\ call' = [call EXCEPT ![c].pc = "run_respond"]
             /\ UNCHANGED work
    /\ UNCHANGED <<events, owner, engine, files, n, control, stopping, late>>

-----------------------------------------------------------------------------
(* control: the first tick subscribes to the events and rebuilds the       *)
(* context, now that the bus serves; every tick asks for a cycle.          *)

\* A subscription that fails is logged and not tried again.
ControlConnect ==
    /\ tick = "idle"
    /\ ~ connected
    /\ connected' = TRUE
    /\ subscribed' \in BOOLEAN
    /\ tick' = "context"
    /\ UNCHANGED <<events, owner, engine, files, worker, call, stopping, late>>

ControlContext ==
    /\ tick = "context"
    /\ Free
    /\ resolved' \in BOOLEAN
    /\ tick' = "trigger"
    /\ UNCHANGED <<events, owner, conf, files, worker, call, connected, subscribed,
                   stopping, late>>

ControlTrigger ==
    /\ \/ tick = "trigger"
       \/ tick = "idle" /\ connected
    /\ trigger' = TRUE
    /\ tick' = "idle"
    /\ UNCHANGED <<running, shutdown, must_stop, owner, engine, files, worker, call,
                   connected, subscribed, stopping, late>>

-----------------------------------------------------------------------------
(* run_action, by an operator or by the thread of an event hook            *)

RunAsk(c, i) ==
    /\ Idle(c)
    /\ call' = [call EXCEPT ![c] = [pc |-> "run_wait", item |-> i]]
    /\ UNCHANGED <<events, owner, engine, files, worker, control, stopping, late>>

\* An event whose hook item is defined starts a thread of its own.
HookEvent(c, i) ==
    /\ Idle(c)
    /\ subscribed
    /\ i \in Hooks \cap Loaded
    /\ call' = [call EXCEPT ![c] = [pc |-> "run_wait", item |-> i]]
    /\ UNCHANGED <<events, owner, engine, files, worker, control, stopping, late>>

\* The responses of the item begin, with a script or without.
Enters(c) == \E label \in {"run_script", "run_respond"} :
                call' = [call EXCEPT ![c].pc = label]

\* Mutant: the answer of acquire() is not looked at.
RunEnterUnlocked(c) ==
    /\ At(c, "run_wait")
    /\ call[c].item \in Loaded
    /\ owner' = c
    /\ Enters(c)
    /\ UNCHANGED <<events, engine, files, worker, control, stopping, late>>

\* An item that is not loaded (any more) is refused.
RunEnter(c) ==
    /\ At(c, "run_wait")
    /\ Free
    /\ IF call[c].item \in Loaded
       THEN owner' = c /\ Enters(c)
       ELSE Return(c) /\ UNCHANGED owner
    /\ UNCHANGED <<events, engine, files, worker, control, stopping, late>>

\* Mutant: the lock is waited for as long as it takes.
RunWaitsOn(c) == At(c, "run_wait") /\ ~ Free /\ UNCHANGED vars

\* The cycle was busy for 30 seconds: the call answers False.
RunRefused(c) ==
    /\ At(c, "run_wait")
    /\ ~ Free
    /\ Return(c)
    /\ UNCHANGED <<events, owner, engine, files, worker, control, stopping, late>>

RunDone(c) ==
    /\ At(c, "run_respond")
    /\ owner' = Nobody
    /\ Return(c)
    /\ UNCHANGED <<events, engine, files, worker, control, stopping, late>>

-----------------------------------------------------------------------------
(* The other operator calls                                                *)

\* reload_checklist reads and parses the files without the lock.
ReloadParse(c) ==
    /\ Idle(c)
    /\ files # Broken
    /\ call' = [call EXCEPT ![c] = [pc |-> "reload_lock", items |-> files]]
    /\ UNCHANGED <<events, owner, engine, files, worker, control, stopping, late>>

\* Mutant: the swap does not wait for the cycle.
ReloadSwapUnlocked(c) ==
    /\ At(c, "reload_lock")
    /\ conf' = call[c].items
    /\ resolved' \in BOOLEAN
    /\ Return(c)
    /\ UNCHANGED <<events, owner, files, worker, control, stopping, late>>

ReloadSwap(c) ==
    /\ At(c, "reload_lock")
    /\ Free
    /\ conf' = call[c].items
    /\ resolved' \in BOOLEAN
    /\ Return(c)
    /\ UNCHANGED <<events, owner, files, worker, control, stopping, late>>

StartChecklist(c) ==
    /\ Idle(c)
    /\ running' = TRUE
    /\ late' = 0
    /\ UNCHANGED <<trigger, shutdown, must_stop, owner, engine, files, worker, call,
                   control, stopping>>

StopChecklist(c) ==
    /\ Idle(c)
    /\ running' = FALSE
    /\ call' = [call EXCEPT ![c] = [pc |-> "stop_abort"]]
    /\ UNCHANGED <<trigger, shutdown, must_stop, owner, engine, files, worker,
                   control, stopping, late>>

StopAbort(c) ==
    /\ At(c, "stop_abort")
    /\ must_stop' = TRUE
    /\ Return(c)
    /\ UNCHANGED <<running, trigger, shutdown, owner, engine, files, worker, control,
                   stopping, late>>

Wakeup(c) ==
    /\ Idle(c)
    /\ trigger' = TRUE
    /\ UNCHANGED <<running, shutdown, must_stop, owner, engine, files, worker, call,
                   control, stopping, late>>

EditFiles ==
    /\ files' \in Checklists \cup {Broken}
    /\ UNCHANGED <<events, owner, engine, worker, call, control, stopping, late>>

-----------------------------------------------------------------------------
(* __stop__                                                                *)

ShutdownBegin ==
    /\ stopping = "up"
    /\ shutdown' = TRUE
    /\ stopping' = "abort"
    /\ UNCHANGED <<running, trigger, must_stop, owner, engine, files, worker, call,
                   control, late>>

ShutdownAbort ==
    /\ stopping = "abort"
    /\ must_stop' = TRUE
    /\ trigger' = TRUE
    /\ stopping' = "join"
    /\ UNCHANGED <<running, shutdown, owner, engine, files, worker, call, control,
                   late>>

\* The join gives up after five seconds; the store closes in either case.
ShutdownClose ==
    /\ stopping = "join"
    /\ stopping' = "closed"
    /\ UNCHANGED <<events, owner, engine, files, worker, call, control, late>>

-----------------------------------------------------------------------------

\* The state that __start__ leaves: the bus does not serve yet, so no role of
\* the first context resolves; a directory that does not parse loads nothing.
Init ==
    /\ running = TRUE
    /\ trigger = FALSE
    /\ shutdown = FALSE
    /\ must_stop = FALSE
    /\ owner = Nobody
    /\ files \in Checklists \cup {Broken}
    /\ conf = IF files = Broken THEN <<>> ELSE files
    /\ resolved = FALSE
    /\ work = "top"
    /\ n = 1
    /\ call = [c \in Callers |-> NoCall]
    /\ tick = "idle"
    /\ connected = FALSE
    /\ subscribed = FALSE
    /\ stopping = "up"
    /\ late = 0

WorkerStep == \/ WorkerTop
              \/ WorkerWait
              \/ WorkerClear
              \/ WorkerCheck
              \/ WorkerBegin
              \/ WorkerItem
              \/ WorkerRespond
              \/ WorkerEnd

Control == ControlConnect \/ ControlContext \/ ControlTrigger

Ask(c) == \/ \E i \in Items : RunAsk(c, i) \/ HookEvent(c, i)
          \/ ReloadParse(c)
          \/ StartChecklist(c)
          \/ StopChecklist(c)
          \/ Wakeup(c)

\* The steps that finish a call.
Answer(c) == \/ RunEnter(c)
             \/ RunRefused(c)
             \/ RunDone(c)
             \/ ReloadSwap(c)
             \/ StopAbort(c)

Shutdown == ShutdownBegin \/ ShutdownAbort \/ ShutdownClose

Next == \/ WorkerStep
        \/ ScriptEnds
        \/ Control
        \/ \E c \in Callers : Ask(c) \/ Answer(c)
        \/ EditFiles
        \/ Shutdown

Spec == Init /\ [][Next]_vars

\* Every thread runs, every command to an instrument comes back (proxies time
\* out), and whoever waits for a lock that is free again and again gets it.  A
\* script that has outlived its timeout need never end.
Fairness == /\ WF_vars(WorkerStep)
            /\ SF_vars(WorkerBegin)
            /\ \A c \in Callers : SF_vars(Answer(c))
            /\ WF_vars(ShutdownAbort)
            /\ WF_vars(ShutdownClose)

FairSpec == Spec /\ Fairness

-----------------------------------------------------------------------------
(* Properties                                                              *)

TypeOK ==
    /\ running \in BOOLEAN
    /\ trigger \in BOOLEAN
    /\ shutdown \in BOOLEAN
    /\ must_stop \in BOOLEAN
    /\ owner \in Callers \cup {Worker, Nobody}
    /\ conf \in Checklists \cup {<<>>}
    /\ resolved \in BOOLEAN
    /\ files \in Checklists \cup {Broken}
    /\ work \in {"top", "wait", "clear", "check", "acquire", "item", "script",
                 "respond", "exit"}
    /\ n \in Nat \ {0}
    /\ call \in [Callers -> {NoCall} \cup RunCall \cup ReloadCall \cup StopCall]
    /\ tick \in {"idle", "context", "trigger"}
    /\ connected \in BOOLEAN
    /\ subscribed \in BOOLEAN
    /\ stopping \in {"up", "abort", "join", "closed"}
    /\ late \in Nat

\* Two threads never run responses at the same time: a manual run and a hook
\* never drive the instruments that a cycle is driving.
OneDriver == \A c, d \in Drivers : c = d

\* From its first item to its last a cycle sees one checklist and one context,
\* whatever is reloaded or reconnected meanwhile; so does a manual run.
OneChecklistPerRun ==
    [][Drivers # {} \/ work = "item" => UNCHANGED engine]_vars

\* Once the checklist is stopped or the process shuts down, the worker begins
\* at most the one cycle it had already decided on.
AtMostOneLateCycle == late <= 1

\* A script waits for its output under the cycle lock; what happens if none
\* does so for ever.
HeldByScript == work = "script" \/ \E c \in Callers : At(c, "run_script")
ScriptsLetGo == []<>(~ HeldByScript)

\* A cycle that is asked for while the checklist runs begins, also when it is
\* asked for in the middle of another one; only a script in the cycle that
\* waits for ever stands against it.
NoLostTrigger ==
    []<>(work # "script") => (trigger ~> (work = "acquire" \/ ~ running \/ shutdown))

\* A shutdown ends the worker, whatever it was waiting for, other than a script
\* that waits for ever.
ShutdownEndsWorker == ScriptsLetGo => (shutdown ~> (work = "exit"))

\* A manual run or a hook comes to its item or back with a refusal, also while
\* a script of the cycle or of another run holds the lock for ever.  No call
\* waits for ever behind the cycle or behind another call, unless such a script
\* does: a reload has no timeout, and waits as long.
CallsReturn ==
    \A c \in Callers :
        /\ At(c, "run_wait") ~> (Driving(c) \/ Idle(c))
        /\ ScriptsLetGo => (~ Idle(c) ~> Idle(c))
=============================================================================
