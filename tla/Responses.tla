----------------------------- MODULE Responses -----------------------------
(***************************************************************************)
(* The responses of core/actions.py over the flag board of StateStore.tla. *)
(* A response is a short program of three kinds of steps: read a flag, set *)
(* a flag (two statements of the store), command a device.  The thread     *)
(* that holds the cycle lock runs one response at a time; between any two  *)
(* of its steps operators lock and unlock and event handlers write flags,  *)
(* and each step may raise.                                                *)
(***************************************************************************)
EXTENDS Flags, Naturals, Sequences

CONSTANTS
    Runner,         \* the thread that holds the cycle lock
    Operators,      \* threads of lock and unlock calls
    Handlers,       \* threads of chimera event handlers
    Instruments,    \* names on the flag board
    Keys,           \* lock keys
    Plans,          \* what may be going on, see Plan
    Domes, Telescopes, Schedulers, Robots,  \* how many the context has of each
    MaxFaults       \* bound: statements of the store that fail

VARIABLES
    plan,       \* what goes on in this behaviour
    flag, active, call, phase, todo, raced, held,   \* of StateStore
    on,         \* devices: open, unparked, tracking, running, loaded, switched on
    resp,       \* the response that runs, the device and the step it is at
    event,      \* flags each event handler has yet to write
    faults,     \* statements that failed
    barred,     \* history: instruments not operational since the response began
    locked,     \* history: instruments LOCK since the response began
    tried,      \* history: devices the response has commanded
    raised,     \* history: devices whose command raised
    unsure,     \* history: robots whose last command raised, or never came
    hurt        \* history: a statement of the response failed

Threads == {Runner} \cup Operators \cup Handlers

Store == INSTANCE StateStore WITH Configured <- Instruments, Volatile <- {},
                                  Settable <- Flag, MayCrash <- FALSE

store == <<flag, active, call, phase, todo, raced, held>>
control == <<on, resp, event, faults, tried, raised, hurt>>
vars == <<plan, store, control, barred, locked, unsure>>

\* The parts of the domes and of the telescopes, the robobs controllers, the
\* schedulers, their queue of programs, and the fan or lamp of a response.
Count == [slit |-> Domes, flap |-> Domes, tracker |-> Domes,
          mount |-> Telescopes, cover |-> Telescopes, drive |-> Telescopes,
          robot |-> Robots, queue |-> Schedulers, program |-> 1, switch |-> 1]

\* All devices of a kind, as a set and in the order of the context.
All(kind) == {kind} \X (1..Count[kind])
Each(kind) == [n \in 1..Count[kind] |-> <<kind, n>>]

Devices == UNION {All(kind) : kind \in DOMAIN Count}

Response == {"open_slit", "close_slit", "open_flap", "close_flap", "track", "stand",
             "unpark", "park", "open_cover", "close_cover", "stop_tracking", "slew",
             "switch_on", "switch_off", "configure_scheduler", "start_scheduler",
             "stop_scheduler", "start_robobs", "stop_robobs", "stop_all"}

Event == {"slew_begin", "tracking_stopped", "park_complete", "unpark_complete",
          "scheduler_busy", "scheduler_idle", "scheduler_error"}

\* The responses that run, the flags that set_flag responses write, the
\* instruments that lock and unlock responses name, those that operators lock,
\* and the events that arrive.  The plan with everything in it has the
\* behaviours of all others.
Plan == [runnable : SUBSET Response, written : SUBSET (Instruments \X Flag),
         keyed : SUBSET Instruments, lockable : SUBSET Instruments,
         events : SUBSET Event]

\* The checklists leave the robobs flag to the responses of the robots.
ASSUME ResponsesAssumption ==
    /\ Runner \notin Operators \cup Handlers
    /\ Operators \cap Handlers = {}
    /\ {"dome", "site", "telescope", "robobs", "scheduler"} \subseteq Instruments
    /\ Plans \subseteq Plan
    /\ \A p \in Plans : <<"robobs", "ready">> \notin p.written
    /\ Domes \in Nat /\ Telescopes \in Nat /\ Schedulers \in Nat /\ Robots \in Nat
    /\ MaxFaults \in Nat

Operational == {"ready", "operating"}

-----------------------------------------------------------------------------
(* Steps.  orelse is what follows when the step is refused or raises:      *)
(*   fail    the response raises                                           *)
(*   return  it ends quietly                                               *)
(*   next    it goes on with the next step, skip with the one behind that  *)
(*   error   it sets the instrument's flag ERROR if it can, and raises     *)

Read(i, flags, orelse) ==
    [op |-> "read", ins |-> i, flags |-> flags, orelse |-> orelse]

\* A LOCK refuses the flag; any other exception of the store breaks the call.
Set(i, f, refused, broken) ==
    [op |-> "set", ins |-> i, flag |-> f, orelse |-> refused, broken |-> broken]

\* To the device that the response is at.
Command(i, to, orelse) ==
    [op |-> "command", ins |-> i, to |-> to, orelse |-> orelse]

\* Mutant: the site's flag is not looked at.
MayOpenAnySite(i) == Read(i, IF i = "site" THEN Flag ELSE Operational, "fail")

\* One of the two reads of can_open.
MayOpen(i) == Read(i, Operational, "fail")

GuardedOpen(i) == <<MayOpen(i), MayOpen("site"),
                    Set(i, "operating", "fail", "error"), Command(i, TRUE, "fail")>>

\* Mutant: a close that cannot write the flag gives up.
GuardedCloseOrFail(i) ==
    <<Read(i, {"operating"}, "skip"), Set(i, "ready", "fail", "fail"),
      Command(i, FALSE, "error")>>

\* Closing is attempted whatever the board says.
GuardedClose(i) ==
    <<Read(i, {"operating"}, "skip"), Set(i, "ready", "next", "next"),
      Command(i, FALSE, "error")>>

Unpark == <<Read("telescope", Flag \ {"error"}, "fail"),
            Command("telescope", TRUE, "error"),
            Set("telescope", "ready", "error", "error")>>

Park == <<Command("telescope", FALSE, "error"),
          Set("telescope", "close", "error", "error")>>

\* Mutant: only the dome's lock is looked at.
NotLockedDome(i) == Read(i, IF i = "site" THEN Flag ELSE Flag \ {"lock"}, "return")

\* robobs: start looks for locks of the dome and of the site.
NotLocked(i) == Read(i, Flag \ {"lock"}, "return")

StartRobot == <<NotLocked("dome"), NotLocked("site"),
                Set("robobs", "operating", "fail", "fail"),
                Command("robobs", TRUE, "error")>>

\* Mutant: the flag precedes the stop.
StopRobotFlagFirst == <<Set("robobs", "ready", "fail", "fail"),
                        Command("robobs", FALSE, "fail")>>

StopRobot == <<Command("robobs", FALSE, "fail"),
               Set("robobs", "ready", "fail", "fail")>>

\* configure_scheduler: the file is parsed before the queue is replaced, in one
\* transaction.
Configure == <<Command("scheduler", TRUE, "error"),
               Set("scheduler", "ready", "fail", "fail")>>

\* A fan or a lamp.
Switch(to) == <<Command("switch", to, "fail")>>

\* A flag that is written outside of the loops over the devices.
FlagOf(i) == <<"flag", i>>

\* Where a response goes, in order.
Places(r) ==
    CASE r \in {"open_slit", "close_slit"}        -> Each("slit")
      [] r \in {"open_flap", "close_flap"}        -> Each("flap")
      [] r \in {"track", "stand"}                 -> Each("tracker")
      [] r \in {"unpark", "park"}                 -> Each("mount")
      [] r \in {"open_cover", "close_cover"}      -> Each("cover")
      [] r \in {"stop_tracking", "slew"}          -> Each("drive")
      [] r \in {"switch_on", "switch_off"}        -> Each("switch")
      [] r = "configure_scheduler"                -> Each("program")
      [] r = "start_scheduler"                    -> <<FlagOf("scheduler")>> \o Each("queue")
      [] r = "stop_scheduler"                     -> Each("queue")
      [] r \in {"start_robobs", "stop_robobs"}    -> Each("robot")
      [] r = "stop_all" ->
            <<FlagOf("scheduler")>> \o Each("robot")
            \o (IF Robots = 0 THEN <<>> ELSE <<FlagOf("robobs")>>)
            \o Each("queue") \o Each("drive")

\* Mutant: one try around the loop over the robots.
StopAllOneTry(p) ==
    CASE p = FlagOf("scheduler") -> <<Set("scheduler", "close", "next", "next")>>
      [] p = FlagOf("robobs")    -> <<Set("robobs", "ready", "next", "next")>>
      [] p[1] = "robot"          -> <<Command("robobs", FALSE, "fail")>>
      [] p[1] = "queue"          -> <<Command("scheduler", FALSE, "next")>>
      [] p[1] = "drive"          -> <<Command("telescope", FALSE, "next")>>

\* Never raises: every step is tried.
StopAll(p) ==
    CASE p = FlagOf("scheduler") -> <<Set("scheduler", "close", "next", "next")>>
      [] p = FlagOf("robobs")    -> <<Set("robobs", "ready", "next", "next")>>
      [] p[1] = "robot"          -> <<Command("robobs", FALSE, "next")>>
      [] p[1] = "queue"          -> <<Command("scheduler", FALSE, "next")>>
      [] p[1] = "drive"          -> <<Command("telescope", FALSE, "next")>>

\* What it does there.
Steps(r, p) ==
    CASE r \in {"open_slit", "open_flap"}     -> GuardedOpen("dome")
      [] r = "close_slit"                     -> GuardedClose("dome")
      [] r \in {"close_flap", "stand"}        -> <<Command("dome", FALSE, "fail")>>
      [] r = "track"                          -> <<Command("dome", TRUE, "fail")>>
      [] r = "unpark"                         -> Unpark
      [] r = "park"                           -> Park
      [] r = "open_cover" -> <<MayOpen("telescope"), MayOpen("site"),
                               Command("telescope", TRUE, "fail")>>
      [] r \in {"close_cover", "stop_tracking"} -> <<Command("telescope", FALSE, "fail")>>
      [] r = "slew"                           -> <<Command("telescope", TRUE, "fail")>>
      [] r = "switch_on"                      -> Switch(TRUE)
      [] r = "switch_off"                     -> Switch(FALSE)
      [] r = "configure_scheduler"            -> Configure
      [] r = "start_scheduler" ->
            IF p = FlagOf("scheduler")
            THEN <<Set("scheduler", "operating", "fail", "fail")>>
            ELSE <<Command("scheduler", TRUE, "fail")>>
      [] r = "stop_scheduler"                 -> <<Command("scheduler", FALSE, "fail")>>
      [] r = "start_robobs"                   -> StartRobot
      [] r = "stop_robobs"                    -> StopRobot
      [] r = "stop_all"                       -> StopAll(p)

\* The flags that the handler of an event writes, one call after the other.
Write(i, f) == [ins |-> i, flag |-> f]
HandlerWrites(e) ==
    CASE e = "slew_begin"       -> <<Write("telescope", "operating")>>
      [] e = "tracking_stopped" -> <<Write("telescope", "ready")>>
      [] e = "park_complete"    -> <<Write("telescope", "close"), Write("dome", "close")>>
      [] e = "unpark_complete"  -> <<Write("telescope", "ready"), Write("dome", "ready")>>
      [] e = "scheduler_busy"   -> <<Write("scheduler", "operating")>>
      [] e = "scheduler_idle"   -> <<Write("scheduler", "ready")>>
      [] e = "scheduler_error"  -> <<Write("scheduler", "error")>>

-----------------------------------------------------------------------------
(* The runner                                                              *)

NoResp == [name |-> "none", k |-> 0, n |-> 0, mark |-> FALSE]
GoTo(k, n) == [name |-> resp.name, k |-> k, n |-> n, mark |-> FALSE]
Mark == [name |-> resp.name, k |-> resp.k, n |-> resp.n, mark |-> TRUE]

Here == Places(resp.name)[resp.k]
Step == Steps(resp.name, Here)[resp.n]

\* The runner is between two calls of the store, at a step of this kind.
AtStep(op) == /\ resp # NoResp
              /\ ~ resp.mark
              /\ Step.op = op
              /\ call[Runner] = Store!NoCall

\* Mutant: the loop runs one step too far.
AfterOneMore(m) ==
    IF resp.n + m <= Len(Steps(resp.name, Here)) + 1 THEN GoTo(resp.k, resp.n + m)
    ELSE IF resp.k < Len(Places(resp.name)) THEN GoTo(resp.k + 1, 1)
    ELSE NoResp

\* The m-th step from here, the first one of the next device, or the end.
After(m) ==
    IF resp.n + m <= Len(Steps(resp.name, Here)) THEN GoTo(resp.k, resp.n + m)
    ELSE IF resp.k < Len(Places(resp.name)) THEN GoTo(resp.k + 1, 1)
    ELSE NoResp

Otherwise(how) == CASE how = "next"  -> After(1)
                    [] how = "skip"  -> After(2)
                    [] how = "error" -> Mark
                    [] how \in {"fail", "return"} -> NoResp

\* The engine, or a manual run, executes a response.
Execute(r) ==
    /\ resp = NoResp
    /\ call[Runner] = Store!NoCall
    /\ Places(r) # <<>>
    /\ resp' = [name |-> r, k |-> 1, n |-> 1, mark |-> FALSE]
    /\ tried' = {}
    /\ raised' = {}
    /\ hurt' = FALSE
    /\ UNCHANGED <<store, on, event, faults>>

ReadStep ==
    /\ AtStep("read")
    /\ resp' = IF ReadFlag(flag[Step.ins]) \in Step.flags THEN After(1)
               ELSE Otherwise(Step.orelse)
    /\ UNCHANGED <<store, on, event, faults, tried, raised, hurt>>

\* get_flag raises: only a close goes on.
ReadBreaks ==
    /\ AtStep("read")
    /\ faults < MaxFaults
    /\ faults' = faults + 1
    /\ hurt' = TRUE
    /\ resp' = IF Step.orelse = "skip" THEN After(2) ELSE NoResp
    /\ UNCHANGED <<store, on, event, tried, raised>>

\* The flag the runner is about to set: that of the step, or ERROR.
Setting == AtStep("set") \/ (resp.mark /\ call[Runner] = Store!NoCall)
Wanted == IF resp.mark THEN "error" ELSE Step.flag

SetBegin ==
    /\ Setting
    /\ Store!SetFlagRead(Runner, Step.ins, Wanted)
    /\ UNCHANGED control

SetRefused ==
    /\ Setting
    /\ flag[Step.ins] = "lock"
    /\ Wanted # "lock"
    /\ resp' = IF resp.mark THEN NoResp ELSE Otherwise(Step.orelse)
    /\ UNCHANGED <<store, on, event, faults, tried, raised, hurt>>

\* A statement of the call fails: nothing is written.
SetBreaks ==
    /\ Setting
    /\ faults < MaxFaults
    /\ faults' = faults + 1
    /\ hurt' = TRUE
    /\ resp' = IF resp.mark THEN NoResp ELSE Otherwise(Step.broken)
    /\ UNCHANGED <<store, on, event, tried, raised>>

SetEnd ==
    /\ resp # NoResp
    /\ Store!SetFlagWrite(Runner)
    /\ resp' = IF resp.mark THEN NoResp ELSE After(1)
    /\ UNCHANGED <<on, event, faults, tried, raised, hurt>>

\* A device obeys, or raises; a command whose answer was lost has taken effect.
\* A fan or a lamp may answer that it did not: the operators are told.
CommandStep ==
    /\ AtStep("command")
    /\ \E answered, done \in BOOLEAN :
          /\ answered => done \/ Here[1] = "switch"
          /\ on' = IF done THEN [on EXCEPT ![Here] = Step.to] ELSE on
          /\ resp' = IF answered THEN After(1) ELSE Otherwise(Step.orelse)
          /\ raised' = IF answered THEN raised ELSE raised \cup {Here}
    /\ tried' = tried \cup {Here}
    /\ UNCHANGED <<store, event, faults, hurt>>

\* A call of lock or unlock, statement by statement.
KeyCall(t, locks) ==
    \/ \E i \in locks, k \in Keys : Store!LockKey(t, i, k) \/ Store!UnlockRead(t, i, k)
    \/ Store!LockFlag(t)
    \/ Store!UnlockCheck(t)
    \/ Store!UnlockDrop(t)
    \/ Store!UnlockRest(t)
    \/ Store!UnlockClose(t)

\* The set_flag, lock and unlock responses: one call of the store each, which
\* may be refused.
BoardResponse ==
    /\ resp = NoResp
    /\ \/ \E w \in plan.written : Store!SetFlagRead(Runner, w[1], w[2])
       \/ Store!SetFlagWrite(Runner)
       \/ KeyCall(Runner, plan.keyed)
    /\ UNCHANGED control

-----------------------------------------------------------------------------
(* The other threads                                                       *)

OperatorStep(o) == KeyCall(o, plan.lockable) /\ UNCHANGED control

EventArrives(h, e) ==
    /\ event[h] = <<>>
    /\ event' = [event EXCEPT ![h] = HandlerWrites(e)]
    /\ UNCHANGED <<store, on, resp, faults, tried, raised, hurt>>

EventSets(h) ==
    /\ event[h] # <<>>
    /\ Store!SetFlagRead(h, Head(event[h]).ins, Head(event[h]).flag)
    /\ UNCHANGED control

\* _set_flag_safe: a refused flag is logged.
EventRefused(h) ==
    /\ event[h] # <<>>
    /\ call[h] = Store!NoCall
    /\ flag[Head(event[h]).ins] = "lock"
    /\ event' = [event EXCEPT ![h] = Tail(@)]
    /\ UNCHANGED <<store, on, resp, faults, tried, raised, hurt>>

EventWritten(h) ==
    /\ Store!SetFlagWrite(h)
    /\ event' = [event EXCEPT ![h] = Tail(@)]
    /\ UNCHANGED <<on, resp, faults, tried, raised, hurt>>

\* A robot or a scheduler that runs points the telescope.
Observe(d) ==
    /\ \E r \in All("robot") \cup All("queue") : on[r]
    /\ on' = [on EXCEPT ![d] = TRUE]
    /\ UNCHANGED <<store, resp, event, faults, tried, raised, hurt>>

-----------------------------------------------------------------------------

\* The board of a first boot, with everything closed, parked and stopped.
Init ==
    /\ plan \in Plans
    /\ flag = [i \in Instruments |-> "unset"]
    /\ active = [i \in Instruments |-> {}]
    /\ call = [t \in Threads |-> Store!NoCall]
    /\ phase = "up"
    /\ todo = {}
    /\ raced = {}
    /\ held = [i \in Instruments |-> {}]
    /\ on = [d \in Devices |-> FALSE]
    /\ resp = NoResp
    /\ event = [h \in Handlers |-> <<>>]
    /\ faults = 0
    /\ barred = {}
    /\ locked = {}
    /\ tried = {}
    /\ raised = {}
    /\ unsure = {}
    /\ hurt = FALSE

RunnerStep == \/ \E r \in plan.runnable : Execute(r)
              \/ ReadStep
              \/ ReadBreaks
              \/ SetBegin
              \/ SetRefused
              \/ SetBreaks
              \/ SetEnd
              \/ CommandStep
              \/ BoardResponse

HandlerStep(h) == \/ \E e \in plan.events : EventArrives(h, e)
                  \/ EventSets(h)
                  \/ EventRefused(h)
                  \/ EventWritten(h)

Ends(r) == resp.name = r /\ resp' = NoResp

\* Which instruments have been out of operation, and locked, in every state
\* since the response began; and the robots of which the board cannot know: a
\* command raised, or stop_robobs ended at another robot before it came to them.
Since(S) == IF resp = NoResp THEN Instruments ELSE S
Remember ==
    /\ barred' = {i \in Since(barred) : flag'[i] \notin Operational}
    /\ locked' = {i \in Since(locked) : flag'[i] = "lock"}
    /\ unsure' = {r \in All("robot") :
                      \/ r \in unsure \ (tried' \ tried)
                      \/ r \in raised' \ raised
                      \/ Ends("stop_robobs") /\ r \notin tried'}

Next ==
    /\ \/ RunnerStep
       \/ \E o \in Operators : OperatorStep(o)
       \/ \E h \in Handlers : HandlerStep(h)
       \/ \E d \in All("drive") : Observe(d)
    /\ Remember
    /\ UNCHANGED plan

Spec == Init /\ [][Next]_vars

-----------------------------------------------------------------------------
(* Properties                                                              *)

TypeOK ==
    /\ plan \in Plans
    /\ flag \in [Instruments -> Flag]
    /\ active \in [Instruments -> SUBSET Keys]
    /\ on \in [Devices -> BOOLEAN]
    /\ \/ resp = NoResp
       \/ /\ resp \in [name : plan.runnable, k : Nat, n : Nat, mark : BOOLEAN]
          /\ resp.k \in DOMAIN Places(resp.name)
          /\ resp.n \in DOMAIN Steps(resp.name, Here)
    /\ event \in [Handlers -> Seq([ins : Instruments, flag : Flag])]
    /\ \A h \in Handlers : Len(event[h]) <= 2
    /\ faults \in 0..MaxFaults
    /\ barred \cup locked \subseteq Instruments
    /\ tried \cup raised \cup unsure \subseteq Devices
    /\ hurt \in BOOLEAN

\* The runner switches d on: opens it, unparks it, starts it.
Starts(d) == ~ on[d] /\ on'[d]

\* A dome part or a cover never opens in a response all through which its
\* instrument or the site was out of operation, whatever else is written,
\* fails or races meanwhile.
BarredStaysShut ==
    [][/\ \A d \in All("slit") \cup All("flap") :
             Starts(d) => {"dome", "site"} \cap barred = {}
       /\ \A d \in All("cover") :
             Starts(d) => {"telescope", "site"} \cap barred = {}]_vars

\* No path starts the robot when the dome or the site was LOCK from the
\* beginning of the response on.
LockedRobotStaysOff ==
    [][\A d \in All("robot") : Starts(d) => {"dome", "site"} \cap locked = {}]_vars

\* When stop_all ends it has commanded every robot, every scheduler and every
\* mount, whichever of them raised and whatever the board refused, and unless
\* the store failed it does not leave the robobs flag OPERATING, which would
\* hold back the next night.
StopAllIsComplete ==
    [][Ends("stop_all") =>
          /\ All("robot") \cup All("queue") \cup All("drive") \subseteq tried'
          /\ Robots > 0 => flag'["robobs"] # "operating" \/ hurt']_vars

\* The robots that stop_robobs has yet to reach.
StillToStop == IF resp.name = "stop_robobs" /\ tried # {} THEN All("robot") \ tried ELSE {}

\* While the board says that robobs is READY no robot runs, except one whose
\* last command raised and one that stop_robobs stopped another robot before,
\* and either has yet to reach or never did because it raised on the way: the
\* flag, which all robots share, follows the stop.
ReadyRobobsStopped ==
    flag["robobs"] = "ready" =>
        {r \in All("robot") : on[r]} \subseteq unsure \cup StillToStop

\* A close ends without having reached a slit only because a slit before it
\* raised: no lock, no flag and no failing store holds it back.
ClosingIsTried ==
    [][Ends("close_slit") => All("slit") \subseteq tried' \/ raised' # {}]_vars
=============================================================================
