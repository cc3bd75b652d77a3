------------------------------ MODULE Scripts ------------------------------
(***************************************************************************)
(* The run_script response (core/actions.py).  A script is a tree of       *)
(* processes that share its output: the shell and its children are in a    *)
(* process group of their own, a daemon that has left the group is not.    *)
(* A run waits for its output to end; when the timeout strikes first it    *)
(* kills the group and waits again, without a timeout.  In the foreground  *)
(* that is done by the thread that holds the cycle lock, in the background *)
(* by a thread of its own, whose handle lives in the action object: a      *)
(* reload makes new objects, a crash leaves the processes behind.          *)
(* A process that gives up the output of its script is not seen here.      *)
(***************************************************************************)
EXTENDS Naturals, Sequences

CONSTANTS
    Actions,        \* the run_script responses of the checklist
    Background,     \* those with background: true
    Quiet,          \* those with quiet: true
    Runs,           \* bound: runs that overlap
    NoRun

ASSUME ScriptsAssumption ==
    /\ Background \subseteq Actions
    /\ Quiet \subseteq Actions
    /\ Actions # {}
    /\ NoRun \notin Runs

VARIABLES
    run,        \* every run: its action, statement, processes and messages
    handle,     \* _state["thread"] of every background action
    driver      \* the run that the holder of the cycle lock executes

vars == <<run, handle, driver>>

Group == {"shell", "child"}
Process == Group \cup {"daemon"}

-----------------------------------------------------------------------------

\* pc: the run is announced, its thread started, its shell spawned, waited
\* for, drained after a kill, and its outcome reported.  own: the action
\* object that started it is still in use.  beyond: the kill left processes of
\* another user alive in the group.
Run == [act     : Actions,
        pc      : {"announce", "start", "spawn", "wait", "drain", "report", "over"},
        left    : SUBSET Process,
        outcome : {"none", "ok", "bad", "killed", "failed"},
        said    : Seq({"running", "bad", "killed", "failed"}),
        own     : BOOLEAN,
        beyond  : BOOLEAN]

At(r, label) == run[r].pc = label
Left(r) == run[r].left
InBackground(r) == run[r].act \in Background

\* Thread.is_alive: started and not yet over.
IsAlive(r) == r # NoRun /\ run[r].pc \in {"spawn", "wait", "drain", "report"}

Goes(r, label) == run' = [run EXCEPT ![r].pc = label]

\* A run of action a in the free slot r; what an earlier run of the slot left
\* in a handle counts for nothing, as that run is over.
Begin(a, r) ==
    /\ At(r, "over")
    /\ Left(r) = {}
    /\ run' = [run EXCEPT ![r] = [act |-> a, pc |-> "announce", left |-> {},
                                  outcome |-> "none", said |-> <<>>, own |-> TRUE,
                                  beyond |-> FALSE]]
    /\ handle' = [b \in Actions |-> IF b = a THEN r
                                    ELSE IF handle[b] = r THEN NoRun ELSE handle[b]]
    /\ driver' = r

\* Mutant: a background run starts whether or not the last one is over.
ExecuteAgain(a) == driver = NoRun /\ \E r \in Runs : Begin(a, r)

\* execute; a background run that is still going is not doubled.
Execute(a) ==
    /\ driver = NoRun
    /\ a \in Background => ~ IsAlive(handle[a])
    /\ \E r \in Runs : Begin(a, r)

\* Mutant: the run is announced once it is under way.
AnnounceLate(r) ==
    /\ \/ At(r, "announce")
       \/ At(r, "wait") /\ run[r].act \notin Quiet /\ run[r].said = <<>>
    /\ run' = [run EXCEPT ![r].pc = IF @ = "wait" THEN @
                                    ELSE IF InBackground(r) THEN "start" ELSE "spawn",
                          ![r].said = IF At(r, "wait") THEN Append(@, "running") ELSE @]
    /\ UNCHANGED <<handle, driver>>

Announce(r) ==
    /\ At(r, "announce")
    /\ run' = [run EXCEPT ![r].pc = IF InBackground(r) THEN "start" ELSE "spawn",
                          ![r].said = IF run[r].act \in Quiet THEN @
                                      ELSE Append(@, "running")]
    /\ UNCHANGED <<handle, driver>>

\* The response of a background run is over when its thread has started, or
\* could not be.
Start(r) ==
    /\ At(r, "start")
    /\ Goes(r, "spawn") \/ Goes(r, "over")
    /\ driver' = NoRun
    /\ UNCHANGED handle

-----------------------------------------------------------------------------
(* _run_script                                                             *)

Spawn(r) ==
    /\ At(r, "spawn")
    /\ run' = [run EXCEPT ![r].pc = "wait", ![r].left = {"shell"}]
    /\ UNCHANGED <<handle, driver>>

\* The run ends with this outcome, for its thread to report.
Finish(r, outcome) ==
    /\ run' = [run EXCEPT ![r].pc = "report", ![r].outcome = outcome]
    /\ UNCHANGED <<handle, driver>>

\* Popen raises.
SpawnFails(r) == At(r, "spawn") /\ Finish(r, "failed")

\* communicate returns: nobody holds the output any more.
Ended(r) == At(r, "wait") /\ Left(r) = {} /\ Finish(r, run[r].outcome)

\* Mutant: only the shell is killed.
TimeoutKillsShell(r) ==
    /\ At(r, "wait")
    /\ Left(r) # {}
    /\ run' = [run EXCEPT ![r].pc = "drain", ![r].left = @ \ {"shell"}]
    /\ UNCHANGED <<handle, driver>>

\* TimeoutExpired: the group is killed, and the output waited for once more.
\* The kill spares processes of another user (those of a sudo); if it reaches
\* nobody, the shell is killed by itself, and if that is another user's too,
\* PermissionError ends the run with its processes at work.
Timeout(r) ==
    /\ At(r, "wait")
    /\ Left(r) # {}
    /\ \E spared \in SUBSET (Left(r) \cap Group) :
          LET raises == "shell" \in spared /\ spared = Left(r) \cap Group IN
          run' = [run EXCEPT ![r].pc = IF raises THEN "report" ELSE "drain",
                             ![r].left = @ \ (Group \ spared),
                             ![r].outcome = IF raises THEN "failed" ELSE @,
                             ![r].beyond = spared # {}]
    /\ UNCHANGED <<handle, driver>>

\* Mutant: the output is not drained after the kill.
DrainedAtOnce(r) == At(r, "drain") /\ Finish(r, "killed")

Drained(r) == At(r, "drain") /\ Left(r) = {} /\ Finish(r, "killed")

\* A script that exits with 0 is logged, the others are broadcast; what keeps
\* a foreground script from being spawned is left to the engine to tell.
Report(r) ==
    /\ At(r, "report")
    /\ run' = [run EXCEPT ![r].pc = "over",
                          ![r].said = IF \/ run[r].outcome = "ok"
                                         \/ run[r].outcome = "failed" /\ ~ InBackground(r)
                                      THEN @ ELSE Append(@, run[r].outcome)]
    /\ driver' = IF driver = r THEN NoRun ELSE driver
    /\ UNCHANGED handle

-----------------------------------------------------------------------------
(* The processes, the reload and the crash                                 *)

\* Processes of the script start others, in the group only from within it.
Fork(r, p) ==
    /\ p \in {"child", "daemon"} \ Left(r)
    /\ IF p = "child" THEN Left(r) \cap Group # {} ELSE Left(r) # {}
    /\ run' = [run EXCEPT ![r].left = @ \cup {p}]
    /\ UNCHANGED <<handle, driver>>

\* The status of a script that ends in time is that of its shell.
Exit(r, p) ==
    /\ p \in Left(r)
    /\ \E status \in {"ok", "bad"} :
          run' = [run EXCEPT ![r].left = @ \ {p},
                             ![r].outcome = IF p = "shell" /\ At(r, "wait")
                                            THEN status ELSE @]
    /\ UNCHANGED <<handle, driver>>

\* A reload, between two responses, builds new action objects.
Reload ==
    /\ driver = NoRun
    /\ handle' = [a \in Actions |-> NoRun]
    /\ run' = [r \in Runs |-> [run[r] EXCEPT !.own = FALSE]]
    /\ UNCHANGED driver

\* The threads are gone; the processes, in sessions of their own, are not.
Crash ==
    /\ handle' = [a \in Actions |-> NoRun]
    /\ run' = [r \in Runs |-> [run[r] EXCEPT !.own = FALSE, !.pc = "over"]]
    /\ driver' = NoRun

-----------------------------------------------------------------------------

Init ==
    /\ \E a \in Actions :
          run = [r \in Runs |-> [act |-> a, pc |-> "over", left |-> {},
                                 outcome |-> "none", said |-> <<>>, own |-> FALSE,
                                 beyond |-> FALSE]]
    /\ handle = [a \in Actions |-> NoRun]
    /\ driver = NoRun

\* The steps of the code; those of the processes are up to the scripts.
Advance(r) == \/ Announce(r)
              \/ Start(r)
              \/ Spawn(r)
              \/ SpawnFails(r)
              \/ Ended(r)
              \/ Timeout(r)
              \/ Drained(r)
              \/ Report(r)

Next == \/ \E a \in Actions : Execute(a)
        \/ \E r \in Runs : Advance(r)
        \/ \E r \in Runs, p \in Process : Fork(r, p) \/ Exit(r, p)
        \/ Reload
        \/ Crash

Spec == Init /\ [][Next]_vars

\* Threads run and timeouts expire.  No script need ever end by itself.
Fairness == \A r \in Runs : WF_vars(Advance(r))

FairSpec == Spec /\ Fairness

-----------------------------------------------------------------------------
(* Properties                                                              *)

TypeOK ==
    /\ run \in [Runs -> Run]
    /\ handle \in [Actions -> Runs \cup {NoRun}]
    /\ driver \in Runs \cup {NoRun}

\* The kill itself raised: what it could not signal goes on.
Escaped(r) == run[r].beyond /\ run[r].outcome = "failed"

\* One action object never has two background scripts going: as long as
\* anything of the last run can still write to its output, a timeout and a kill
\* included, no other is spawned.  A new object, after a reload or a crash,
\* knows nothing of the runs of the old one, and nobody of a script whose kill
\* was refused altogether.
OneRunPerObject ==
    \A r, s \in Runs :
        /\ Left(r) # {} /\ Left(s) # {}
        /\ ~ Escaped(r) /\ ~ Escaped(s)
        /\ run[r].own /\ run[s].own
        /\ InBackground(r) /\ run[r].act = run[s].act
        => r = s

\* The operator hears of a run in order: that it runs, unless quiet, and then
\* how it went wrong; and when he hears of the end, nothing of the script is
\* left that holds its output, so a killed script is not still at work, unless
\* what he hears is that the kill was refused.
ToldInOrder ==
    \A r \in Runs :
        LET said == run[r].said
            told == {"bad", "killed", "failed"}
        IN /\ Len(said) <= 2
           /\ Len(said) = 2 => said[1] = "running" /\ said[2] \in told
           /\ Len(said) = 1 => (said[1] = "running") = (run[r].act \notin Quiet)
           /\ (\E n \in DOMAIN said : said[n] \in told) => Left(r) = {} \/ Escaped(r)

\* Every run comes to an end, and with it the hold of a foreground script on
\* the cycle, however long its shell and its children go on; only a daemon
\* that has left the group and keeps the output holds it up, or processes of
\* the group that the supervisor may not kill.
RunsEnd ==
    \A r \in Runs :
        ~ At(r, "over") ~> (At(r, "over") \/ "daemon" \in Left(r) \/ run[r].beyond)
=============================================================================
