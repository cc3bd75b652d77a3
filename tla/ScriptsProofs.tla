---------------------------- MODULE ScriptsProofs ---------------------------
(***************************************************************************)
(* Proofs about Scripts.tla for every set of actions, any number of runs   *)
(* that overlap, any forks and exits of the processes, reloads and crashes.*)
(***************************************************************************)
EXTENDS Scripts, TLAPS

-----------------------------------------------------------------------------
(* What is true of each run by itself                                      *)

Told == {"bad", "killed", "failed"}

\* What the operator hears when a run is announced.
Opening(a) == IF a \in Quiet THEN <<>> ELSE <<"running">>

\* The kill of run x raised.
Spared(x) == x.beyond /\ x.outcome = "failed"

\* What has been said of a run, by its statement; a run that is over may have
\* died before or after its announcement.
SaidInv(x) ==
    /\ x.pc = "announce" => x.said = <<>>
    /\ x.pc \in {"start", "spawn", "wait", "drain", "report"} => x.said = Opening(x.act)
    /\ x.pc = "over" => \/ x.said = <<>>
                        \/ x.said = Opening(x.act)
                        \/ /\ \E told \in Told : x.said = Append(Opening(x.act), told)
                           /\ x.left = {} \/ Spared(x)

\* Processes are left while they are waited for, or after a crash or a kill that
\* raised; the outcome of a run is known when it is reported.
LeftInv(x) ==
    /\ x.pc \in {"announce", "start", "spawn"} => x.left = {}
    /\ x.pc = "report" => x.left = {} \/ Spared(x)
    /\ x.pc = "over" /\ x.own => x.left = {} \/ Spared(x)
    /\ x.pc = "wait" => "shell" \in x.left \/ x.outcome \in {"ok", "bad"}
    /\ x.pc = "report" => x.outcome \in {"ok"} \cup Told

RunInv(x) == x \in Run /\ SaidInv(x) /\ LeftInv(x)

RunsInv == /\ run \in [Runs -> Run]
           /\ \A r \in Runs : SaidInv(run[r]) /\ LeftInv(run[r])

\* Run x with another statement, processes, outcome and messages.
With(x, pc, left, outcome, said) ==
    [act |-> x.act, pc |-> pc, left |-> left, outcome |-> outcome, said |-> said,
     own |-> x.own, beyond |-> x.beyond]

\* Run r becomes y, the others stay.
Becomes(r, y) == /\ run' = [s \in Runs |-> run'[s]]
                 /\ run'[r] = y
                 /\ \A s \in Runs \ {r} : run'[s] = run[s]

LEMMA OneRunChanges ==
    ASSUME RunsInv, NEW r \in Runs, NEW y, RunInv(y), Becomes(r, y)
    PROVE  RunsInv'
  BY DEF RunsInv, RunInv, Becomes

LEMMA Openings ==
    ASSUME NEW a
    PROVE  /\ Opening(a) \in Seq({"running", "bad", "killed", "failed"})
           /\ \A told \in Told :
                 Append(Opening(a), told) \in Seq({"running", "bad", "killed", "failed"})
<1>1. CASE a \in Quiet
  <2>1. Opening(a) = <<>>
    BY <1>1 DEF Opening
  <2> QED
    BY <2>1 DEF Told
<1>2. CASE a \notin Quiet
  <2>1. Opening(a) = <<"running">>
    BY <1>2 DEF Opening
  <2> QED
    BY <2>1 DEF Told
<1> QED
  BY <1>1, <1>2

\* A run whose object is given up, or that dies with the process.
LEMMA GivenUp ==
    ASSUME NEW x, NEW y, SaidInv(x), LeftInv(x), x.pc # "over" => x.said = <<>> \/ x.said = Opening(x.act),
           y.act = x.act, y.left = x.left, y.outcome = x.outcome, y.said = x.said,
           y.beyond = x.beyond,
           ~ y.own, y.pc \in {x.pc, "over"}
    PROVE  SaidInv(y) /\ LeftInv(y)
<1>1. CASE y.pc = x.pc
  BY <1>1, Zenon DEF SaidInv, LeftInv, Spared
<1>2. CASE y.pc = "over"
  <2>1. LeftInv(y)
    BY <1>2 DEF LeftInv
  <2>2. \/ x.said = <<>>
        \/ x.said = Opening(x.act)
        \/ (x.left = {} \/ Spared(x)) /\ \E told \in Told : x.said = Append(Opening(x.act), told)
    BY Zenon DEF SaidInv
  <2>3. \/ y.said = <<>>
        \/ y.said = Opening(y.act)
        \/ (\E told \in Told : y.said = Append(Opening(y.act), told)) /\ (y.left = {} \/ Spared(y))
    BY <2>2, Zenon DEF Spared
  <2>4. y.pc # "announce" /\ y.pc \notin {"start", "spawn", "wait", "drain", "report"}
    BY <1>2
  <2>5. SaidInv(y)
    BY <2>3, <2>4, Zenon DEF SaidInv
  <2> QED
    BY <2>1, <2>5
<1> QED
  BY <1>1, <1>2

LEMMA InitRuns == Init => RunsInv
  BY ScriptsAssumption DEF Init, RunsInv, Run, SaidInv, LeftInv, Process, Group

LEMMA RunsStep == RunsInv /\ [Next]_vars => RunsInv'
<1> SUFFICES ASSUME RunsInv, [Next]_vars
             PROVE  RunsInv'
  OBVIOUS
<1>0. ASSUME NEW r \in Runs
      PROVE  RunInv(run[r]) /\ run[r] \in Run /\ run = [s \in Runs |-> run[s]]
  BY DEF RunsInv, RunInv
<1>1. ASSUME NEW r \in Runs, Announce(r)
      PROVE  RunsInv'
  <2>0. /\ RunInv(run[r]) /\ run[r] \in Run /\ run = [s \in Runs |-> run[s]]
        /\ run[r].said = <<>> /\ run[r].left = {}
    BY <1>0, <1>1 DEF Announce, At, RunInv, SaidInv, LeftInv
  <2>1. ASSUME NEW label \in {"start", "spawn"}
        PROVE  RunInv(With(run[r], label, {}, run[r].outcome, Opening(run[r].act)))
    BY <2>0, Openings DEF RunInv, With, Run, SaidInv, LeftInv
  <2>2. IF run[r].act \in Quiet THEN run[r].said = Opening(run[r].act)
        ELSE Append(run[r].said, "running") = Opening(run[r].act)
    <3>1. Append(<<>>, "running") = <<"running">>
      OBVIOUS
    <3> QED
      BY <2>0, <3>1 DEF Opening
  <2>3. CASE run[r].act \in Background
    <3>1. Becomes(r, With(run[r], "start", {}, run[r].outcome, Opening(run[r].act)))
      BY <1>1, <2>0, <2>2, <2>3 DEF Announce, InBackground, Becomes, With, Run
    <3> QED
      BY <2>1, <3>1, OneRunChanges
  <2>4. CASE run[r].act \notin Background
    <3>1. Becomes(r, With(run[r], "spawn", {}, run[r].outcome, Opening(run[r].act)))
      BY <1>1, <2>0, <2>2, <2>4 DEF Announce, InBackground, Becomes, With, Run
    <3> QED
      BY <2>1, <3>1, OneRunChanges
  <2> QED
    BY <2>3, <2>4
<1>2. ASSUME NEW r \in Runs, Spawn(r)
      PROVE  RunsInv'
  <2>0. RunInv(run[r]) /\ run[r] \in Run /\ run = [s \in Runs |-> run[s]]
    BY <1>0
  <2>1. Becomes(r, With(run[r], "wait", {"shell"},
                run[r].outcome, run[r].said))
    BY <1>2, <2>0 DEF Spawn, Becomes, With, Run, At
  <2>2. RunInv(With(run[r], "wait", {"shell"},
                run[r].outcome, run[r].said))
    BY <1>2, <2>0 DEF Spawn, RunInv, With, Run, SaidInv, LeftInv, Told, At, Process, Group
  <2> QED
    BY <2>1, <2>2, OneRunChanges
<1>3. ASSUME NEW r \in Runs, SpawnFails(r)
      PROVE  RunsInv'
  <2>0. RunInv(run[r]) /\ run[r] \in Run /\ run = [s \in Runs |-> run[s]]
    BY <1>0
  <2>1. Becomes(r, With(run[r], "report", run[r].left,
                "failed", run[r].said))
    BY <1>3, <2>0 DEF SpawnFails, Becomes, With, Run, At, Finish
  <2>2. RunInv(With(run[r], "report", run[r].left,
                "failed", run[r].said))
    BY <1>3, <2>0 DEF SpawnFails, RunInv, With, Run, SaidInv, LeftInv, Told, At, Finish
  <2> QED
    BY <2>1, <2>2, OneRunChanges
<1>4. ASSUME NEW r \in Runs, Ended(r)
      PROVE  RunsInv'
  <2>0. RunInv(run[r]) /\ run[r] \in Run /\ run = [s \in Runs |-> run[s]]
    BY <1>0
  <2>1. Becomes(r, With(run[r], "report", run[r].left,
                run[r].outcome, run[r].said))
    BY <1>4, <2>0 DEF Ended, Becomes, With, Run, At, Finish, Left
  <2>2. RunInv(With(run[r], "report", run[r].left,
                run[r].outcome, run[r].said))
    BY <1>4, <2>0 DEF Ended, RunInv, With, Run, SaidInv, LeftInv, Told, At, Finish, Left
  <2> QED
    BY <2>1, <2>2, OneRunChanges
<1>5. ASSUME NEW r \in Runs, Timeout(r)
      PROVE  RunsInv'
  <2>0. RunInv(run[r]) /\ run[r] \in Run /\ run = [s \in Runs |-> run[s]]
    BY <1>0
  <2>1. PICK spared \in SUBSET (Left(r) \cap Group) :
            LET raises == "shell" \in spared /\ spared = Left(r) \cap Group IN
            run' = [run EXCEPT ![r].pc = IF raises THEN "report" ELSE "drain",
                               ![r].left = @ \ (Group \ spared),
                               ![r].outcome = IF raises THEN "failed" ELSE @,
                               ![r].beyond = spared # {}]
    BY <1>5, Zenon DEF Timeout
  <2>2. CASE "shell" \in spared /\ spared = Left(r) \cap Group
    <3> DEFINE y == [act |-> run[r].act, pc |-> "report",
                     left |-> run[r].left \ (Group \ spared), outcome |-> "failed",
                     said |-> run[r].said, own |-> run[r].own, beyond |-> TRUE]
    <3>1. Becomes(r, y)
      BY <2>0, <2>1, <2>2 DEF Becomes, Run
    <3>2. RunInv(y)
      BY <1>5, <2>0 DEF Timeout, RunInv, Run, SaidInv, LeftInv, Told, At, Spared
    <3> QED
      BY <3>1, <3>2, OneRunChanges
  <2>3. CASE ~ ("shell" \in spared /\ spared = Left(r) \cap Group)
    <3> DEFINE y == [act |-> run[r].act, pc |-> "drain",
                     left |-> run[r].left \ (Group \ spared),
                     outcome |-> run[r].outcome, said |-> run[r].said,
                     own |-> run[r].own, beyond |-> spared # {}]
    <3>1. Becomes(r, y)
      BY <2>0, <2>1, <2>3 DEF Becomes, Run
    <3>2. RunInv(y)
      BY <1>5, <2>0 DEF Timeout, RunInv, Run, SaidInv, LeftInv, Told, At
    <3> QED
      BY <3>1, <3>2, OneRunChanges
  <2> QED
    BY <2>2, <2>3
<1>6. ASSUME NEW r \in Runs, Drained(r)
      PROVE  RunsInv'
  <2>0. RunInv(run[r]) /\ run[r] \in Run /\ run = [s \in Runs |-> run[s]]
    BY <1>0
  <2>1. Becomes(r, With(run[r], "report", run[r].left,
                "killed", run[r].said))
    BY <1>6, <2>0 DEF Drained, Becomes, With, Run, At, Finish, Left
  <2>2. RunInv(With(run[r], "report", run[r].left,
                "killed", run[r].said))
    BY <1>6, <2>0 DEF Drained, RunInv, With, Run, SaidInv, LeftInv, Told, At, Finish, Left
  <2> QED
    BY <2>1, <2>2, OneRunChanges
<1>7. ASSUME NEW r \in Runs, Report(r)
      PROVE  RunsInv'
  <2>0. /\ RunInv(run[r]) /\ run[r] \in Run /\ run = [s \in Runs |-> run[s]]
        /\ run[r].said = Opening(run[r].act)
        /\ run[r].left = {} \/ Spared(run[r])
        /\ run[r].outcome \in {"ok"} \cup Told
    BY <1>0, <1>7 DEF Report, At, RunInv, SaidInv, LeftInv
  <2>1. CASE run[r].outcome = "ok" \/ (run[r].outcome = "failed" /\ ~ InBackground(r))
    <3>1. Becomes(r, With(run[r], "over", run[r].left, run[r].outcome, Opening(run[r].act)))
      BY <1>7, <2>0, <2>1 DEF Report, Becomes, With, Run
    <3>2. RunInv(With(run[r], "over", run[r].left, run[r].outcome, Opening(run[r].act)))
      BY <2>0, Openings DEF RunInv, With, Run, SaidInv, LeftInv, Spared
    <3> QED
      BY <3>1, <3>2, OneRunChanges
  <2>2. CASE ~ (run[r].outcome = "ok" \/ (run[r].outcome = "failed" /\ ~ InBackground(r)))
    <3>1. Becomes(r, With(run[r], "over", run[r].left, run[r].outcome,
                          Append(Opening(run[r].act), run[r].outcome)))
      BY <1>7, <2>0, <2>2 DEF Report, Becomes, With, Run
    <3>2. RunInv(With(run[r], "over", run[r].left, run[r].outcome,
                      Append(Opening(run[r].act), run[r].outcome)))
      BY <2>0, <2>2, Openings DEF RunInv, With, Run, SaidInv, LeftInv, Spared
    <3> QED
      BY <3>1, <3>2, OneRunChanges
  <2> QED
    BY <2>1, <2>2
<1>8. ASSUME NEW r \in Runs, Start(r)
      PROVE  RunsInv'
  <2>0. RunInv(run[r]) /\ run[r] \in Run /\ run = [s \in Runs |-> run[s]]
    BY <1>0
  <2>1. ASSUME NEW label \in {"spawn", "over"}, Goes(r, label)
        PROVE  RunsInv'
    <3>1. Becomes(r, With(run[r], label, run[r].left, run[r].outcome, run[r].said))
      BY <2>0, <2>1 DEF Goes, Becomes, With, Run
    <3>2. RunInv(With(run[r], label, run[r].left, run[r].outcome, run[r].said))
      BY <1>8, <2>0 DEF Start, At, RunInv, With, Run, SaidInv, LeftInv
    <3> QED
      BY <3>1, <3>2, OneRunChanges
  <2> QED
    BY <1>8, <2>1 DEF Start
<1>9. ASSUME NEW r \in Runs, NEW p \in Process, Fork(r, p)
      PROVE  RunsInv'
  <2>0. RunInv(run[r]) /\ run[r] \in Run /\ run = [s \in Runs |-> run[s]]
    BY <1>0
  <2>1. Becomes(r, With(run[r], run[r].pc, run[r].left \cup {p}, run[r].outcome, run[r].said))
    BY <1>9, <2>0 DEF Fork, Left, Becomes, With, Run
  <2>2. run[r].left # {}
    BY <1>9 DEF Fork, Left
  <2>3. RunInv(With(run[r], run[r].pc, run[r].left \cup {p}, run[r].outcome, run[r].said))
    BY <2>0, <2>2 DEF RunInv, With, Run, SaidInv, LeftInv, Spared
  <2> QED
    BY <2>1, <2>3, OneRunChanges
<1>10. ASSUME NEW r \in Runs, NEW p \in Process, Exit(r, p)
       PROVE  RunsInv'
  <2>0. RunInv(run[r]) /\ run[r] \in Run /\ run = [s \in Runs |-> run[s]]
    BY <1>0
  <2>1. p \in run[r].left
    BY <1>10 DEF Exit, Left
  <2>2. PICK status \in {"ok", "bad"} :
            run' = [run EXCEPT ![r].left = @ \ {p},
                               ![r].outcome = IF p = "shell" /\ At(r, "wait")
                                              THEN status ELSE @]
    BY <1>10 DEF Exit
  <2>3. Becomes(r, With(run[r], run[r].pc, run[r].left \ {p},
                        IF p = "shell" /\ At(r, "wait") THEN status ELSE run[r].outcome,
                        run[r].said))
    BY <2>0, <2>2 DEF Becomes, With, Run
  <2>4. RunInv(With(run[r], run[r].pc, run[r].left \ {p},
                    IF p = "shell" /\ At(r, "wait") THEN status ELSE run[r].outcome,
                    run[r].said))
    BY <2>0, <2>1 DEF RunInv, With, Run, SaidInv, LeftInv, Spared, At
  <2> QED
    BY <2>3, <2>4, OneRunChanges
<1>11. ASSUME NEW a \in Actions, NEW r \in Runs, Begin(a, r)
       PROVE  RunsInv'
  <2>0. run = [s \in Runs |-> run[s]]
    BY <1>0
  <2>1. Becomes(r, [act |-> a, pc |-> "announce", left |-> {}, outcome |-> "none",
                    said |-> <<>>, own |-> TRUE, beyond |-> FALSE])
    BY <1>11, <2>0 DEF Begin, Becomes
  <2>2. RunInv([act |-> a, pc |-> "announce", left |-> {}, outcome |-> "none",
                said |-> <<>>, own |-> TRUE, beyond |-> FALSE])
    BY DEF RunInv, Run, SaidInv, LeftInv
  <2> QED
    BY <2>1, <2>2, OneRunChanges
<1>12. CASE Reload \/ Crash
  <2>1. ASSUME NEW r \in Runs
        PROVE  /\ run'[r] \in Run /\ run'[r].act = run[r].act
               /\ run'[r].pc \in {run[r].pc, "over"}
               /\ run'[r].left = run[r].left /\ run'[r].outcome = run[r].outcome
               /\ run'[r].said = run[r].said /\ ~ run'[r].own
               /\ run'[r].beyond = run[r].beyond
    <3>1. run[r] \in Run
      BY <1>0
    <3>2. CASE Reload
      BY <3>1, <3>2 DEF Reload, Run
    <3>3. CASE Crash
      BY <3>1, <3>3 DEF Crash, Run
    <3> QED
      BY <1>12, <3>2, <3>3
  <2>2. run' = [r \in Runs |-> run'[r]]
    BY <1>12 DEF Reload, Crash
  <2>3. ASSUME NEW r \in Runs
        PROVE  SaidInv(run'[r]) /\ LeftInv(run'[r])
    <3>1. /\ SaidInv(run[r]) /\ LeftInv(run[r])
          /\ run[r].pc \in {"announce", "start", "spawn", "wait", "drain", "report", "over"}
      BY <1>0 DEF RunInv, Run
    <3>2. run[r].pc # "over" => run[r].said = <<>> \/ run[r].said = Opening(run[r].act)
      BY <3>1 DEF SaidInv
    <3> QED
      BY <2>1, <3>1, <3>2, GivenUp
  <2> QED
    BY <2>1, <2>2, <2>3 DEF RunsInv
<1>13. CASE UNCHANGED vars
  BY <1>13 DEF vars, RunsInv
<1> QED
  BY <1>1, <1>2, <1>3, <1>4, <1>5, <1>6, <1>7, <1>8, <1>9, <1>10, <1>11, <1>12, <1>13
     DEF Next, Advance, Execute

-----------------------------------------------------------------------------
(* One run per object                                                      *)

\* A run that is announced belongs to the thread that holds the cycle lock,
\* and an action object knows its own background run until it is over.
HandleInv ==
    /\ handle \in [Actions -> Runs \cup {NoRun}]
    /\ driver \in Runs \cup {NoRun}
    /\ \A r \in Runs : run[r].pc \in {"announce", "start"} => driver = r
    /\ \A r \in Runs :
          run[r].own /\ InBackground(r) /\ run[r].pc # "over" => handle[run[r].act] = r

ScriptsInv == RunsInv /\ HandleInv

LEMMA BeginHandle ==
    ASSUME ScriptsInv, NEW a \in Actions, Execute(a)
    PROVE  HandleInv'
<1>1. PICK r \in Runs : Begin(a, r)
  BY DEF Execute
<1>2. /\ driver' = r
      /\ handle' = [b \in Actions |-> IF b = a THEN r
                                      ELSE IF handle[b] = r THEN NoRun ELSE handle[b]]
      /\ run[r].pc = "over" /\ driver = NoRun
      /\ run'[r].act = a /\ run'[r].own
      /\ \A s \in Runs \ {r} : run'[s] = run[s]
  BY <1>1 DEF Begin, At, Execute, ScriptsInv, RunsInv
<1>3. ASSUME NEW s \in Runs \ {r}
      PROVE  /\ run[s].pc \notin {"announce", "start"}
             /\ run[s].own /\ InBackground(s) /\ run[s].pc # "over" =>
                   run[s].act # a /\ handle[run[s].act] = s /\ run[s].act \in Actions
  <2>1. run[s].pc \notin {"announce", "start"}
    BY <1>2, ScriptsAssumption DEF ScriptsInv, HandleInv
  <2>2. run[s] \in Run
    BY DEF ScriptsInv, RunsInv
  <2>3. ASSUME run[s].own, InBackground(s), run[s].pc # "over"
        PROVE  run[s].act # a /\ handle[run[s].act] = s
    <3>1. handle[run[s].act] = s
      BY <2>3 DEF ScriptsInv, HandleInv
    <3>2. IsAlive(s)
      BY <2>1, <2>2, <2>3, ScriptsAssumption DEF IsAlive, Run
    <3>3. a \in Background => ~ IsAlive(handle[a])
      BY DEF Execute
    <3> QED
      BY <2>3, <3>1, <3>2, <3>3 DEF InBackground
  <2> QED
    BY <2>1, <2>2, <2>3 DEF Run
<1>4. handle' \in [Actions -> Runs \cup {NoRun}] /\ driver' \in Runs \cup {NoRun}
  BY <1>2 DEF ScriptsInv, HandleInv
<1>5. \A s \in Runs : run'[s].pc \in {"announce", "start"} => driver' = s
  BY <1>2, <1>3
<1>6. ASSUME NEW s \in Runs, run'[s].own, InBackground(s)', run'[s].pc # "over"
      PROVE  handle'[run'[s].act] = s
  <2>1. CASE s = r
    BY <1>2, <2>1
  <2>2. CASE s # r
    BY <1>2, <1>3, <1>6, <2>2 DEF InBackground
  <2> QED
    BY <2>1, <2>2
<1> QED
  BY <1>4, <1>5, <1>6 DEF HandleInv

LEMMA HandleStep == ScriptsInv /\ [Next]_vars => HandleInv'
<1> SUFFICES ASSUME ScriptsInv, [Next]_vars
             PROVE  HandleInv'
  OBVIOUS
<1>0. RunsInv /\ HandleInv
  BY DEF ScriptsInv
<1> USE <1>0
\* A step of a run keeps its action and its object, and takes it past its
\* announcement.
<1>1. ASSUME NEW r \in Runs, UNCHANGED <<handle, driver>>,
             \A s \in Runs : run'[s].act = run[s].act /\ run'[s].own = run[s].own,
             \A s \in Runs : run'[s].pc \in {"announce", "start"} =>
                                 run[s].pc \in {"announce", "start"},
             \A s \in Runs : run[s].pc = "over" => run'[s].pc = "over"
      PROVE  HandleInv'
  BY <1>1 DEF HandleInv, InBackground
<1>2. ASSUME NEW r \in Runs, NEW p \in Process,
             Announce(r) \/ Spawn(r) \/ SpawnFails(r) \/ Ended(r) \/ Timeout(r)
             \/ Drained(r) \/ Fork(r, p) \/ Exit(r, p)
      PROVE  HandleInv'
  <2>1. /\ UNCHANGED <<handle, driver>>
        /\ \A s \in Runs : run[s] \in Run
    BY <1>2 DEF Announce, Spawn, SpawnFails, Ended, Timeout, Drained, Fork, Exit, Finish,
       RunsInv
  <2>2. ASSUME NEW s \in Runs
        PROVE  /\ run'[s].act = run[s].act /\ run'[s].own = run[s].own
               /\ run'[s].pc \in {"announce", "start"} => run[s].pc \in {"announce", "start"}
               /\ run[s].pc = "over" => run'[s].pc = "over"
    <3>1. CASE Announce(r)
      <4>1. run[r].pc = "announce"
        BY <3>1 DEF Announce, At
      <4> QED
        BY <2>1, <3>1, <4>1 DEF Announce, RunsInv, Run
    <3>2. CASE SpawnFails(r) \/ Ended(r) \/ Drained(r)
      <4>1. run[r].pc # "over" /\ \E outcome : Finish(r, outcome)
        BY <3>2 DEF SpawnFails, Ended, Drained, At
      <4> QED
        BY <2>1, <4>1 DEF Finish, RunsInv, Run
    <3>6. CASE Spawn(r)
      BY <2>1, <3>6 DEF Spawn, At, RunsInv, Run
    <3>3. CASE Timeout(r)
      <4>1. PICK spared :
                LET raises == "shell" \in spared /\ spared = Left(r) \cap Group IN
                run' = [run EXCEPT ![r].pc = IF raises THEN "report" ELSE "drain",
                                   ![r].left = @ \ (Group \ spared),
                                   ![r].outcome = IF raises THEN "failed" ELSE @,
                                   ![r].beyond = spared # {}]
        BY <3>3, Zenon DEF Timeout
      <4>2. run[r].pc = "wait"
        BY <3>3 DEF Timeout, At
      <4> DEFINE label == IF "shell" \in spared /\ spared = Left(r) \cap Group
                          THEN "report" ELSE "drain"
                 ended == IF "shell" \in spared /\ spared = Left(r) \cap Group
                          THEN "failed" ELSE run[r].outcome
      <4>3. run' = [run EXCEPT ![r] = [run[r] EXCEPT
                        !.pc = label, !.left = run[r].left \ (Group \ spared),
                        !.outcome = ended, !.beyond = spared # {}]]
        BY <2>1, <4>1 DEF RunsInv, Run
      <4>4. label \in {"report", "drain"}
        OBVIOUS
      <4> HIDE DEF label, ended
      <4> QED
        BY <2>1, <4>2, <4>3, <4>4 DEF RunsInv, Run
    <3>4. CASE Fork(r, p)
      BY <2>1, <3>4 DEF Fork, RunsInv, Run
    <3>5. CASE Exit(r, p)
      BY <2>1, <3>5 DEF Exit, RunsInv, Run
    <3> QED
      BY <1>2, <3>1, <3>2, <3>3, <3>4, <3>5, <3>6
  <2> QED
    BY <1>1, <2>1, <2>2
<1>3. ASSUME NEW r \in Runs, Start(r)
      PROVE  HandleInv'
  <2>1. /\ run[r].pc = "start" /\ driver' = NoRun /\ UNCHANGED handle
        /\ \A s \in Runs : run[s] \in Run
    BY <1>3 DEF Start, At, RunsInv
  <2>2. ASSUME NEW s \in Runs
        PROVE  /\ run'[s].act = run[s].act /\ run'[s].own = run[s].own
               /\ run'[s].pc \notin {"announce", "start"}
               /\ run[s].pc = "over" => run'[s].pc = "over"
    <3>1. s # r => run[s].pc \notin {"announce", "start"}
      BY <2>1 DEF HandleInv
    <3> QED
      BY <1>3, <2>1, <3>1 DEF Start, Goes, RunsInv, Run
  <2> QED
    BY <2>1, <2>2 DEF HandleInv, InBackground
<1>4. ASSUME NEW r \in Runs, Report(r)
      PROVE  HandleInv'
  <2>1. /\ run[r].pc = "report" /\ driver' = (IF driver = r THEN NoRun ELSE driver)
        /\ UNCHANGED handle /\ \A s \in Runs : run[s] \in Run
    BY <1>4 DEF Report, At, RunsInv
  <2>2. ASSUME NEW s \in Runs
        PROVE  /\ run'[s].act = run[s].act /\ run'[s].own = run[s].own
               /\ run'[s].pc \in {run[s].pc, "over"}
               /\ s = r => run'[s].pc = "over"
    BY <1>4, <2>1 DEF Report, RunsInv, Run
  <2> QED
    BY <2>1, <2>2 DEF HandleInv, InBackground
<1>5. ASSUME NEW a \in Actions, Execute(a)
      PROVE  HandleInv'
  BY <1>5, BeginHandle
<1>6. CASE Reload
  <2>1. ASSUME NEW s \in Runs
        PROVE  run'[s].pc = run[s].pc /\ ~ run'[s].own
    BY <1>6 DEF Reload, RunsInv, Run
  <2> QED
    BY <1>6, <2>1 DEF Reload, HandleInv
<1>7. CASE Crash
  <2>1. ASSUME NEW s \in Runs
        PROVE  run'[s].pc = "over"
    BY <1>7 DEF Crash, RunsInv, Run
  <2> QED
    BY <1>7, <2>1 DEF Crash, HandleInv
<1>8. CASE UNCHANGED vars
  BY <1>8 DEF vars, HandleInv, InBackground
<1> QED
  BY <1>2, <1>3, <1>4, <1>5, <1>6, <1>7, <1>8 DEF Next, Advance, Process

-----------------------------------------------------------------------------

THEOREM ScriptsAreSound == Spec => []ScriptsInv
<1>1. Init => ScriptsInv
  <2> SUFFICES ASSUME Init
               PROVE  HandleInv
    BY InitRuns DEF ScriptsInv
  <2>1. \A r \in Runs : run[r].pc = "over"
    BY DEF Init
  <2> QED
    BY <2>1 DEF Init, HandleInv
<1>2. ScriptsInv /\ [Next]_vars => ScriptsInv'
  BY RunsStep, HandleStep DEF ScriptsInv
<1> QED
  BY <1>1, <1>2, PTL DEF Spec

\* The types.
THEOREM ScriptsTypeOK == Spec => []TypeOK
<1>1. ScriptsInv => TypeOK
  BY DEF ScriptsInv, RunsInv, HandleInv, TypeOK
<1> QED
  BY <1>1, ScriptsAreSound, PTL

\* An action object never has two background scripts going, other than one whose
\* kill raised.
THEOREM ObjectsRunOnce == Spec => []OneRunPerObject
<1>1. ScriptsInv => OneRunPerObject
  <2> SUFFICES ASSUME ScriptsInv, NEW r \in Runs, NEW s \in Runs,
                      run[r].left # {}, run[s].left # {}, run[r].own, run[s].own,
                      ~ Escaped(r), ~ Escaped(s),
                      InBackground(r), run[r].act = run[s].act
               PROVE  r = s
    BY DEF OneRunPerObject, Left
  <2>1. run[r].pc # "over" /\ run[s].pc # "over"
    BY DEF ScriptsInv, RunsInv, LeftInv, Escaped, Spared
  <2>2. InBackground(s)
    BY DEF InBackground
  <2> QED
    BY <2>1, <2>2 DEF ScriptsInv, HandleInv
<1> QED
  BY <1>1, ScriptsAreSound, PTL

\* The operator hears of a run in order, and of its end when nothing is left or
\* that the kill raised.
THEOREM RunsAreToldInOrder == Spec => []ToldInOrder
<1>1. ASSUME ScriptsInv, NEW r \in Runs
      PROVE  LET said == run[r].said IN
             /\ Len(said) <= 2
             /\ Len(said) = 2 => said[1] = "running" /\ said[2] \in Told
             /\ Len(said) = 1 => (said[1] = "running") = (run[r].act \notin Quiet)
             /\ (\E n \in DOMAIN said : said[n] \in Told) =>
                   run[r].left = {} \/ Escaped(r)
  <2>1. /\ SaidInv(run[r])
        /\ run[r].pc \in {"announce", "start", "spawn", "wait", "drain", "report", "over"}
    BY <1>1 DEF ScriptsInv, RunsInv, Run
  <2>2. CASE run[r].said = <<>>
    BY <2>2
  <2>3. CASE run[r].said = Opening(run[r].act)
    BY <2>3 DEF Opening, Told
  <2>4. CASE /\ \E told \in Told : run[r].said = Append(Opening(run[r].act), told)
             /\ run[r].left = {} \/ Spared(run[r])
    BY <2>4 DEF Opening, Told, Spared, Escaped
  <2> QED
    BY <2>1, <2>2, <2>3, <2>4 DEF SaidInv
<1>2. ScriptsInv => ToldInOrder
  BY <1>1 DEF ToldInOrder, Told, Left
<1> QED
  BY <1>2, ScriptsAreSound, PTL
=============================================================================
