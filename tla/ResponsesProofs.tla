-------------------------- MODULE ResponsesProofs --------------------------
(***************************************************************************)
(* Proofs about Responses.tla for any number of domes, telescopes, robots  *)
(* and schedulers, any operators, handlers, keys and plans.                *)
(***************************************************************************)
EXTENDS Responses, SequenceTheorems, TLAPS

\* The lemmas about the store, for the store that the responses use.
Stored == INSTANCE StateStoreProofs WITH Configured <- Instruments, Volatile <- {},
                                         Settable <- Flag, MayCrash <- FALSE

-----------------------------------------------------------------------------
(* Where a response goes, and what it does there.                          *)

LEMMA CountFacts ==
    /\ DOMAIN Count = {"slit", "flap", "tracker", "mount", "cover", "drive",
                       "robot", "queue", "program", "switch"}
    /\ \A kind \in DOMAIN Count : Count[kind] \in Nat
    /\ Count["robot"] = Robots
  BY ResponsesAssumption DEF Count

LEMMA EachFacts ==
    ASSUME NEW kind \in DOMAIN Count
    PROVE  /\ Each(kind) \in Seq(Devices)
           /\ Len(Each(kind)) = Count[kind]
           /\ \A n \in 1..Count[kind] : Each(kind)[n] = <<kind, n>>
           /\ All(kind) = {<<kind, n>> : n \in 1..Count[kind]}
           /\ All(kind) \subseteq Devices
<1>1. Count[kind] \in Nat
  BY CountFacts
<1>2. All(kind) = {<<kind, n>> : n \in 1..Count[kind]}
  BY DEF All
<1>3. All(kind) \subseteq Devices
  BY DEF Devices
<1> QED
  BY <1>1, <1>2, <1>3 DEF Each

\* The responses that go to devices of one kind only.
KindOf(r) ==
    CASE r \in {"open_slit", "close_slit"}                -> "slit"
      [] r \in {"open_flap", "close_flap"}                -> "flap"
      [] r \in {"track", "stand"}                         -> "tracker"
      [] r \in {"unpark", "park"}                         -> "mount"
      [] r \in {"open_cover", "close_cover"}              -> "cover"
      [] r \in {"stop_tracking", "slew"}                  -> "drive"
      [] r \in {"switch_on", "switch_off"}                -> "switch"
      [] r = "configure_scheduler"                        -> "program"
      [] r = "stop_scheduler"                             -> "queue"
      [] r \in {"start_robobs", "stop_robobs"}            -> "robot"

Plain == Response \ {"start_scheduler", "stop_all"}

LEMMA PlainPlaces ==
    ASSUME NEW r \in Plain
    PROVE  /\ KindOf(r) \in DOMAIN Count
           /\ Places(r) = Each(KindOf(r))
  BY CountFacts DEF Plain, Response, KindOf, Places

\* Two sequences one after the other.
LEMMA Concat ==
    ASSUME NEW S, NEW s \in Seq(S), NEW t \in Seq(S)
    PROVE  /\ s \o t \in Seq(S)
           /\ Len(s \o t) = Len(s) + Len(t)
           /\ \A n \in 1..Len(s) : (s \o t)[n] = s[n]
           /\ \A n \in 1..Len(t) : (s \o t)[Len(s) + n] = t[n]
<1>1. Len(s) \in Nat /\ Len(t) \in Nat
  OBVIOUS
<1>2. ASSUME NEW n \in 1..Len(t)
      PROVE  (s \o t)[Len(s) + n] = t[n]
  <2>1. Len(s) + n \in 1..(Len(s) + Len(t)) /\ ~ (Len(s) + n <= Len(s))
        /\ (Len(s) + n) - Len(s) = n
    BY <1>1
  <2> QED
    BY <2>1, ConcatProperties
<1>3. ASSUME NEW n \in 1..Len(s)
      PROVE  (s \o t)[n] = s[n]
  <2>1. n \in 1..(Len(s) + Len(t)) /\ n <= Len(s)
    BY <1>1
  <2> QED
    BY <2>1, ConcatProperties
<1> QED
  BY <1>2, <1>3, ConcatProperties

Place == Devices \cup {FlagOf("scheduler"), FlagOf("robobs")}

LEMMA FlagPlaces ==
    /\ FlagOf("scheduler") \notin Devices
    /\ FlagOf("robobs") \notin Devices
    /\ FlagOf("scheduler") # FlagOf("robobs")
    /\ \A i, n : FlagOf(i) # <<"robot", n>> /\ FlagOf(i) # <<"queue", n>>
                 /\ FlagOf(i) # <<"drive", n>>
<1>1. ASSUME NEW i, FlagOf(i) \in Devices
      PROVE  FALSE
  <2>1. PICK kind \in DOMAIN Count : FlagOf(i) \in All(kind)
    BY <1>1 DEF Devices
  <2>2. kind # "flag"
    BY <2>1, CountFacts
  <2> QED
    BY <2>1, <2>2 DEF FlagOf, All
<1> QED
  BY <1>1 DEF FlagOf

\* Sequences of devices of one kind.
LEMMA EachPlace ==
    ASSUME NEW kind \in DOMAIN Count
    PROVE  /\ Each(kind) \in Seq(Place)
           /\ Len(Each(kind)) = Count[kind]
           /\ Count[kind] \in Nat
           /\ \A n \in 1..Count[kind] : Each(kind)[n] = <<kind, n>>
<1>1. Devices \subseteq Place
  BY DEF Place
<1>2. Seq(Devices) \subseteq Seq(Place)
  BY <1>1
<1> QED
  BY <1>2, CountFacts, EachFacts

LEMMA StartSchedulerPlaces ==
    LET P == Places("start_scheduler") IN
    /\ P \in Seq(Place)
    /\ Len(P) = 1 + Schedulers
    /\ P[1] = FlagOf("scheduler")
    /\ \A n \in 1..Schedulers : P[1 + n] = <<"queue", n>>
<1> DEFINE F == <<FlagOf("scheduler")>>
           Q == Each("queue")
<1>1. Places("start_scheduler") = F \o Q
  BY DEF Places
<1>2. Count["queue"] = Schedulers /\ Schedulers \in Nat /\ "queue" \in DOMAIN Count
  BY ResponsesAssumption DEF Count
<1>3. /\ Q \in Seq(Place) /\ Len(Q) = Schedulers
      /\ \A n \in 1..Schedulers : Q[n] = <<"queue", n>>
  BY <1>2, EachPlace
<1>4. F \in Seq(Place) /\ Len(F) = 1 /\ F[1] = FlagOf("scheduler")
  BY DEF Place
<1> HIDE DEF F, Q
<1>5. /\ F \o Q \in Seq(Place)
      /\ Len(F \o Q) = Len(F) + Len(Q)
      /\ \A n \in 1..Len(F) : (F \o Q)[n] = F[n]
      /\ \A n \in 1..Len(Q) : (F \o Q)[Len(F) + n] = Q[n]
  <2>1. F \in Seq(Place) /\ Q \in Seq(Place)
    BY <1>3, <1>4
  <2> QED
    BY <2>1, Concat
<1>6. (F \o Q)[1] = FlagOf("scheduler")
  BY <1>4, <1>5
<1> QED
  BY <1>1, <1>3, <1>4, <1>5, <1>6

\* Where stop_all has set the flags.
AfterFlags == IF Robots = 0 THEN 1 ELSE Robots + 2

LEMMA StopAllPlaces ==
    LET P == Places("stop_all") IN
    /\ P \in Seq(Place)
    /\ Len(P) = AfterFlags + Schedulers + Telescopes
    /\ P[1] = FlagOf("scheduler")
    /\ \A n \in 1..Robots : P[1 + n] = <<"robot", n>>
    /\ Robots > 0 => P[Robots + 2] = FlagOf("robobs")
    /\ \A n \in 1..Schedulers : P[AfterFlags + n] = <<"queue", n>>
    /\ \A n \in 1..Telescopes : P[AfterFlags + Schedulers + n] = <<"drive", n>>
<1>0. Robots \in Nat /\ Schedulers \in Nat /\ Telescopes \in Nat
  BY ResponsesAssumption
<1> DEFINE F == <<FlagOf("scheduler")>>
           R == Each("robot")
           G == IF Robots = 0 THEN <<>> ELSE <<FlagOf("robobs")>>
           Q == Each("queue")
           D == Each("drive")
<1>1. Places("stop_all") = F \o R \o G \o Q \o D
  BY DEF Places
<1>2. /\ R \in Seq(Place) /\ Len(R) = Robots
      /\ \A n \in 1..Robots : R[n] = <<"robot", n>>
  <2>1. Count["robot"] = Robots /\ "robot" \in DOMAIN Count
    BY DEF Count
  <2> QED
    BY <2>1, EachPlace
<1>3. /\ Q \in Seq(Place) /\ Len(Q) = Schedulers
      /\ \A n \in 1..Schedulers : Q[n] = <<"queue", n>>
  <2>1. Count["queue"] = Schedulers /\ "queue" \in DOMAIN Count
    BY DEF Count
  <2> QED
    BY <2>1, EachPlace
<1>4. /\ D \in Seq(Place) /\ Len(D) = Telescopes
      /\ \A n \in 1..Telescopes : D[n] = <<"drive", n>>
  <2>1. Count["drive"] = Telescopes /\ "drive" \in DOMAIN Count
    BY DEF Count
  <2> QED
    BY <2>1, EachPlace
<1>5. F \in Seq(Place) /\ Len(F) = 1 /\ F[1] = FlagOf("scheduler")
  BY DEF Place
<1>6. /\ G \in Seq(Place)
      /\ Len(G) = AfterFlags - (1 + Robots)
      /\ Robots > 0 => G[1] = FlagOf("robobs")
  <2>1. CASE Robots = 0
    BY <2>1 DEF AfterFlags
  <2>2. CASE Robots > 0
    <3>1. G = <<FlagOf("robobs")>>
      BY <2>2
    <3>2. AfterFlags = Robots + 2
      BY <2>2 DEF AfterFlags
    <3> HIDE DEF G
    <3> QED
      BY <1>0, <3>1, <3>2 DEF Place
  <2> QED
    BY <1>0, <2>1, <2>2
<1>7. AfterFlags \in Nat /\ (Robots > 0 => AfterFlags = Robots + 2)
  BY <1>0 DEF AfterFlags
<1> HIDE DEF F, R, G, Q, D
<1> DEFINE A == F \o R
<1>8. /\ A \in Seq(Place) /\ Len(A) = 1 + Robots /\ A[1] = FlagOf("scheduler")
      /\ \A n \in 1..Robots : A[1 + n] = <<"robot", n>>
  <2>1. /\ A \in Seq(Place) /\ Len(A) = Len(F) + Len(R)
        /\ \A n \in 1..Len(F) : A[n] = F[n]
        /\ \A n \in 1..Len(R) : A[Len(F) + n] = R[n]
    BY <1>2, <1>5, Concat
  <2> HIDE DEF A
  <2> QED
    BY <1>0, <1>2, <1>5, <2>1
<1> DEFINE B == A \o G
<1> HIDE DEF A
<1>9. /\ B \in Seq(Place) /\ Len(B) = AfterFlags /\ B[1] = FlagOf("scheduler")
      /\ \A n \in 1..Robots : B[1 + n] = <<"robot", n>>
      /\ Robots > 0 => B[Robots + 2] = FlagOf("robobs")
  <2>0. A \in Seq(Place) /\ G \in Seq(Place)
    BY <1>6, <1>8
  <2>1. /\ B \in Seq(Place) /\ Len(B) = Len(A) + Len(G)
        /\ \A n \in 1..Len(A) : B[n] = A[n]
        /\ \A n \in 1..Len(G) : B[Len(A) + n] = G[n]
    BY <2>0, Concat
  <2> HIDE DEF B
  <2>2. Len(B) = AfterFlags
    BY <1>0, <1>6, <1>7, <1>8, <2>1
  <2>3. B[1] = FlagOf("scheduler")
    BY <1>0, <1>8, <2>1
  <2>4. ASSUME NEW n \in 1..Robots
        PROVE  B[1 + n] = <<"robot", n>>
    <3>1. 1 + n \in 1..Len(A)
      BY <1>0, <1>8
    <3> QED
      BY <1>8, <2>1, <3>1
  <2>5. Robots > 0 => B[Robots + 2] = FlagOf("robobs")
    <3>1. Robots > 0 => 1 \in 1..Len(G) /\ Len(A) + 1 = Robots + 2
      BY <1>0, <1>6, <1>7, <1>8
    <3> QED
      BY <1>6, <2>1, <3>1
  <2> QED
    BY <2>1, <2>2, <2>3, <2>4, <2>5
<1> DEFINE C == B \o Q
<1> HIDE DEF B
<1>10. /\ C \in Seq(Place) /\ Len(C) = AfterFlags + Schedulers
       /\ \A n \in 1..AfterFlags : C[n] = B[n]
       /\ \A n \in 1..Schedulers : C[AfterFlags + n] = <<"queue", n>>
  <2>0. B \in Seq(Place) /\ Q \in Seq(Place)
    BY <1>3, <1>9
  <2>1. /\ C \in Seq(Place) /\ Len(C) = Len(B) + Len(Q)
        /\ \A n \in 1..Len(B) : C[n] = B[n]
        /\ \A n \in 1..Len(Q) : C[Len(B) + n] = Q[n]
    BY <2>0, Concat
  <2> HIDE DEF C
  <2> QED
    BY <1>3, <1>9, <2>1
<1> DEFINE E == C \o D
<1> HIDE DEF C
<1>11. /\ E \in Seq(Place) /\ Len(E) = AfterFlags + Schedulers + Telescopes
       /\ \A n \in 1..(AfterFlags + Schedulers) : E[n] = C[n]
       /\ \A n \in 1..Telescopes : E[AfterFlags + Schedulers + n] = <<"drive", n>>
  <2>0. C \in Seq(Place) /\ D \in Seq(Place)
    BY <1>4, <1>10
  <2>1. /\ E \in Seq(Place) /\ Len(E) = Len(C) + Len(D)
        /\ \A n \in 1..Len(C) : E[n] = C[n]
        /\ \A n \in 1..Len(D) : E[Len(C) + n] = D[n]
    BY <2>0, Concat
  <2> HIDE DEF E
  <2> QED
    BY <1>4, <1>10, <2>1
<1>12. Places("stop_all") = E
  BY <1>1 DEF A, B, C, E
<1> HIDE DEF E
<1>13. \A n \in 1..AfterFlags : E[n] = B[n]
  BY <1>0, <1>7, <1>10, <1>11
<1>14. ASSUME NEW n \in 1..Robots
       PROVE  E[1 + n] = <<"robot", n>>
  <2>1. 1 + n \in 1..AfterFlags
    BY <1>0, <1>7
  <2> QED
    BY <1>9, <1>13, <2>1
<1>15. ASSUME NEW n \in 1..Schedulers
       PROVE  E[AfterFlags + n] = <<"queue", n>>
  <2>1. AfterFlags + n \in 1..(AfterFlags + Schedulers)
    BY <1>0, <1>7
  <2> QED
    BY <1>10, <1>11, <2>1
<1>16. E[1] = FlagOf("scheduler")
  <2>1. 1 \in 1..AfterFlags
    BY <1>0 DEF AfterFlags
  <2> QED
    BY <1>9, <1>13, <2>1
<1>17. Robots > 0 => E[Robots + 2] = FlagOf("robobs")
  <2>1. Robots > 0 => Robots + 2 \in 1..AfterFlags
    BY <1>0, <1>7
  <2> QED
    BY <1>9, <1>13, <2>1
<1> QED
  BY <1>11, <1>12, <1>14, <1>15, <1>16, <1>17

-----------------------------------------------------------------------------
(* What the steps of the responses are.                                    *)

\* A step of any response, among the steps S of that response at p.
ReadOK(S, n) ==
    S[n].op = "read" =>
        /\ S[n].ins \in Instruments
        /\ S[n].orelse \in {"fail", "return", "skip"}
        /\ S[n].orelse = "skip" =>
              /\ n + 2 <= Len(S)
              /\ S[n + 1].op = "set"
              /\ S[n].flags = {"operating"}

SetOK(r, p, S, n) ==
    S[n].op = "set" =>
        /\ S[n].ins \in Instruments
        /\ S[n].flag \in Flag \ {"lock"}
        /\ S[n].orelse \in {"fail", "next", "error"}
        /\ S[n].broken \in {"fail", "next", "error"}
        /\ S[n].ins = "robobs" =>
              \/ r = "start_robobs" /\ S[n].flag = "operating"
              \/ r = "stop_robobs" /\ S[n].flag = "ready" /\ n = 2 /\ S[1].op = "command"
              \/ r = "stop_all" /\ S[n].flag = "ready" /\ p = FlagOf("robobs")

CommandOK(p, S, n) ==
    S[n].op = "command" =>
        /\ p \in Devices
        /\ S[n].to \in BOOLEAN
        /\ S[n].orelse \in {"fail", "next", "error"}
        /\ S[n].orelse = "error" => S[n].ins \in Instruments

\* Responses whose failures do not keep them from going on.
TriedOK(r, p, S, n) ==
    /\ r = "close_slit" =>
          /\ S[n].op = "read" => S[n].orelse = "skip"
          /\ S[n].op = "set" => S[n].orelse = "next" /\ S[n].broken = "next"
          /\ S[n].op = "command" => S[n].orelse = "error"
    /\ r = "stop_all" =>
          /\ Len(S) = 1
          /\ S[n].op \in {"set", "command"}
          /\ S[n].orelse = "next"
          /\ S[n].op = "set" => S[n].broken = "next" /\ p \notin Devices
          /\ S[n].op = "command" => S[n].to = FALSE
    /\ r = "stop_robobs" =>
          /\ S[n].op \in {"set", "command"}
          /\ S[n].op = "command" => S[n].to = FALSE
    /\ r = "start_robobs" =>
          /\ n = 4 <=> S[n].op = "command"
          /\ n = 3 <=> S[n].op = "set"
          /\ S[n].op = "read" => S[n].orelse = "return"
    /\ r = "start_robobs" /\ n = 3 =>
          /\ S[n].op = "set" /\ S[n].ins = "robobs" /\ S[n].flag = "operating"
          /\ S[n].orelse = "fail" /\ S[n].broken = "fail"

\* A device that opens, or starts, does so behind two reads of the board.
OpenOK(r, p, S, n) ==
    S[n].op = "command" /\ S[n].to =>
        /\ p \in All("slit") \cup All("flap") =>
              n = 4 /\ S[1] = MayOpen("dome") /\ S[2] = MayOpen("site")
        /\ p \in All("cover") =>
              n = 3 /\ S[1] = MayOpen("telescope") /\ S[2] = MayOpen("site")
        /\ p \in All("robot") =>
              /\ r = "start_robobs" /\ n = 4
              /\ S[1] = NotLocked("dome") /\ S[2] = NotLocked("site")

StepOK(r, p, S, n) ==
    /\ S[n].op \in {"read", "set", "command"}
    /\ ReadOK(S, n)
    /\ SetOK(r, p, S, n)
    /\ CommandOK(p, S, n)
    /\ TriedOK(r, p, S, n)
    /\ OpenOK(r, p, S, n)

\* A well-formed program.
ProgramOK(r, p, S) ==
    /\ Len(S) \in 1..4
    /\ DOMAIN S = 1..Len(S)
    /\ \A n \in 1..Len(S) : StepOK(r, p, S, n)

\* Short sequences.
LEMMA Tuples ==
    ASSUME NEW a, NEW b, NEW c, NEW d
    PROVE  /\ Len(<<a>>) = 1 /\ DOMAIN <<a>> = 1..1 /\ <<a>>[1] = a
           /\ Len(<<a, b>>) = 2 /\ DOMAIN <<a, b>> = 1..2
           /\ <<a, b>>[1] = a /\ <<a, b>>[2] = b
           /\ Len(<<a, b, c>>) = 3 /\ DOMAIN <<a, b, c>> = 1..3
           /\ <<a, b, c>>[1] = a /\ <<a, b, c>>[2] = b /\ <<a, b, c>>[3] = c
           /\ Len(<<a, b, c, d>>) = 4 /\ DOMAIN <<a, b, c, d>> = 1..4
           /\ <<a, b, c, d>>[1] = a /\ <<a, b, c, d>>[2] = b
           /\ <<a, b, c, d>>[3] = c /\ <<a, b, c, d>>[4] = d
  OBVIOUS

LEMMA OpenProgram ==
    ASSUME NEW r \in {"open_slit", "open_flap"},
           NEW p \in Devices, p[1] \in {"slit", "flap"}
    PROVE  ProgramOK(r, p, GuardedOpen("dome"))
<1> DEFINE S == GuardedOpen("dome")
<1>1. S = <<MayOpen("dome"), MayOpen("site"),
            Set("dome", "operating", "fail", "error"), Command("dome", TRUE, "fail")>>
  BY DEF GuardedOpen
<1> HIDE DEF S
<1>2. /\ Len(S) = 4 /\ DOMAIN S = 1..4
      /\ S[1] = MayOpen("dome") /\ S[2] = MayOpen("site")
      /\ S[3] = Set("dome", "operating", "fail", "error")
      /\ S[4] = Command("dome", TRUE, "fail")
  BY <1>1, Tuples
<1>3. p \notin All("cover") /\ p \notin All("robot")
  BY DEF All
<1>4. ASSUME NEW n \in 1..4
      PROVE  StepOK(r, p, S, n)
  <2>1. CASE n = 1
    BY <1>2, <2>1, ResponsesAssumption
    DEF StepOK, ReadOK, SetOK, CommandOK, TriedOK, OpenOK, MayOpen, Read
  <2>2. CASE n = 2
    BY <1>2, <2>2, ResponsesAssumption
    DEF StepOK, ReadOK, SetOK, CommandOK, TriedOK, OpenOK, MayOpen, Read
  <2>3. CASE n = 3
    BY <1>2, <2>3, ResponsesAssumption
    DEF StepOK, ReadOK, SetOK, CommandOK, TriedOK, OpenOK, Set, Flag
  <2>4. CASE n = 4
    <3>1. S[n] = [op |-> "command", ins |-> "dome", to |-> TRUE, orelse |-> "fail"]
      BY <1>2, <2>4 DEF Command
    <3>2. S[n].op = "command" /\ S[n].orelse = "fail" /\ S[n].to = TRUE
      BY <3>1
    <3>3. ReadOK(S, n) /\ SetOK(r, p, S, n) /\ CommandOK(p, S, n) /\ TriedOK(r, p, S, n)
      BY <3>2 DEF ReadOK, SetOK, CommandOK, TriedOK
    <3>4. OpenOK(r, p, S, n)
      BY <1>2, <1>3, <2>4 DEF OpenOK
    <3> QED
      BY <3>2, <3>3, <3>4 DEF StepOK
  <2> QED
    BY <2>1, <2>2, <2>3, <2>4
<1>5. ProgramOK(r, p, S)
  BY <1>2, <1>4 DEF ProgramOK
<1> QED
  BY <1>5 DEF S

LEMMA CloseProgram ==
    ASSUME NEW p \in Devices
    PROVE  ProgramOK("close_slit", p, GuardedClose("dome"))
<1> DEFINE S == GuardedClose("dome")
<1>1. S = <<Read("dome", {"operating"}, "skip"),
            Set("dome", "ready", "next", "next"),
            Command("dome", FALSE, "error")>>
  BY DEF GuardedClose
<1> HIDE DEF S
<1>2. /\ Len(S) = 3 /\ DOMAIN S = 1..3
      /\ S[1] = Read("dome", {"operating"}, "skip")
      /\ S[2] = Set("dome", "ready", "next", "next")
      /\ S[3] = Command("dome", FALSE, "error")
  BY <1>1, Tuples
<1>4. ASSUME NEW n \in 1..3
      PROVE  StepOK("close_slit", p, S, n)
  <2>1. CASE n = 1
    <3>2. /\ S[n].op = "read" /\ S[n].ins = "dome" /\ S[n].flags = {"operating"}
          /\ S[n].orelse = "skip" /\ S[n + 1].op = "set"
      BY <1>2, <2>1 DEF Read, Set
    <3>3. SetOK("close_slit", p, S, n) /\ CommandOK(p, S, n) /\ OpenOK("close_slit", p, S, n)
      BY <3>2 DEF SetOK, CommandOK, OpenOK
    <3>4. ReadOK(S, n)
      BY <1>2, <2>1, <3>2, ResponsesAssumption DEF ReadOK
    <3>5. TriedOK("close_slit", p, S, n)
      BY <3>2 DEF TriedOK
    <3> QED
      BY <3>2, <3>3, <3>4, <3>5 DEF StepOK
  <2>2. CASE n = 2
    BY <1>2, <2>2, ResponsesAssumption
    DEF StepOK, ReadOK, SetOK, CommandOK, TriedOK, OpenOK, Set, Flag
  <2>3. CASE n = 3
    <3>1. S[n] = [op |-> "command", ins |-> "dome", to |-> FALSE, orelse |-> "error"]
      BY <1>2, <2>3 DEF Command
    <3>2. S[n].op = "command" /\ S[n].orelse = "error" /\ S[n].to = FALSE /\ S[n].ins = "dome"
      BY <3>1
    <3>3. ReadOK(S, n) /\ SetOK("close_slit", p, S, n) /\ CommandOK(p, S, n) /\ TriedOK("close_slit", p, S, n)
      BY <1>2, <2>3, <3>2, ResponsesAssumption DEF ReadOK, SetOK, CommandOK, TriedOK
    <3>4. OpenOK("close_slit", p, S, n)
      BY <1>2, <2>3, <3>2 DEF OpenOK
    <3> QED
      BY <3>2, <3>3, <3>4 DEF StepOK
  <2> QED
    BY <2>1, <2>2, <2>3
<1>5. ProgramOK("close_slit", p, S)
  BY <1>2, <1>4 DEF ProgramOK
<1> QED
  BY <1>5 DEF S

LEMMA CoverProgram ==
    ASSUME NEW p \in Devices, p[1] = "cover"
    PROVE  ProgramOK("open_cover", p, <<MayOpen("telescope"), MayOpen("site"), Command("telescope", TRUE, "fail")>>)
<1> DEFINE S == <<MayOpen("telescope"), MayOpen("site"), Command("telescope", TRUE, "fail")>>
<1>1. S = <<MayOpen("telescope"),
            MayOpen("site"),
            Command("telescope", TRUE, "fail")>>
  OBVIOUS
<1> HIDE DEF S
<1>2. /\ Len(S) = 3 /\ DOMAIN S = 1..3
      /\ S[1] = MayOpen("telescope")
      /\ S[2] = MayOpen("site")
      /\ S[3] = Command("telescope", TRUE, "fail")
  BY <1>1, Tuples
<1>3. p \notin All("slit") /\ p \notin All("flap") /\ p \notin All("robot")
  BY DEF All
<1>4. ASSUME NEW n \in 1..3
      PROVE  StepOK("open_cover", p, S, n)
  <2>1. CASE n = 1
    BY <1>2, <2>1, ResponsesAssumption
    DEF StepOK, ReadOK, SetOK, CommandOK, TriedOK, OpenOK, MayOpen, Read
  <2>2. CASE n = 2
    BY <1>2, <2>2, ResponsesAssumption
    DEF StepOK, ReadOK, SetOK, CommandOK, TriedOK, OpenOK, MayOpen, Read
  <2>3. CASE n = 3
    <3>1. S[n] = [op |-> "command", ins |-> "telescope", to |-> TRUE, orelse |-> "fail"]
      BY <1>2, <2>3 DEF Command
    <3>2. S[n].op = "command" /\ S[n].orelse = "fail" /\ S[n].to = TRUE /\ S[n].ins = "telescope"
      BY <3>1
    <3>3. ReadOK(S, n) /\ SetOK("open_cover", p, S, n) /\ CommandOK(p, S, n) /\ TriedOK("open_cover", p, S, n)
      BY <1>2, <2>3, <3>2, ResponsesAssumption DEF ReadOK, SetOK, CommandOK, TriedOK
    <3>4. OpenOK("open_cover", p, S, n)
      BY <1>2, <1>3, <2>3, <3>2 DEF OpenOK
    <3> QED
      BY <3>2, <3>3, <3>4 DEF StepOK
  <2> QED
    BY <2>1, <2>2, <2>3
<1>5. ProgramOK("open_cover", p, S)
  BY <1>2, <1>4 DEF ProgramOK
<1> QED
  BY <1>5 DEF S

LEMMA StartRobotProgram ==
    ASSUME NEW p \in Devices, p[1] = "robot"
    PROVE  ProgramOK("start_robobs", p, StartRobot)
<1> DEFINE S == StartRobot
<1>1. S = <<NotLocked("dome"),
            NotLocked("site"),
            Set("robobs", "operating", "fail", "fail"),
            Command("robobs", TRUE, "error")>>
  BY DEF StartRobot
<1> HIDE DEF S
<1>2. /\ Len(S) = 4 /\ DOMAIN S = 1..4
      /\ S[1] = NotLocked("dome")
      /\ S[2] = NotLocked("site")
      /\ S[3] = Set("robobs", "operating", "fail", "fail")
      /\ S[4] = Command("robobs", TRUE, "error")
  BY <1>1, Tuples
<1>3. p \notin All("slit") /\ p \notin All("flap") /\ p \notin All("cover")
  BY DEF All
<1>4. ASSUME NEW n \in 1..4
      PROVE  StepOK("start_robobs", p, S, n)
  <2>1. CASE n = 1
    BY <1>2, <2>1, ResponsesAssumption
    DEF StepOK, ReadOK, SetOK, CommandOK, TriedOK, OpenOK, NotLocked, Read
  <2>2. CASE n = 2
    BY <1>2, <2>2, ResponsesAssumption
    DEF StepOK, ReadOK, SetOK, CommandOK, TriedOK, OpenOK, NotLocked, Read
  <2>3. CASE n = 3
    BY <1>2, <2>3, ResponsesAssumption
    DEF StepOK, ReadOK, SetOK, CommandOK, TriedOK, OpenOK, Set, Flag
  <2>4. CASE n = 4
    <3>1. S[n] = [op |-> "command", ins |-> "robobs", to |-> TRUE, orelse |-> "error"]
      BY <1>2, <2>4 DEF Command
    <3>2. S[n].op = "command" /\ S[n].orelse = "error" /\ S[n].to = TRUE /\ S[n].ins = "robobs"
      BY <3>1
    <3>3. ReadOK(S, n) /\ SetOK("start_robobs", p, S, n) /\ CommandOK(p, S, n) /\ TriedOK("start_robobs", p, S, n)
      <4>1. ReadOK(S, n) /\ SetOK("start_robobs", p, S, n)
        BY <3>2 DEF ReadOK, SetOK
      <4>2. CommandOK(p, S, n)
        BY <3>2, ResponsesAssumption DEF CommandOK
      <4>3. TriedOK("start_robobs", p, S, n)
        BY <2>4, <3>2 DEF TriedOK
      <4> QED
        BY <4>1, <4>2, <4>3
    <3>4. OpenOK("start_robobs", p, S, n)
      BY <1>2, <1>3, <2>4, <3>2 DEF OpenOK
    <3> QED
      BY <3>2, <3>3, <3>4 DEF StepOK
  <2> QED
    BY <2>1, <2>2, <2>3, <2>4
<1>5. ProgramOK("start_robobs", p, S)
  BY <1>2, <1>4 DEF ProgramOK
<1> QED
  BY <1>5 DEF S

LEMMA StopRobotProgram ==
    ASSUME NEW p \in Devices
    PROVE  ProgramOK("stop_robobs", p, StopRobot)
<1> DEFINE S == StopRobot
<1>1. S = <<Command("robobs", FALSE, "fail"),
            Set("robobs", "ready", "fail", "fail")>>
  BY DEF StopRobot
<1> HIDE DEF S
<1>2. /\ Len(S) = 2 /\ DOMAIN S = 1..2
      /\ S[1] = Command("robobs", FALSE, "fail")
      /\ S[2] = Set("robobs", "ready", "fail", "fail")
  BY <1>1, Tuples
<1>4. ASSUME NEW n \in 1..2
      PROVE  StepOK("stop_robobs", p, S, n)
  <2>1. CASE n = 1
    <3>1. S[n] = [op |-> "command", ins |-> "robobs", to |-> FALSE, orelse |-> "fail"]
      BY <1>2, <2>1 DEF Command
    <3>2. S[n].op = "command" /\ S[n].orelse = "fail" /\ S[n].to = FALSE /\ S[n].ins = "robobs"
      BY <3>1
    <3>3. ReadOK(S, n) /\ SetOK("stop_robobs", p, S, n) /\ CommandOK(p, S, n) /\ TriedOK("stop_robobs", p, S, n)
      BY <1>2, <2>1, <3>2, ResponsesAssumption DEF ReadOK, SetOK, CommandOK, TriedOK
    <3>4. OpenOK("stop_robobs", p, S, n)
      BY <1>2, <2>1, <3>2 DEF OpenOK
    <3> QED
      BY <3>2, <3>3, <3>4 DEF StepOK
  <2>2. CASE n = 2
    <3>1. S[1].op = "command"
      BY <1>2 DEF Command
    <3>2. S[n].op = "set" /\ S[n].ins = "robobs" /\ S[n].flag = "ready"
          /\ S[n].orelse = "fail" /\ S[n].broken = "fail"
      BY <1>2, <2>2 DEF Set
    <3>3. ReadOK(S, n) /\ CommandOK(p, S, n) /\ OpenOK("stop_robobs", p, S, n)
      BY <3>2 DEF ReadOK, CommandOK, OpenOK
    <3>4. SetOK("stop_robobs", p, S, n)
      BY <2>2, <3>1, <3>2, ResponsesAssumption DEF SetOK, Flag
    <3>5. TriedOK("stop_robobs", p, S, n)
      BY <3>2 DEF TriedOK
    <3> QED
      BY <3>2, <3>3, <3>4, <3>5 DEF StepOK
  <2> QED
    BY <2>1, <2>2
<1>5. ProgramOK("stop_robobs", p, S)
  BY <1>2, <1>4 DEF ProgramOK
<1> QED
  BY <1>5 DEF S

LEMMA UnparkProgram ==
    ASSUME NEW p \in Devices, p[1] = "mount"
    PROVE  ProgramOK("unpark", p, Unpark)
<1> DEFINE S == Unpark
<1>1. S = <<Read("telescope", Flag \ {"error"}, "fail"),
            Command("telescope", TRUE, "error"),
            Set("telescope", "ready", "error", "error")>>
  BY DEF Unpark
<1> HIDE DEF S
<1>2. /\ Len(S) = 3 /\ DOMAIN S = 1..3
      /\ S[1] = Read("telescope", Flag \ {"error"}, "fail")
      /\ S[2] = Command("telescope", TRUE, "error")
      /\ S[3] = Set("telescope", "ready", "error", "error")
  BY <1>1, Tuples
<1>3. /\ p \notin All("slit") /\ p \notin All("flap")
      /\ p \notin All("cover") /\ p \notin All("robot")
  BY DEF All
<1>4. ASSUME NEW n \in 1..3
      PROVE  StepOK("unpark", p, S, n)
  <2>1. CASE n = 1
    BY <1>2, <2>1, ResponsesAssumption
    DEF StepOK, ReadOK, SetOK, CommandOK, TriedOK, OpenOK, Read
  <2>2. CASE n = 2
    <3>1. S[n] = [op |-> "command", ins |-> "telescope", to |-> TRUE, orelse |-> "error"]
      BY <1>2, <2>2 DEF Command
    <3>2. S[n].op = "command" /\ S[n].orelse = "error" /\ S[n].to = TRUE /\ S[n].ins = "telescope"
      BY <3>1
    <3>3. ReadOK(S, n) /\ SetOK("unpark", p, S, n) /\ CommandOK(p, S, n) /\ TriedOK("unpark", p, S, n)
      BY <1>2, <2>2, <3>2, ResponsesAssumption DEF ReadOK, SetOK, CommandOK, TriedOK
    <3>4. OpenOK("unpark", p, S, n)
      BY <1>2, <1>3, <2>2, <3>2 DEF OpenOK
    <3> QED
      BY <3>2, <3>3, <3>4 DEF StepOK
  <2>3. CASE n = 3
    <3>2. S[n].op = "set" /\ S[n].ins = "telescope" /\ S[n].flag = "ready"
          /\ S[n].orelse = "error" /\ S[n].broken = "error"
      BY <1>2, <2>3 DEF Set
    <3>3. ReadOK(S, n) /\ CommandOK(p, S, n) /\ OpenOK("unpark", p, S, n)
      BY <3>2 DEF ReadOK, CommandOK, OpenOK
    <3>4. SetOK("unpark", p, S, n)
      BY <3>2, ResponsesAssumption DEF SetOK, Flag
    <3>5. TriedOK("unpark", p, S, n)
      BY DEF TriedOK
    <3> QED
      BY <3>2, <3>3, <3>4, <3>5 DEF StepOK
  <2> QED
    BY <2>1, <2>2, <2>3
<1>5. ProgramOK("unpark", p, S)
  BY <1>2, <1>4 DEF ProgramOK
<1> QED
  BY <1>5 DEF S

LEMMA ParkProgram ==
    ASSUME NEW p \in Devices
    PROVE  ProgramOK("park", p, Park)
<1> DEFINE S == Park
<1>1. S = <<Command("telescope", FALSE, "error"),
            Set("telescope", "close", "error", "error")>>
  BY DEF Park
<1> HIDE DEF S
<1>2. /\ Len(S) = 2 /\ DOMAIN S = 1..2
      /\ S[1] = Command("telescope", FALSE, "error")
      /\ S[2] = Set("telescope", "close", "error", "error")
  BY <1>1, Tuples
<1>4. ASSUME NEW n \in 1..2
      PROVE  StepOK("park", p, S, n)
  <2>1. CASE n = 1
    <3>1. S[n] = [op |-> "command", ins |-> "telescope", to |-> FALSE, orelse |-> "error"]
      BY <1>2, <2>1 DEF Command
    <3>2. S[n].op = "command" /\ S[n].orelse = "error" /\ S[n].to = FALSE /\ S[n].ins = "telescope"
      BY <3>1
    <3>3. ReadOK(S, n) /\ SetOK("park", p, S, n) /\ CommandOK(p, S, n) /\ TriedOK("park", p, S, n)
      BY <1>2, <2>1, <3>2, ResponsesAssumption DEF ReadOK, SetOK, CommandOK, TriedOK
    <3>4. OpenOK("park", p, S, n)
      BY <1>2, <2>1, <3>2 DEF OpenOK
    <3> QED
      BY <3>2, <3>3, <3>4 DEF StepOK
  <2>2. CASE n = 2
    BY <1>2, <2>2, ResponsesAssumption
    DEF StepOK, ReadOK, SetOK, CommandOK, TriedOK, OpenOK, Set, Flag
  <2> QED
    BY <2>1, <2>2
<1>5. ProgramOK("park", p, S)
  BY <1>2, <1>4 DEF ProgramOK
<1> QED
  BY <1>5 DEF S

LEMMA ConfigureProgram ==
    ASSUME NEW p \in Devices, p[1] = "program"
    PROVE  ProgramOK("configure_scheduler", p, Configure)
<1> DEFINE S == Configure
<1>1. S = <<Command("scheduler", TRUE, "error"),
            Set("scheduler", "ready", "fail", "fail")>>
  BY DEF Configure
<1> HIDE DEF S
<1>2. /\ Len(S) = 2 /\ DOMAIN S = 1..2
      /\ S[1] = Command("scheduler", TRUE, "error")
      /\ S[2] = Set("scheduler", "ready", "fail", "fail")
  BY <1>1, Tuples
<1>3. /\ p \notin All("slit") /\ p \notin All("flap")
      /\ p \notin All("cover") /\ p \notin All("robot")
  BY DEF All
<1>4. ASSUME NEW n \in 1..2
      PROVE  StepOK("configure_scheduler", p, S, n)
  <2>1. CASE n = 1
    <3>1. S[n] = [op |-> "command", ins |-> "scheduler", to |-> TRUE, orelse |-> "error"]
      BY <1>2, <2>1 DEF Command
    <3>2. S[n].op = "command" /\ S[n].orelse = "error" /\ S[n].to = TRUE /\ S[n].ins = "scheduler"
      BY <3>1
    <3>3. ReadOK(S, n) /\ SetOK("configure_scheduler", p, S, n) /\ CommandOK(p, S, n) /\ TriedOK("configure_scheduler", p, S, n)
      BY <1>2, <2>1, <3>2, ResponsesAssumption DEF ReadOK, SetOK, CommandOK, TriedOK
    <3>4. OpenOK("configure_scheduler", p, S, n)
      BY <1>2, <1>3, <2>1, <3>2 DEF OpenOK
    <3> QED
      BY <3>2, <3>3, <3>4 DEF StepOK
  <2>2. CASE n = 2
    BY <1>2, <2>2, ResponsesAssumption
    DEF StepOK, ReadOK, SetOK, CommandOK, TriedOK, OpenOK, Set, Flag
  <2> QED
    BY <2>1, <2>2
<1>5. ProgramOK("configure_scheduler", p, S)
  BY <1>2, <1>4 DEF ProgramOK
<1> QED
  BY <1>5 DEF S

\* The responses that command each device, and do nothing else.
LEMMA SingleCommand ==
    ASSUME NEW p \in Devices, NEW i, NEW to \in BOOLEAN,
           NEW r, r \notin {"close_slit", "stop_all", "stop_robobs", "start_robobs"},
           to => p[1] \notin {"slit", "flap", "cover", "robot"}
    PROVE  ProgramOK(r, p, <<Command(i, to, "fail")>>)
<1> DEFINE S == <<Command(i, to, "fail")>>
<1>1. S = <<Command(i, to, "fail")>>
  OBVIOUS
<1> HIDE DEF S
<1>2. /\ Len(S) = 1 /\ DOMAIN S = 1..1
      /\ S[1] = Command(i, to, "fail")
  BY <1>1, Tuples
<1>3. to => /\ p \notin All("slit") /\ p \notin All("flap")
            /\ p \notin All("cover") /\ p \notin All("robot")
  BY DEF All
<1>4. ASSUME NEW n \in 1..1
      PROVE  StepOK(r, p, S, n)
  <2>1. CASE n = 1
    <3>1. S[n] = [op |-> "command", ins |-> i, to |-> to, orelse |-> "fail"]
      BY <1>2, <2>1 DEF Command
    <3>2. S[n].op = "command" /\ S[n].orelse = "fail" /\ S[n].to = to /\ S[n].ins = i
      BY <3>1
    <3>3. ReadOK(S, n) /\ SetOK(r, p, S, n) /\ CommandOK(p, S, n) /\ TriedOK(r, p, S, n)
      BY <1>2, <2>1, <3>2, ResponsesAssumption DEF ReadOK, SetOK, CommandOK, TriedOK
    <3>4. OpenOK(r, p, S, n)
      BY <1>2, <1>3, <2>1, <3>2 DEF OpenOK
    <3> QED
      BY <3>2, <3>3, <3>4 DEF StepOK
  <2> QED
    BY <2>1
<1>5. ProgramOK(r, p, S)
  BY <1>2, <1>4 DEF ProgramOK
<1> QED
  BY <1>5 DEF S

LEMMA FlagProgram ==
    ASSUME NEW p
    PROVE  ProgramOK("start_scheduler", p, <<Set("scheduler", "operating", "fail", "fail")>>)
<1> DEFINE S == <<Set("scheduler", "operating", "fail", "fail")>>
<1>1. S = <<Set("scheduler", "operating", "fail", "fail")>>
  OBVIOUS
<1> HIDE DEF S
<1>2. /\ Len(S) = 1 /\ DOMAIN S = 1..1
      /\ S[1] = Set("scheduler", "operating", "fail", "fail")
  BY <1>1, Tuples
<1>4. ASSUME NEW n \in 1..1
      PROVE  StepOK("start_scheduler", p, S, n)
  <2>1. CASE n = 1
    BY <1>2, <2>1, ResponsesAssumption
    DEF StepOK, ReadOK, SetOK, CommandOK, TriedOK, OpenOK, Set, Flag
  <2> QED
    BY <2>1
<1>5. ProgramOK("start_scheduler", p, S)
  BY <1>2, <1>4 DEF ProgramOK
<1> QED
  BY <1>5 DEF S

\* The steps of stop_all.
LEMMA StopAllFlag ==
    ASSUME NEW i \in {"scheduler", "robobs"}, NEW p, p = FlagOf(i),
           NEW f \in {"close", "ready"}, i = "robobs" => f = "ready"
    PROVE  ProgramOK("stop_all", p, <<Set(i, f, "next", "next")>>)
<1> DEFINE S == <<Set(i, f, "next", "next")>>
<1>1. S = <<Set(i, f, "next", "next")>>
  OBVIOUS
<1> HIDE DEF S
<1>2. /\ Len(S) = 1 /\ DOMAIN S = 1..1
      /\ S[1] = Set(i, f, "next", "next")
  BY <1>1, Tuples
<1>4. ASSUME NEW n \in 1..1
      PROVE  StepOK("stop_all", p, S, n)
  <2>1. CASE n = 1
    <3>1. p \notin Devices
      BY FlagPlaces
    <3>2. S[n].op = "set" /\ S[n].ins = i /\ S[n].flag = f
          /\ S[n].orelse = "next" /\ S[n].broken = "next"
      BY <1>2, <2>1 DEF Set
    <3>3. ReadOK(S, n) /\ CommandOK(p, S, n) /\ OpenOK("stop_all", p, S, n)
      BY <3>2 DEF ReadOK, CommandOK, OpenOK
    <3>4. SetOK("stop_all", p, S, n)
      BY <3>2, ResponsesAssumption DEF SetOK, Flag
    <3>5. TriedOK("stop_all", p, S, n)
      BY <1>2, <3>1, <3>2 DEF TriedOK
    <3> QED
      BY <3>2, <3>3, <3>4, <3>5 DEF StepOK
  <2> QED
    BY <2>1
<1>5. ProgramOK("stop_all", p, S)
  BY <1>2, <1>4 DEF ProgramOK
<1> QED
  BY <1>5 DEF S

LEMMA StopAllDevice ==
    ASSUME NEW p \in Devices, NEW i \in Instruments
    PROVE  ProgramOK("stop_all", p, <<Command(i, FALSE, "next")>>)
<1> DEFINE S == <<Command(i, FALSE, "next")>>
<1>1. S = <<Command(i, FALSE, "next")>>
  OBVIOUS
<1> HIDE DEF S
<1>2. /\ Len(S) = 1 /\ DOMAIN S = 1..1
      /\ S[1] = Command(i, FALSE, "next")
  BY <1>1, Tuples
<1>4. ASSUME NEW n \in 1..1
      PROVE  StepOK("stop_all", p, S, n)
  <2>1. CASE n = 1
    <3>1. S[n] = [op |-> "command", ins |-> i, to |-> FALSE, orelse |-> "next"]
      BY <1>2, <2>1 DEF Command
    <3>2. S[n].op = "command" /\ S[n].orelse = "next" /\ S[n].to = FALSE /\ S[n].ins = i
      BY <3>1
    <3>3. ReadOK(S, n) /\ SetOK("stop_all", p, S, n) /\ CommandOK(p, S, n) /\ TriedOK("stop_all", p, S, n)
      BY <1>2, <2>1, <3>2, ResponsesAssumption DEF ReadOK, SetOK, CommandOK, TriedOK
    <3>4. OpenOK("stop_all", p, S, n)
      BY <1>2, <2>1, <3>2 DEF OpenOK
    <3> QED
      BY <3>2, <3>3, <3>4 DEF StepOK
  <2> QED
    BY <2>1
<1>5. ProgramOK("stop_all", p, S)
  BY <1>2, <1>4 DEF ProgramOK
<1> QED
  BY <1>5 DEF S

\* A response goes to devices, or to set a flag.
LEMMA PlacesAre ==
    ASSUME NEW r \in Response
    PROVE  /\ Places(r) \in Seq(Place)
           /\ DOMAIN Places(r) = 1..Len(Places(r))
           /\ Len(Places(r)) \in Nat
           /\ \A k \in DOMAIN Places(r) : Places(r)[k] \in Place
<1>1. Places(r) \in Seq(Place)
  <2>1. CASE r \in Plain
    BY <2>1, PlainPlaces, EachPlace
  <2>2. CASE r = "start_scheduler"
    BY <2>2, StartSchedulerPlaces
  <2>3. CASE r = "stop_all"
    BY <2>3, StopAllPlaces
  <2> QED
    BY <2>1, <2>2, <2>3 DEF Plain
<1> QED
  BY <1>1

LEMMA PlainPlace ==
    ASSUME NEW r \in Plain, NEW k \in DOMAIN Places(r)
    PROVE  /\ Places(r)[k] = <<KindOf(r), k>>
           /\ Places(r)[k][1] = KindOf(r)
           /\ Places(r)[k] \in Devices
<1>1. KindOf(r) \in DOMAIN Count /\ Places(r) = Each(KindOf(r))
  BY PlainPlaces
<1>2. /\ Len(Places(r)) = Count[KindOf(r)]
      /\ \A n \in 1..Count[KindOf(r)] : Places(r)[n] = <<KindOf(r), n>>
      /\ Places(r) \in Seq(Devices)
  BY <1>1, EachFacts
<1>3. k \in 1..Count[KindOf(r)]
  BY <1>2
<1>4. Places(r)[k] = <<KindOf(r), k>>
  BY <1>2, <1>3
<1>5. Places(r)[k] \in Devices
  BY <1>2, <1>3
<1> QED
  BY <1>4, <1>5

LEMMA StartSchedulerPlace ==
    ASSUME NEW k \in DOMAIN Places("start_scheduler")
    PROVE  LET p == Places("start_scheduler")[k] IN
           \/ p = FlagOf("scheduler")
           \/ p \in Devices /\ p[1] = "queue"
<1>1. Schedulers \in Nat /\ k \in 1..(1 + Schedulers)
  BY StartSchedulerPlaces, ResponsesAssumption
<1>2. CASE k = 1
  BY <1>2, StartSchedulerPlaces
<1>3. CASE k # 1
  <2>1. k - 1 \in 1..Schedulers /\ 1 + (k - 1) = k
    BY <1>1, <1>3
  <2>2. Places("start_scheduler")[1 + (k - 1)] = <<"queue", k - 1>>
    BY <2>1, StartSchedulerPlaces
  <2>3. <<"queue", k - 1>> \in Devices
    <3>1. "queue" \in DOMAIN Count /\ Count["queue"] = Schedulers
      BY DEF Count
    <3> QED
      BY <2>1, <3>1, EachFacts
  <2> QED
    BY <2>1, <2>2, <2>3
<1> QED
  BY <1>2, <1>3

LEMMA StopAllPlace ==
    ASSUME NEW k \in DOMAIN Places("stop_all")
    PROVE  LET p == Places("stop_all")[k] IN
           \/ p = FlagOf("scheduler")
           \/ p = FlagOf("robobs")
           \/ p \in Devices /\ p[1] \in {"robot", "queue", "drive"}
<1> DEFINE P == Places("stop_all")
<1>0. Robots \in Nat /\ Schedulers \in Nat /\ Telescopes \in Nat /\ AfterFlags \in Nat
  BY ResponsesAssumption DEF AfterFlags
<1>1. k \in 1..(AfterFlags + Schedulers + Telescopes)
  BY StopAllPlaces
<1>2. ASSUME NEW kind \in {"robot", "queue", "drive"}, NEW n \in 1..Count[kind],
             P[k] = <<kind, n>>
      PROVE  P[k] \in Devices /\ P[k][1] \in {"robot", "queue", "drive"}
  <2>1. kind \in DOMAIN Count
    BY DEF Count
  <2> QED
    BY <1>2, <2>1, EachFacts
<1>3. /\ Count["robot"] = Robots /\ Count["queue"] = Schedulers
      /\ Count["drive"] = Telescopes
  BY DEF Count
<1>4. CASE k = 1
  BY <1>4, StopAllPlaces
<1>5. CASE k # 1 /\ k <= 1 + Robots
  <2>1. k - 1 \in 1..Robots /\ 1 + (k - 1) = k
    BY <1>0, <1>1, <1>5
  <2>2. P[k] = <<"robot", k - 1>>
    BY <2>1, StopAllPlaces
  <2> QED
    BY <1>2, <1>3, <2>1, <2>2
<1>6. CASE k > 1 + Robots /\ k <= AfterFlags
  <2>1. Robots > 0 /\ k = Robots + 2
    BY <1>0, <1>1, <1>6 DEF AfterFlags
  <2> QED
    BY <2>1, StopAllPlaces
<1>7. CASE k > AfterFlags /\ k <= AfterFlags + Schedulers
  <2>1. k - AfterFlags \in 1..Schedulers /\ AfterFlags + (k - AfterFlags) = k
    BY <1>0, <1>1, <1>7
  <2>2. P[k] = <<"queue", k - AfterFlags>>
    BY <2>1, StopAllPlaces
  <2> QED
    BY <1>2, <1>3, <2>1, <2>2
<1>8. CASE k > AfterFlags + Schedulers
  <2> DEFINE n == k - (AfterFlags + Schedulers)
  <2>1. n \in 1..Telescopes /\ AfterFlags + Schedulers + n = k
    BY <1>0, <1>1, <1>8
  <2>2. P[AfterFlags + Schedulers + n] = <<"drive", n>>
    <3> HIDE DEF n
    <3> QED
      BY <2>1, StopAllPlaces
  <2> QED
    BY <1>2, <1>3, <2>1, <2>2
<1> QED
  BY <1>0, <1>1, <1>4, <1>5, <1>6, <1>7, <1>8

LEMMA StepsAre ==
    ASSUME NEW p
    PROVE  /\ Steps("open_slit", p) = GuardedOpen("dome")
           /\ Steps("open_flap", p) = GuardedOpen("dome")
           /\ Steps("close_slit", p) = GuardedClose("dome")
           /\ Steps("unpark", p) = Unpark
           /\ Steps("park", p) = Park
           /\ Steps("open_cover", p) = <<MayOpen("telescope"), MayOpen("site"),
                                         Command("telescope", TRUE, "fail")>>
           /\ Steps("configure_scheduler", p) = Configure
           /\ Steps("start_robobs", p) = StartRobot
           /\ Steps("stop_robobs", p) = StopRobot
           /\ Steps("stop_all", p) = StopAll(p)
  BY DEF Steps

LEMMA SingleStep ==
    ASSUME NEW p
    PROVE  /\ Steps("close_flap", p) = <<Command("dome", FALSE, "fail")>>
           /\ Steps("stand", p) = <<Command("dome", FALSE, "fail")>>
           /\ Steps("track", p) = <<Command("dome", TRUE, "fail")>>
           /\ Steps("close_cover", p) = <<Command("telescope", FALSE, "fail")>>
           /\ Steps("stop_tracking", p) = <<Command("telescope", FALSE, "fail")>>
           /\ Steps("slew", p) = <<Command("telescope", TRUE, "fail")>>
           /\ Steps("switch_on", p) = <<Command("switch", TRUE, "fail")>>
           /\ Steps("switch_off", p) = <<Command("switch", FALSE, "fail")>>
           /\ Steps("stop_scheduler", p) = <<Command("scheduler", FALSE, "fail")>>
  BY DEF Steps, Switch

LEMMA StopAllSteps ==
    ASSUME NEW p
    PROVE  /\ p = FlagOf("scheduler") =>
                  StopAll(p) = <<Set("scheduler", "close", "next", "next")>>
           /\ p = FlagOf("robobs") =>
                  StopAll(p) = <<Set("robobs", "ready", "next", "next")>>
<1>1. FlagOf("scheduler") # FlagOf("robobs")
  BY FlagPlaces
<1>2. \A i : FlagOf(i)[1] = "flag"
  BY DEF FlagOf
<1> QED
  BY <1>1, <1>2 DEF StopAll

\* All programs are well formed.
LEMMA Programs ==
    ASSUME NEW r \in Response, NEW k \in DOMAIN Places(r)
    PROVE  ProgramOK(r, Places(r)[k], Steps(r, Places(r)[k]))
<1> DEFINE p == Places(r)[k]
<1>1. CASE r \in Plain
  <2>1. p \in Devices /\ p[1] = KindOf(r)
    BY <1>1, PlainPlace
  <2> HIDE DEF p
  <2>2. CASE r \in {"open_slit", "open_flap"}
    <3>1. p[1] \in {"slit", "flap"}
      BY <2>1, <2>2 DEF KindOf
    <3> QED
      BY <2>1, <2>2, <3>1, StepsAre, OpenProgram DEF p
  <2>3. CASE r = "close_slit"
    BY <2>1, <2>3, StepsAre, CloseProgram DEF p
  <2>4. CASE r = "unpark"
    <3>1. p[1] = "mount"
      BY <2>1, <2>4 DEF KindOf
    <3> QED
      BY <2>1, <2>4, <3>1, StepsAre, UnparkProgram DEF p
  <2>5. CASE r = "park"
    BY <2>1, <2>5, StepsAre, ParkProgram DEF p
  <2>6. CASE r = "open_cover"
    <3>1. p[1] = "cover"
      BY <2>1, <2>6 DEF KindOf
    <3> QED
      BY <2>1, <2>6, <3>1, StepsAre, CoverProgram DEF p
  <2>7. CASE r = "configure_scheduler"
    <3>1. p[1] = "program"
      BY <2>1, <2>7 DEF KindOf
    <3> QED
      BY <2>1, <2>7, <3>1, StepsAre, ConfigureProgram DEF p
  <2>8. CASE r = "start_robobs"
    <3>1. p[1] = "robot"
      BY <2>1, <2>8 DEF KindOf
    <3> QED
      BY <2>1, <2>8, <3>1, StepsAre, StartRobotProgram DEF p
  <2>9. CASE r = "stop_robobs"
    BY <2>1, <2>9, StepsAre, StopRobotProgram DEF p
  <2>10. CASE r \in {"close_flap", "stand", "track", "close_cover", "stop_tracking",
                     "slew", "switch_on", "switch_off", "stop_scheduler"}
    <3>1. r \notin {"close_slit", "stop_all", "stop_robobs", "start_robobs"}
      BY <2>10
    <3>2. \A i : ProgramOK(r, p, <<Command(i, FALSE, "fail")>>)
      BY <2>1, <3>1, SingleCommand
    <3>3. ASSUME r \in {"track", "slew", "switch_on"}
          PROVE  \A i : ProgramOK(r, p, <<Command(i, TRUE, "fail")>>)
      <4>1. p[1] \notin {"slit", "flap", "cover", "robot"}
        BY <2>1, <3>3 DEF KindOf
      <4> QED
        BY <2>1, <3>1, <4>1, SingleCommand
    <3>4. CASE r \in {"track", "slew", "switch_on"}
      <4>1. \A i : ProgramOK(r, p, <<Command(i, TRUE, "fail")>>)
        BY <3>3, <3>4, Zenon
      <4> QED
        BY <3>4, <4>1, SingleStep DEF p
    <3>5. CASE r \notin {"track", "slew", "switch_on"}
      BY <2>10, <3>2, <3>5, SingleStep DEF p
    <3> QED
      BY <3>4, <3>5
  <2> QED
    BY <1>1, <2>2, <2>3, <2>4, <2>5, <2>6, <2>7, <2>8, <2>9, <2>10
    DEF Plain, Response
<1>2. CASE r = "start_scheduler"
  <2>1. CASE p = FlagOf("scheduler")
    <3>1. Steps(r, p) = <<Set("scheduler", "operating", "fail", "fail")>>
      BY <1>2, <2>1 DEF Steps
    <3> QED
      BY <1>2, <3>1, FlagProgram
  <2>2. CASE p \in Devices /\ p[1] = "queue"
    <3>1. p # FlagOf("scheduler")
      BY <2>2, FlagPlaces
    <3>2. Steps(r, p) = <<Command("scheduler", TRUE, "fail")>>
      BY <1>2, <3>1 DEF Steps
    <3>3. ProgramOK(r, p, <<Command("scheduler", TRUE, "fail")>>)
      <4> HIDE DEF p
      <4> QED
        BY <1>2, <2>2, SingleCommand
    <3> QED
      BY <3>2, <3>3
  <2> QED
    BY <1>2, <2>1, <2>2, StartSchedulerPlace
<1>3. CASE r = "stop_all"
  <2>1. Steps(r, p) = StopAll(p)
    BY <1>3, StepsAre
  <2>2. CASE p = FlagOf("scheduler")
    <3>1. StopAll(p) = <<Set("scheduler", "close", "next", "next")>>
      BY <2>2, StopAllSteps
    <3>2. ProgramOK("stop_all", p, <<Set("scheduler", "close", "next", "next")>>)
      <4> HIDE DEF p
      <4> QED
        BY <2>2, StopAllFlag
    <3> QED
      BY <1>3, <2>1, <3>1, <3>2
  <2>3. CASE p = FlagOf("robobs")
    <3>1. StopAll(p) = <<Set("robobs", "ready", "next", "next")>>
      BY <2>3, StopAllSteps
    <3>2. ProgramOK("stop_all", p, <<Set("robobs", "ready", "next", "next")>>)
      <4> HIDE DEF p
      <4> QED
        BY <2>3, StopAllFlag
    <3> QED
      BY <1>3, <2>1, <3>1, <3>2
  <2>4. CASE p \in Devices /\ p[1] \in {"robot", "queue", "drive"}
    <3>1. p # FlagOf("scheduler") /\ p # FlagOf("robobs")
      BY <2>4, FlagPlaces
    <3>2. \E i \in {"robobs", "scheduler", "telescope"} :
              StopAll(p) = <<Command(i, FALSE, "next")>>
      BY <2>4, <3>1 DEF StopAll
    <3>3. PICK i \in Instruments : StopAll(p) = <<Command(i, FALSE, "next")>>
      BY <3>2, ResponsesAssumption
    <3>4. ProgramOK("stop_all", p, <<Command(i, FALSE, "next")>>)
      <4> HIDE DEF p
      <4> QED
        BY <2>4, StopAllDevice
    <3> QED
      BY <1>3, <2>1, <3>3, <3>4
  <2> QED
    BY <1>3, <2>2, <2>3, <2>4, StopAllPlace
<1> QED
  BY <1>1, <1>2, <1>3 DEF Plain

-----------------------------------------------------------------------------
(* The inductive invariant.                                                *)

\* The m-th step at the k-th place of a response.
StepAt(r, k, m) == Steps(r, Places(r)[k])[m]

\* Calls of the store: operators set no flags, handlers write those of their
\* event and nobody but the robots' responses writes READY for robobs; a
\* running response is between two calls or in the one of its step.
OperatorCalls == \A o \in Operators : call[o].pc # "set_write"

HandlerCalls ==
    \A h \in Handlers :
        /\ event[h] \in Seq([ins : {"dome", "telescope", "scheduler"}, flag : Flag])
        /\ call[h] # Store!NoCall =>
              /\ event[h] # <<>>
              /\ call[h].pc = "set_write"
              /\ call[h].ins # "robobs"

RunnerCalls ==
    /\ resp = NoResp /\ call[Runner].pc = "set_write" =>
          ~ (call[Runner].ins = "robobs" /\ call[Runner].flag = "ready")
    /\ resp # NoResp /\ call[Runner] # Store!NoCall =>
          /\ call[Runner] = [pc |-> "set_write", ins |-> Step.ins, flag |-> Wanted]
          /\ resp.mark \/ Step.op = "set"

CallInv == OperatorCalls /\ HandlerCalls /\ RunnerCalls

\* ERROR is set for a step that asks for it; a command that does has raised.
Marked ==
    resp.mark => \/ Step.op = "command" /\ Step.orelse = "error" /\ Here \in raised
                 \/ Step.op = "set" /\ "error" \in {Step.orelse, Step.broken}

\* What a response has read at this device was so at some time since it began.
Looked ==
    \A m \in 1..(resp.n - 1) :
        LET s == StepAt(resp.name, resp.k, m) IN
        s.op = "read" => /\ s.flags = Operational => s.ins \notin barred
                         /\ s.flags = Flag \ {"lock"} => s.ins \notin locked

\* Every command on the way to this step was given.
Commanded ==
    \A k \in 1..resp.k :
        \A m \in DOMAIN Steps(resp.name, Places(resp.name)[k]) :
            /\ k < resp.k \/ m < resp.n
            /\ StepAt(resp.name, k, m).op = "command"
            => Places(resp.name)[k] \in tried

\* The robots' flag is not READY when one is about to start, is not left
\* OPERATING when stop_all has passed it; and what was stopped is off.
RobobsInv ==
    /\ resp.name = "start_robobs" /\ resp.n = 4 => flag["robobs"] # "ready"
    /\ resp.name = "stop_all" =>
          \A k \in 1..(resp.k - 1) :
              Places("stop_all")[k] = FlagOf("robobs") =>
                  flag["robobs"] # "operating" \/ hurt
    /\ resp.name \in {"stop_robobs", "stop_all"} =>
          \A r \in All("robot") \cap tried : on[r] => r \in unsure

Running == resp # NoResp => Marked /\ Looked /\ Commanded /\ RobobsInv

\* A robot whose command raised is one of which the board cannot know.
UnsureInv == /\ unsure \subseteq All("robot")
             /\ raised \subseteq tried
             /\ raised \cap All("robot") \subseteq unsure

RespInv == Store!TypeOK /\ TypeOK /\ CallInv /\ Running /\ UnsureInv /\ ReadyRobobsStopped

-----------------------------------------------------------------------------
(* Facts about a running response.                                         *)

LEMMA RespFacts ==
    ASSUME TypeOK, resp # NoResp
    PROVE  /\ resp.name \in Response /\ resp.mark \in BOOLEAN
           /\ Len(Places(resp.name)) \in Nat
           /\ resp.k \in 1..Len(Places(resp.name))
           /\ Len(Steps(resp.name, Here)) \in 1..4
           /\ DOMAIN Steps(resp.name, Here) = 1..Len(Steps(resp.name, Here))
           /\ resp.n \in 1..Len(Steps(resp.name, Here))
           /\ Here \in Place
           /\ StepOK(resp.name, Here, Steps(resp.name, Here), resp.n)
           /\ Step = Steps(resp.name, Here)[resp.n]
           /\ Step = StepAt(resp.name, resp.k, resp.n)
<1>1. resp.name \in plan.runnable /\ resp.mark \in BOOLEAN
      /\ resp.k \in DOMAIN Places(resp.name) /\ resp.n \in DOMAIN Steps(resp.name, Here)
  BY DEF TypeOK
<1>2. resp.name \in Response
  BY <1>1, ResponsesAssumption DEF TypeOK, Plan
<1>3. ProgramOK(resp.name, Here, Steps(resp.name, Here))
  BY <1>1, <1>2, Programs DEF Here
<1> QED
  BY <1>1, <1>2, <1>3, PlacesAre DEF ProgramOK, Here, Step, StepAt

\* A response that is somewhere is not the one that ran out.
LEMMA SomewhereIsRunning ==
    ASSUME TypeOK, resp # NoResp
    PROVE  /\ \A k, n : GoTo(k, n) # NoResp
           /\ Mark # NoResp
<1>1. resp.name # "none"
  BY RespFacts DEF Response
<1> QED
  BY <1>1 DEF GoTo, Mark, NoResp

\* The three ways on.
LEMMA AfterCases ==
    ASSUME TypeOK, resp # NoResp, NEW m \in {1, 2}
    PROVE  \/ /\ resp.n + m <= Len(Steps(resp.name, Here))
              /\ After(m) = GoTo(resp.k, resp.n + m)
           \/ /\ resp.n + m > Len(Steps(resp.name, Here))
              /\ resp.k < Len(Places(resp.name))
              /\ After(m) = GoTo(resp.k + 1, 1)
           \/ /\ resp.n + m > Len(Steps(resp.name, Here))
              /\ resp.k = Len(Places(resp.name))
              /\ After(m) = NoResp
<1> DEFINE L == Len(Steps(resp.name, Here))
           P == Len(Places(resp.name))
<1>1. L \in Nat /\ P \in Nat /\ resp.n \in Nat /\ resp.k \in Nat /\ resp.k <= P
  BY RespFacts
<1>2. After(m) = IF resp.n + m <= L THEN GoTo(resp.k, resp.n + m)
                 ELSE IF resp.k < P THEN GoTo(resp.k + 1, 1)
                 ELSE NoResp
  BY DEF After
<1> HIDE DEF L, P
<1>3. CASE resp.n + m <= L
  BY <1>2, <1>3 DEF L
<1>4. CASE ~ (resp.n + m <= L) /\ resp.k < P
  <2>1. resp.n + m > L
    BY <1>1, <1>4
  <2> QED
    BY <1>2, <1>4, <2>1 DEF L, P
<1>5. CASE ~ (resp.n + m <= L) /\ ~ (resp.k < P)
  <2>1. resp.n + m > L /\ resp.k = P
    BY <1>1, <1>5
  <2> QED
    BY <1>2, <1>5, <2>1 DEF L, P
<1> QED
  BY <1>3, <1>4, <1>5

-----------------------------------------------------------------------------
(* The store under the responses.                                          *)

LEMMA StoreIsStored ==
    /\ Store!TypeOK <=> Stored!TypeOK
    /\ [Store!Next]_store => [Stored!Next]_(Stored!vars)
    /\ Stored!Configuration
<1>1. Stored!Configuration
  BY DEF Stored!Configuration, Stored!Flag, Flag
<1>2. Store!TypeOK <=> Stored!TypeOK
  BY DEF Store!TypeOK, Stored!TypeOK, Store!Flag, Stored!Flag, Store!NoRow, Stored!NoRow,
         Store!NoCall, Stored!NoCall, Store!SetCall, Stored!SetCall,
         Store!KeyCall, Stored!KeyCall
<1>3. Store!Next => Stored!Next
  <2> USE DEF Store!Flag, Stored!Flag, Store!NoRow, Stored!NoRow, Store!NoCall, Stored!NoCall,
              Store!ReadFlag, Stored!ReadFlag, Store!Idle, Stored!Idle, Store!At, Stored!At,
              Store!Busy, Stored!Busy, Store!Goto, Stored!Goto, Store!Return, Stored!Return,
              Store!Overtake, Stored!Overtake, Store!durable, Stored!durable
  <2>1. \A t \in Threads : Store!SetFlag(t) => Stored!SetFlag(t)
    BY DEF Store!SetFlag, Stored!SetFlag, Store!SetFlagRead, Stored!SetFlagRead,
           Store!SetFlagWrite, Stored!SetFlagWrite
  <2>2. \A t \in Threads : Store!Lock(t) => Stored!Lock(t)
    BY DEF Store!Lock, Stored!Lock, Store!LockKey, Stored!LockKey,
           Store!LockFlag, Stored!LockFlag, Store!Unlocking, Stored!Unlocking
  <2>3. \A t \in Threads : Store!Unlock(t) => Stored!Unlock(t)
    BY DEF Store!Unlock, Stored!Unlock, Store!UnlockRead, Stored!UnlockRead,
           Store!UnlockCheck, Stored!UnlockCheck, Store!UnlockDrop, Stored!UnlockDrop,
           Store!UnlockRest, Stored!UnlockRest, Store!UnlockClose, Stored!UnlockClose
  <2>4. Store!Boot => Stored!Boot
    BY DEF Store!Boot, Stored!Boot, Store!Start, Stored!Start,
           Store!RegisterInstrument, Stored!RegisterInstrument,
           Store!ResetVolatileFlag, Stored!ResetVolatileFlag,
           Store!Registered, Stored!Registered, Store!Serve, Stored!Serve
  <2>5. ~ Store!Crash
    BY DEF Store!Crash
  <2> QED
    BY <2>1, <2>2, <2>3, <2>4, <2>5 DEF Store!Next, Stored!Next
<1>4. UNCHANGED store => UNCHANGED Stored!vars
  BY DEF store, Stored!vars
<1> QED
  BY <1>1, <1>2, <1>3, <1>4

\* What the runner is about to set.
LEMMA SettingFacts ==
    ASSUME TypeOK, resp # NoResp, Marked, resp.mark \/ Step.op = "set"
    PROVE  /\ Step.ins \in Instruments
           /\ Wanted \in Flag
           /\ Wanted # "lock"
<1>1. StepOK(resp.name, Here, Steps(resp.name, Here), resp.n)
      /\ Step = Steps(resp.name, Here)[resp.n]
  BY RespFacts
<1>2. CASE Step.op = "set"
  BY <1>1, <1>2 DEF StepOK, SetOK, Wanted, Flag
<1>3. CASE resp.mark /\ Step.op = "command" /\ Step.orelse = "error"
  BY <1>1, <1>3 DEF StepOK, CommandOK, Wanted, Flag
<1> QED
  BY <1>2, <1>3 DEF Marked

LEMMA PlanFacts ==
    ASSUME TypeOK
    PROVE  /\ plan \in Plan
           /\ \A w \in plan.written : w[1] \in Instruments /\ w[2] \in Flag
           /\ \A w \in plan.written : ~ (w[1] = "robobs" /\ w[2] = "ready")
           /\ plan.keyed \subseteq Instruments /\ plan.lockable \subseteq Instruments
<1>1. plan \in Plan /\ <<"robobs", "ready">> \notin plan.written
  BY ResponsesAssumption DEF TypeOK
<1>2. \A w \in Instruments \X Flag : w = <<w[1], w[2]>> /\ w[1] \in Instruments /\ w[2] \in Flag
  OBVIOUS
<1>3. plan.written \subseteq Instruments \X Flag
  BY <1>1 DEF Plan
<1> QED
  BY <1>1, <1>2, <1>3 DEF Plan

LEMMA KeyCallSteps ==
    ASSUME NEW t \in Threads, NEW locks \in SUBSET Instruments, KeyCall(t, locks)
    PROVE  Store!Lock(t) \/ Store!Unlock(t)
  BY DEF KeyCall, Store!Lock, Store!Unlock

\* Every step uses the store as its callers may, or leaves it alone.
LEMMA StoreUse ==
    ASSUME TypeOK, CallInv, Running, [Next]_vars
    PROVE  [Store!Next]_store
<1>1. Runner \in Threads /\ Operators \subseteq Threads /\ Handlers \subseteq Threads
  BY DEF Threads
<1>2. CASE SetBegin
  <2>1. resp # NoResp /\ (resp.mark \/ Step.op = "set")
    BY <1>2 DEF SetBegin, Setting, AtStep, NoResp
  <2>2. Step.ins \in Instruments /\ Wanted \in Flag
    BY <2>1, SettingFacts DEF Running
  <2>3. Store!SetFlagRead(Runner, Step.ins, Wanted)
    BY <1>2 DEF SetBegin
  <2>4. Store!SetFlag(Runner)
    BY <2>2, <2>3 DEF Store!SetFlag
  <2> QED
    BY <1>1, <2>4 DEF Store!Next
<1>3. CASE SetEnd
  BY <1>1, <1>3 DEF SetEnd, Store!Next, Store!SetFlag
<1>4. CASE BoardResponse
  <2>1. CASE \E w \in plan.written : Store!SetFlagRead(Runner, w[1], w[2])
    <3>1. Store!SetFlag(Runner)
      BY <2>1, PlanFacts DEF Store!SetFlag
    <3> QED
      BY <1>1, <3>1 DEF Store!Next
  <2>2. CASE Store!SetFlagWrite(Runner)
    BY <1>1, <2>2 DEF Store!Next, Store!SetFlag
  <2>3. CASE KeyCall(Runner, plan.keyed)
    BY <1>1, <2>3, PlanFacts, KeyCallSteps DEF Store!Next
  <2> QED
    BY <1>4, <2>1, <2>2, <2>3 DEF BoardResponse
<1>5. ASSUME NEW o \in Operators, OperatorStep(o)
      PROVE  [Store!Next]_store
  BY <1>1, <1>5, PlanFacts, KeyCallSteps DEF OperatorStep, Store!Next
<1>6. ASSUME NEW h \in Handlers, HandlerStep(h)
      PROVE  [Store!Next]_store
  <2>1. CASE EventSets(h)
    <3>1. Head(event[h]) \in [ins : {"dome", "telescope", "scheduler"}, flag : Flag]
      <4> DEFINE W == [ins : {"dome", "telescope", "scheduler"}, flag : Flag]
      <4>1. event[h] \in Seq(W) /\ event[h] # <<>>
        BY <2>1 DEF EventSets, CallInv, HandlerCalls
      <4> HIDE DEF W
      <4>2. Head(event[h]) \in W
        BY <4>1
      <4> QED
        BY <4>2 DEF W
    <3>2. Head(event[h]).ins \in Instruments /\ Head(event[h]).flag \in Flag
      BY <3>1, ResponsesAssumption
    <3>3. Store!SetFlag(h)
      BY <2>1, <3>2 DEF EventSets, Store!SetFlag
    <3> QED
      BY <1>1, <3>3 DEF Store!Next
  <2>2. CASE EventWritten(h)
    BY <1>1, <2>2 DEF EventWritten, Store!Next, Store!SetFlag
  <2>3. CASE EventRefused(h) \/ \E e \in plan.events : EventArrives(h, e)
    BY <2>3 DEF EventRefused, EventArrives
  <2> QED
    BY <1>6, <2>1, <2>2, <2>3 DEF HandlerStep
<1>7. CASE ReadStep \/ ReadBreaks \/ SetRefused \/ SetBreaks \/ CommandStep
           \/ (\E r \in plan.runnable : Execute(r))
  BY <1>7 DEF ReadStep, ReadBreaks, SetRefused, SetBreaks, CommandStep, Execute
<1>8. CASE \E d \in All("drive") : Observe(d)
  BY <1>8 DEF Observe
<1>9. CASE UNCHANGED vars
  BY <1>9 DEF vars
<1> QED
  BY <1>2, <1>3, <1>4, <1>5, <1>6, <1>7, <1>8, <1>9 DEF Next, RunnerStep

LEMMA StoreTypes ==
    ASSUME Store!TypeOK, [Store!Next]_store
    PROVE  Store!TypeOK'
<1>1. Stored!TypeOK'
  BY StoreIsStored, Stored!TypeStep
<1> QED
  BY <1>1 DEF Store!TypeOK, Stored!TypeOK, Store!Flag, Stored!Flag, Store!NoRow,
              Stored!NoRow, Store!NoCall, Stored!NoCall, Store!SetCall,
              Stored!SetCall, Store!KeyCall, Stored!KeyCall

-----------------------------------------------------------------------------
(* What each kind of step does.                                            *)

LEMMA ReadSummary ==
    ASSUME TypeOK, ReadStep \/ ReadBreaks
    PROVE  /\ resp # NoResp /\ ~ resp.mark /\ Step.op = "read"
           /\ UNCHANGED <<store, on, event, tried, raised>>
           /\ \/ resp' = After(1) /\ flag[Step.ins] \in Step.flags
              \/ resp' = After(2) /\ Step.orelse = "skip"
              \/ resp' = NoResp /\ Step.orelse # "skip"
           /\ hurt' \in {hurt, TRUE}
<1>1. Step.op = "read" /\ resp # NoResp /\ ~ resp.mark
  BY DEF ReadStep, ReadBreaks, AtStep
<1>2. Step.ins \in Instruments /\ Step.orelse \in {"fail", "return", "skip"}
  BY <1>1, RespFacts DEF StepOK, ReadOK
<1>3. ReadFlag(flag[Step.ins]) = flag[Step.ins]
  BY <1>2 DEF TypeOK, ReadFlag, NoRow, Flag
<1>4. CASE ReadStep
  <2>1. /\ UNCHANGED <<store, on, event, tried, raised, hurt>>
        /\ resp' = IF flag[Step.ins] \in Step.flags THEN After(1)
                   ELSE Otherwise(Step.orelse)
    BY <1>3, <1>4 DEF ReadStep
  <2>2. CASE Step.orelse = "skip"
    <3>1. Otherwise("skip") = After(2)
      BY DEF Otherwise
    <3> QED
      BY <1>1, <2>1, <2>2, <3>1
  <2>3. CASE Step.orelse \in {"fail", "return"}
    <3>1. Otherwise(Step.orelse) = NoResp
      BY <2>3 DEF Otherwise
    <3> QED
      BY <1>1, <2>1, <2>3, <3>1
  <2> QED
    BY <1>2, <2>2, <2>3
<1>5. CASE ReadBreaks
  BY <1>1, <1>5 DEF ReadBreaks
<1> QED
  BY <1>4, <1>5

LEMMA SetSummary ==
    ASSUME TypeOK, Store!TypeOK, CallInv, Marked,
           SetRefused \/ SetBreaks \/ SetEnd
    PROVE  /\ resp # NoResp
           /\ resp.mark \/ Step.op = "set"
           /\ UNCHANGED <<on, event, tried, raised, active>>
           /\ hurt' \in {hurt, TRUE}
           /\ \/ flag' = flag
              \/ flag' = [flag EXCEPT ![Step.ins] = Wanted]
           /\ resp.mark => resp' = NoResp
           /\ ~ resp.mark =>
                 \/ /\ resp' = After(1)
                    /\ \/ flag' = [flag EXCEPT ![Step.ins] = Step.flag]
                       \/ flag' = flag /\ flag[Step.ins] = "lock" /\ Step.orelse = "next"
                       \/ flag' = flag /\ hurt' /\ Step.broken = "next"
                 \/ resp' = NoResp /\ flag' = flag /\ "fail" \in {Step.orelse, Step.broken}
                 \/ resp' = Mark /\ flag' = flag /\ "error" \in {Step.orelse, Step.broken}
<1>1. resp # NoResp
  BY DEF SetRefused, SetBreaks, SetEnd, Setting, AtStep, NoResp
<1>2. CASE SetRefused \/ SetBreaks
  <2>1. resp.mark \/ Step.op = "set"
    BY <1>2 DEF SetRefused, SetBreaks, Setting, AtStep
  <2>2. ~ resp.mark => Step.op = "set" /\ Step.orelse \in {"fail", "next", "error"}
                       /\ Step.broken \in {"fail", "next", "error"}
    BY <1>1, <2>1, RespFacts DEF StepOK, SetOK
  <2>3. UNCHANGED <<store, on, event, tried, raised>> /\ hurt' \in {hurt, TRUE}
    BY <1>2 DEF SetRefused, SetBreaks
  <2>4. flag' = flag /\ active' = active
    BY <2>3 DEF store
  <2>5. Otherwise("next") = After(1) /\ Otherwise("fail") = NoResp /\ Otherwise("error") = Mark
    BY DEF Otherwise
  <2>6. resp.mark => resp' = NoResp
    BY <1>2 DEF SetRefused, SetBreaks
  <2>7. ~ resp.mark => \/ resp' = Otherwise(Step.orelse) /\ flag[Step.ins] = "lock"
                       \/ resp' = Otherwise(Step.broken) /\ hurt'
    BY <1>2 DEF SetRefused, SetBreaks
  <2> QED
    BY <1>1, <2>1, <2>2, <2>3, <2>4, <2>5, <2>6, <2>7
<1>3. CASE SetEnd
  <2>1. call[Runner].pc = "set_write"
    BY <1>3 DEF SetEnd, Store!SetFlagWrite, Store!At
  <2>2. call[Runner] # Store!NoCall
    BY <2>1 DEF Store!NoCall
  <2>3. /\ call[Runner] = [pc |-> "set_write", ins |-> Step.ins, flag |-> Wanted]
        /\ resp.mark \/ Step.op = "set"
    BY <1>1, <2>2 DEF CallInv, RunnerCalls
  <2>4. flag' = [flag EXCEPT ![Step.ins] = Wanted] /\ active' = active
    BY <1>3, <2>3 DEF SetEnd, Store!SetFlagWrite
  <2>5. UNCHANGED <<on, event, tried, raised, hurt>>
        /\ resp' = IF resp.mark THEN NoResp ELSE After(1)
    BY <1>3 DEF SetEnd
  <2>6. ~ resp.mark => Wanted = Step.flag
    BY DEF Wanted
  <2> QED
    BY <1>1, <2>3, <2>4, <2>5, <2>6
<1> QED
  BY <1>2, <1>3

LEMMA CommandSummary ==
    ASSUME TypeOK, CommandStep
    PROVE  /\ resp # NoResp /\ ~ resp.mark /\ Step.op = "command"
           /\ Here \in Devices /\ Step.to \in BOOLEAN
           /\ UNCHANGED <<store, event, hurt>>
           /\ tried' = tried \cup {Here}
           /\ \/ on' = on
              \/ on' = [on EXCEPT ![Here] = Step.to]
           /\ \/ /\ resp' = After(1) /\ raised' = raised
                 /\ Here[1] = "switch" \/ on' = [on EXCEPT ![Here] = Step.to]
              \/ /\ raised' = raised \cup {Here}
                 /\ \/ resp' = After(1) /\ Step.orelse = "next"
                    \/ resp' = Mark /\ Step.orelse = "error"
                    \/ resp' = NoResp /\ Step.orelse = "fail"
<1>1. resp # NoResp /\ ~ resp.mark /\ Step.op = "command"
  BY DEF CommandStep, AtStep
<1>2. /\ Here \in Devices /\ Step.to \in BOOLEAN
      /\ Step.orelse \in {"fail", "next", "error"}
  BY <1>1, RespFacts DEF StepOK, CommandOK
<1>3. PICK answered, done \in BOOLEAN :
        /\ answered => done \/ Here[1] = "switch"
        /\ on' = IF done THEN [on EXCEPT ![Here] = Step.to] ELSE on
        /\ resp' = IF answered THEN After(1) ELSE Otherwise(Step.orelse)
        /\ raised' = IF answered THEN raised ELSE raised \cup {Here}
  BY DEF CommandStep
<1>4. tried' = tried \cup {Here} /\ UNCHANGED <<store, event, hurt>>
  BY DEF CommandStep
<1>5. Otherwise("next") = After(1) /\ Otherwise("fail") = NoResp /\ Otherwise("error") = Mark
  BY DEF Otherwise
<1> QED
  BY <1>1, <1>2, <1>3, <1>4, <1>5

LEMMA ExecuteSummary ==
    ASSUME NEW r \in plan.runnable, Execute(r)
    PROVE  /\ resp = NoResp /\ call[Runner] = Store!NoCall
           /\ Places(r) # <<>>
           /\ resp' = [name |-> r, k |-> 1, n |-> 1, mark |-> FALSE]
           /\ tried' = {} /\ raised' = {} /\ hurt' = FALSE
           /\ UNCHANGED <<store, on, event>>
  BY DEF Execute

\* Calls of lock and unlock write LOCK and CLOSE only.
LEMMA KeyCallFlags ==
    ASSUME NEW t \in Threads, NEW locks, KeyCall(t, locks)
    PROVE  \/ flag' = flag
           \/ flag' = [flag EXCEPT ![call[t].ins] = "lock"]
           \/ flag' = [flag EXCEPT ![call[t].ins] = "close"]
  BY DEF KeyCall, Store!LockKey, Store!UnlockRead, Store!LockFlag, Store!UnlockCheck,
         Store!UnlockDrop, Store!UnlockRest, Store!UnlockClose, Store!durable

\* The steps that do not move the response.
Others == \/ SetBegin
          \/ BoardResponse
          \/ \E o \in Operators : OperatorStep(o)
          \/ \E h \in Handlers : HandlerStep(h)
          \/ \E d \in All("drive") : Observe(d)

LEMMA OthersFlags ==
    ASSUME TypeOK, CallInv, Others
    PROVE  /\ flag'["robobs"] = "ready" => flag["robobs"] = "ready"
           /\ resp # NoResp /\ flag'["robobs"] = "operating"
                 => flag["robobs"] = "operating"
<1>0. /\ Runner \in Threads /\ Operators \subseteq Threads /\ Handlers \subseteq Threads
      /\ "robobs" \in Instruments /\ flag \in [Instruments -> Flag]
  BY ResponsesAssumption DEF Threads, TypeOK
<1>1. CASE flag' = flag
  BY <1>1
<1>2. ASSUME NEW t \in Threads, NEW locks, KeyCall(t, locks)
      PROVE  /\ flag'["robobs"] = "ready" => flag["robobs"] = "ready"
             /\ flag'["robobs"] = "operating" => flag["robobs"] = "operating"
  BY <1>0, <1>2, KeyCallFlags
<1>3. CASE SetBegin
  BY <1>1, <1>3 DEF SetBegin, Store!SetFlagRead, Store!durable
<1>4. CASE BoardResponse
  <2>1. resp = NoResp
    BY <1>4 DEF BoardResponse
  <2>2. CASE \E w \in plan.written : Store!SetFlagRead(Runner, w[1], w[2])
    BY <1>1, <2>2 DEF Store!SetFlagRead, Store!durable
  <2>3. CASE Store!SetFlagWrite(Runner)
    <3>1. /\ flag' = [flag EXCEPT ![call[Runner].ins] = call[Runner].flag]
          /\ call[Runner].pc = "set_write"
      BY <2>3 DEF Store!SetFlagWrite, Store!At
    <3>2. ~ (call[Runner].ins = "robobs" /\ call[Runner].flag = "ready")
      BY <2>1, <3>1 DEF CallInv, RunnerCalls
    <3> QED
      BY <1>0, <2>1, <3>1, <3>2
  <2>4. CASE KeyCall(Runner, plan.keyed)
    BY <1>0, <1>2, <2>4
  <2> QED
    BY <1>4, <2>2, <2>3, <2>4 DEF BoardResponse
<1>5. ASSUME NEW o \in Operators, OperatorStep(o)
      PROVE  /\ flag'["robobs"] = "ready" => flag["robobs"] = "ready"
             /\ flag'["robobs"] = "operating" => flag["robobs"] = "operating"
  BY <1>0, <1>2, <1>5 DEF OperatorStep
<1>6. ASSUME NEW h \in Handlers, HandlerStep(h)
      PROVE  flag'["robobs"] = flag["robobs"]
  <2>1. CASE EventWritten(h)
    <3>1. /\ flag' = [flag EXCEPT ![call[h].ins] = call[h].flag]
          /\ call[h].pc = "set_write"
      BY <2>1 DEF EventWritten, Store!SetFlagWrite, Store!At
    <3>2. call[h].ins # "robobs"
      BY <3>1 DEF CallInv, HandlerCalls, Store!NoCall
    <3> QED
      BY <1>0, <3>1, <3>2
  <2>2. CASE EventSets(h) \/ EventRefused(h) \/ \E e \in plan.events : EventArrives(h, e)
    <3>1. flag' = flag
      BY <2>2 DEF EventSets, EventRefused, EventArrives, Store!SetFlagRead,
                  Store!durable, store
    <3> QED
      BY <3>1
  <2> QED
    BY <1>6, <2>1, <2>2 DEF HandlerStep
<1>7. CASE \E d \in All("drive") : Observe(d)
  BY <1>1, <1>7 DEF Observe, store
<1> QED
  BY <1>3, <1>4, <1>5, <1>6, <1>7 DEF Others

LEMMA OthersSummary ==
    ASSUME TypeOK, Others
    PROVE  /\ UNCHANGED <<resp, tried, raised, hurt>>
           /\ on' \in [Devices -> BOOLEAN]
           /\ \A d \in Devices : on'[d] # on[d] => d \in All("drive")
<1>1. CASE \E d \in All("drive") : Observe(d)
  <2>1. PICK d \in All("drive") : Observe(d)
    BY <1>1
  <2>2. UNCHANGED <<resp, tried, raised, hurt>> /\ on' = [on EXCEPT ![d] = TRUE]
    BY <2>1 DEF Observe
  <2> QED
    BY <2>2 DEF TypeOK
<1>2. CASE SetBegin \/ BoardResponse \/ \E o \in Operators : OperatorStep(o)
  BY <1>2 DEF SetBegin, BoardResponse, OperatorStep, control, TypeOK
<1>3. CASE \E h \in Handlers : HandlerStep(h)
  BY <1>3 DEF HandlerStep, EventArrives, EventSets, EventRefused, EventWritten,
              control, TypeOK
<1> QED
  BY <1>1, <1>2, <1>3 DEF Others

\* Every step is one of five kinds.
LEMMA StepKinds ==
    ASSUME Next
    PROVE  /\ \/ \E r \in plan.runnable : Execute(r)
              \/ ReadStep \/ ReadBreaks
              \/ SetRefused \/ SetBreaks \/ SetEnd
              \/ CommandStep
              \/ Others
           /\ Remember
           /\ plan' = plan
  BY DEF Next, RunnerStep, Others

-----------------------------------------------------------------------------
(* Types                                                                   *)

\* No step of the store takes a row off the board.
LEMMA FlagTypes ==
    ASSUME flag \in [Instruments -> Flag], Store!TypeOK, [Store!Next]_store
    PROVE  flag' \in [Instruments -> Flag]
<1>1. {"unset", "ready", "close", "lock"} \subseteq Flag
  BY DEF Flag
<1>2. ASSUME NEW t \in Threads, Store!SetFlag(t)
      PROVE  flag' \in [Instruments -> Flag]
  <2>1. CASE Store!SetFlagWrite(t)
    <3>1. call[t].pc = "set_write" /\ flag' = [flag EXCEPT ![call[t].ins] = call[t].flag]
      BY <2>1 DEF Store!SetFlagWrite, Store!At
    <3>2. call[t] \in Store!SetCall
      BY <3>1 DEF Store!TypeOK, Store!NoCall, Store!KeyCall, Store!SetCall
    <3>3. call[t].flag \in Flag
      BY <3>2 DEF Store!SetCall
    <3> QED
      BY <3>1, <3>3
  <2>2. CASE \E i \in Instruments, f \in Flag : Store!SetFlagRead(t, i, f)
    BY <2>2 DEF Store!SetFlagRead, Store!durable
  <2> QED
    BY <1>2, <2>1, <2>2 DEF Store!SetFlag
<1>3. ASSUME NEW t \in Threads, Store!Lock(t) \/ Store!Unlock(t)
      PROVE  flag' \in [Instruments -> Flag]
  BY <1>1, <1>3 DEF Store!Lock, Store!LockKey, Store!LockFlag, Store!Unlock,
     Store!UnlockRead, Store!UnlockCheck, Store!UnlockDrop, Store!UnlockRest,
     Store!UnlockClose, Store!durable
<1>4. CASE Store!Boot \/ Store!Crash
  BY <1>1, <1>4 DEF Store!Boot, Store!Start, Store!RegisterInstrument, Store!Registered,
     Store!ResetVolatileFlag, Store!Serve, Store!Crash, Store!durable
<1>5. CASE UNCHANGED store
  BY <1>5 DEF store
<1> QED
  BY <1>2, <1>3, <1>4, <1>5 DEF Store!Next

RespType(p, r) ==
    \/ r = NoResp
    \/ /\ r \in [name : p.runnable, k : Nat, n : Nat, mark : BOOLEAN]
       /\ r.k \in DOMAIN Places(r.name)
       /\ r.n \in DOMAIN Steps(r.name, Places(r.name)[r.k])

LEMMA RespTypes ==
    ASSUME TypeOK, resp # NoResp,
           resp' \in {NoResp, Mark, After(1), After(2)}
    PROVE  RespType(plan, resp')
<1>1. /\ resp.name \in plan.runnable /\ resp.k \in Nat /\ resp.n \in Nat
      /\ resp.k \in DOMAIN Places(resp.name)
      /\ resp.n \in DOMAIN Steps(resp.name, Here)
  BY DEF TypeOK
<1>2. CASE resp' = Mark
  BY <1>1, <1>2 DEF RespType, Mark, Here
<1>3. ASSUME NEW m \in {1, 2}, resp' = After(m)
      PROVE  RespType(plan, resp')
  <2>1. CASE /\ resp.n + m <= Len(Steps(resp.name, Here))
             /\ After(m) = GoTo(resp.k, resp.n + m)
    <3>1. resp.n + m \in DOMAIN Steps(resp.name, Here) /\ resp.n + m \in Nat
      BY <1>1, <2>1, RespFacts
    <3>2. resp' = [name |-> resp.name, k |-> resp.k, n |-> resp.n + m, mark |-> FALSE]
      BY <1>3, <2>1 DEF GoTo
    <3> QED
      BY <1>1, <3>1, <3>2 DEF RespType, Here
  <2>2. CASE /\ resp.k < Len(Places(resp.name))
             /\ After(m) = GoTo(resp.k + 1, 1)
    <3>1. resp.k + 1 \in DOMAIN Places(resp.name) /\ resp.k + 1 \in Nat
      BY <1>1, <2>2, RespFacts, PlacesAre
    <3>2. 1 \in DOMAIN Steps(resp.name, Places(resp.name)[resp.k + 1])
      <4> DEFINE T == Steps(resp.name, Places(resp.name)[resp.k + 1])
      <4>1. ProgramOK(resp.name, Places(resp.name)[resp.k + 1], T)
        BY <3>1, RespFacts, Programs
      <4> HIDE DEF T
      <4>2. Len(T) \in 1..4 /\ DOMAIN T = 1..Len(T)
        BY <4>1 DEF ProgramOK
      <4>3. 1 \in DOMAIN T
        BY <4>2
      <4> QED
        BY <4>3 DEF T
    <3>3. resp' = [name |-> resp.name, k |-> resp.k + 1, n |-> 1, mark |-> FALSE]
      BY <1>3, <2>2 DEF GoTo
    <3> QED
      BY <1>1, <3>1, <3>2, <3>3 DEF RespType
  <2> QED
    BY <1>3, <2>1, <2>2, AfterCases DEF RespType
<1> QED
  BY <1>2, <1>3 DEF RespType

LEMMA HandlerWritesTypes ==
    ASSUME NEW e \in Event
    PROVE  /\ HandlerWrites(e) \in
                 Seq([ins : {"dome", "telescope", "scheduler"}, flag : Flag])
           /\ Len(HandlerWrites(e)) <= 2
<1> DEFINE W == [ins : {"dome", "telescope", "scheduler"}, flag : Flag]
<1>1. \A i \in {"dome", "telescope", "scheduler"}, f \in Flag : Write(i, f) \in W
  BY DEF Write
<1>2. {"operating", "ready", "close", "error"} \subseteq Flag
  BY DEF Flag
<1> HIDE DEF W
<1>3. \E x, y \in W : HandlerWrites(e) \in {<<x>>, <<x, y>>}
  <2>1. CASE e = "slew_begin"
    BY <1>1, <1>2, <2>1 DEF HandlerWrites
  <2>2. CASE e = "tracking_stopped"
    BY <1>1, <1>2, <2>2 DEF HandlerWrites
  <2>3. CASE e = "park_complete"
    BY <1>1, <1>2, <2>3 DEF HandlerWrites
  <2>4. CASE e = "unpark_complete"
    BY <1>1, <1>2, <2>4 DEF HandlerWrites
  <2>5. CASE e = "scheduler_busy"
    BY <1>1, <1>2, <2>5 DEF HandlerWrites
  <2>6. CASE e = "scheduler_idle"
    BY <1>1, <1>2, <2>6 DEF HandlerWrites
  <2>7. CASE e = "scheduler_error"
    BY <1>1, <1>2, <2>7 DEF HandlerWrites
  <2> QED
    BY <2>1, <2>2, <2>3, <2>4, <2>5, <2>6, <2>7 DEF Event
<1>4. PICK x \in W, y \in W : HandlerWrites(e) \in {<<x>>, <<x, y>>}
  BY <1>3
<1>5. HandlerWrites(e) \in Seq(W) /\ Len(HandlerWrites(e)) <= 2
  <2>1. CASE HandlerWrites(e) = <<x>>
    BY <2>1
  <2>2. CASE HandlerWrites(e) = <<x, y>>
    <3>1. Len(<<x, y>>) = 2 /\ <<x, y>> \in Seq(W)
      OBVIOUS
    <3> QED
      BY <2>2, <3>1
  <2> QED
    BY <1>4, <2>1, <2>2
<1> QED
  BY <1>5 DEF W

\* What the handlers have yet to write.
EventsOK(ev) ==
    /\ ev \in [Handlers -> Seq([ins : {"dome", "telescope", "scheduler"}, flag : Flag])]
    /\ \A h \in Handlers : Len(ev[h]) <= 2

LEMMA EventsTypes ==
    ASSUME TypeOK, CallInv, Next
    PROVE  EventsOK(event')
<1> DEFINE W == [ins : {"dome", "telescope", "scheduler"}, flag : Flag]
<1>1. EventsOK(event)
  BY DEF TypeOK, CallInv, HandlerCalls, EventsOK
<1>2. ASSUME NEW h \in Handlers, HandlerStep(h)
      PROVE  EventsOK(event')
  <2>1. ASSUME NEW e \in plan.events, EventArrives(h, e)
        PROVE  EventsOK(event')
    <3>1. e \in Event
      BY PlanFacts DEF Plan
    <3>2. HandlerWrites(e) \in Seq(W) /\ Len(HandlerWrites(e)) <= 2
      BY <3>1, HandlerWritesTypes
    <3>3. event' = [event EXCEPT ![h] = HandlerWrites(e)]
      BY <2>1 DEF EventArrives
    <3> HIDE DEF W
    <3>4. event \in [Handlers -> Seq(W)]
      BY <1>1 DEF EventsOK, W
    <3>5. /\ event' \in [Handlers -> Seq(W)]
          /\ \A g \in Handlers : Len(event'[g]) <= 2
      BY <1>1, <3>2, <3>3, <3>4 DEF EventsOK
    <3> QED
      BY <3>5 DEF EventsOK, W
  <2>2. CASE EventRefused(h) \/ EventWritten(h)
    <3>1. event[h] # <<>>
      BY <2>2 DEF EventRefused, EventWritten, Store!SetFlagWrite, Store!At,
                  CallInv, HandlerCalls,
                  Store!NoCall
    <3>2. event' = [event EXCEPT ![h] = Tail(event[h])]
      BY <2>2 DEF EventRefused, EventWritten
    <3> HIDE DEF W
    <3>3. event \in [Handlers -> Seq(W)] /\ Len(event[h]) <= 2
      BY <1>1 DEF EventsOK, W
    <3>4. Tail(event[h]) \in Seq(W) /\ Len(Tail(event[h])) <= 2
      BY <3>1, <3>3
    <3>5. /\ event' \in [Handlers -> Seq(W)]
          /\ \A g \in Handlers : Len(event'[g]) <= 2
      BY <1>1, <3>2, <3>3, <3>4 DEF EventsOK
    <3> QED
      BY <3>5 DEF EventsOK, W
  <2>3. CASE EventSets(h)
    BY <1>1, <2>3 DEF EventSets, control
  <2> QED
    BY <1>2, <2>1, <2>2, <2>3 DEF HandlerStep
<1>3. CASE RunnerStep \/ (\E o \in Operators : OperatorStep(o))
           \/ \E d \in All("drive") : Observe(d)
  <2>1. event' = event
    BY <1>3 DEF RunnerStep, Execute, ReadStep, ReadBreaks, SetBegin, SetRefused, SetBreaks,
       SetEnd, CommandStep, BoardResponse, OperatorStep, Observe, control
  <2> QED
    BY <1>1, <2>1
<1> QED
  BY <1>2, <1>3 DEF Next

\* Where a running response may be after a step.
LEMMA Moves ==
    ASSUME TypeOK, Store!TypeOK, CallInv, Running, Next
    PROVE  \/ resp' = resp
           \/ resp = NoResp /\ \E r \in plan.runnable : Execute(r)
           \/ resp # NoResp /\ resp' \in {NoResp, Mark, After(1), After(2)}
<1>1. CASE \E r \in plan.runnable : Execute(r)
  BY <1>1, ExecuteSummary
<1>2. CASE ReadStep \/ ReadBreaks
  BY <1>2, ReadSummary
<1>3. CASE SetRefused \/ SetBreaks \/ SetEnd
  <2>1. resp # NoResp
    BY <1>3 DEF SetRefused, SetBreaks, SetEnd, Setting, AtStep, NoResp
  <2>2. Marked
    BY <2>1 DEF Running
  <2> QED
    BY <1>3, <2>1, <2>2, SetSummary
<1>4. CASE CommandStep
  BY <1>4, CommandSummary
<1>5. CASE Others
  BY <1>5, OthersSummary
<1> QED
  BY <1>1, <1>2, <1>3, <1>4, <1>5, StepKinds

LEMMA OnTypes ==
    ASSUME TypeOK, Next
    PROVE  /\ on' \in [Devices -> BOOLEAN]
           /\ faults' \in 0..MaxFaults
           /\ hurt' \in BOOLEAN
           /\ tried' \cup raised' \subseteq Devices
<1>0. MaxFaults \in Nat
  BY ResponsesAssumption
<1>1. ASSUME NEW r \in plan.runnable, Execute(r)
      PROVE  /\ on' \in [Devices -> BOOLEAN]
             /\ faults' \in 0..MaxFaults
             /\ hurt' \in BOOLEAN
             /\ tried' \cup raised' \subseteq Devices
  BY <1>1 DEF Execute, TypeOK
<1>2. CASE ReadStep \/ ReadBreaks \/ SetRefused \/ SetBreaks \/ SetEnd
  <2>1. UNCHANGED <<on, tried, raised>>
    BY <1>2 DEF ReadStep, ReadBreaks, SetRefused, SetBreaks, SetEnd
  <2>2. \/ faults' = faults /\ hurt' = hurt
        \/ faults < MaxFaults /\ faults' = faults + 1 /\ hurt' = TRUE
    BY <1>2 DEF ReadStep, ReadBreaks, SetRefused, SetBreaks, SetEnd
  <2>3. faults \in 0..MaxFaults /\ hurt \in BOOLEAN /\ on \in [Devices -> BOOLEAN]
        /\ tried \cup raised \subseteq Devices
    BY DEF TypeOK
  <2>4. faults' \in 0..MaxFaults
    BY <1>0, <2>2, <2>3
  <2>5. hurt' \in BOOLEAN
    BY <2>2, <2>3, Zenon
  <2> QED
    BY <2>1, <2>3, <2>4, <2>5
<1>3. CASE CommandStep
  <2>1. faults' = faults
    BY <1>3 DEF CommandStep
  <2> QED
    BY <1>3, <2>1, CommandSummary DEF TypeOK
<1>4. CASE Others
  <2>1. faults' = faults
    BY <1>4 DEF Others, SetBegin, BoardResponse, OperatorStep, HandlerStep, EventArrives,
                EventSets, EventRefused, EventWritten, Observe, control
  <2> QED
    BY <1>4, <2>1, OthersSummary DEF TypeOK
<1> QED
  BY <1>1, <1>2, <1>3, <1>4, StepKinds

\* Every step keeps the types.
LEMMA TypeStep ==
    ASSUME TypeOK, Store!TypeOK, CallInv, Running, Next
    PROVE  TypeOK' /\ Store!TypeOK'
<1>1. [Store!Next]_store
  BY StoreUse
<1>2. Store!TypeOK'
  BY <1>1, StoreTypes
<1>3. flag' \in [Instruments -> Flag] /\ active' \in [Instruments -> SUBSET Keys]
  BY <1>1, <1>2, FlagTypes DEF TypeOK, Store!TypeOK
<1>4. plan' = plan /\ plan \in Plans
  BY StepKinds DEF TypeOK
<1>5. RespType(plan, resp')
  <2>1. CASE resp' = resp
    BY <2>1 DEF TypeOK, RespType, Here
  <2>2. ASSUME NEW r \in plan.runnable, Execute(r)
        PROVE  RespType(plan, resp')
    <3>1. r \in Response
      BY PlanFacts DEF Plan
    <3>2. Places(r) # <<>> /\ resp' = [name |-> r, k |-> 1, n |-> 1, mark |-> FALSE]
      BY <2>2, ExecuteSummary
    <3>3. 1 \in DOMAIN Places(r)
      BY <3>1, <3>2, PlacesAre
    <3> DEFINE T == Steps(r, Places(r)[1])
    <3>4. ProgramOK(r, Places(r)[1], T)
      BY <3>1, <3>3, Programs
    <3> HIDE DEF T
    <3>5. Len(T) \in 1..4 /\ DOMAIN T = 1..Len(T)
      BY <3>4 DEF ProgramOK
    <3>6. 1 \in DOMAIN T
      BY <3>5
    <3> QED
      BY <3>2, <3>3, <3>6 DEF RespType, T
  <2> QED
    BY <2>1, <2>2, Moves, RespTypes
<1>6. EventsOK(event')
  BY EventsTypes
<1>7. /\ event' \in [Handlers -> Seq([ins : Instruments, flag : Flag])]
      /\ \A h \in Handlers : Len(event'[h]) <= 2
  <2> DEFINE V == [ins : {"dome", "telescope", "scheduler"}, flag : Flag]
             W == [ins : Instruments, flag : Flag]
  <2>1. V \subseteq W
    BY ResponsesAssumption
  <2>2. event' \in [Handlers -> Seq(V)] /\ \A h \in Handlers : Len(event'[h]) <= 2
    BY <1>6 DEF EventsOK
  <2> HIDE DEF V, W
  <2>3. Seq(V) \subseteq Seq(W)
    BY <2>1
  <2>4. event' \in [Handlers -> Seq(W)]
    BY <2>2, <2>3
  <2> QED
    BY <2>2, <2>4 DEF W
<1>8. /\ on' \in [Devices -> BOOLEAN]
      /\ faults' \in 0..MaxFaults
      /\ hurt' \in BOOLEAN
      /\ tried' \cup raised' \subseteq Devices
  BY OnTypes
<1>9. barred' \cup locked' \subseteq Instruments /\ unsure' \subseteq Devices
  <2>1. All("robot") \subseteq Devices
    BY EachFacts, CountFacts
  <2>2. Since(barred) \subseteq Instruments /\ Since(locked) \subseteq Instruments
    BY DEF TypeOK, Since
  <2>3. Remember
    BY StepKinds
  <2> QED
    BY <2>1, <2>2, <2>3 DEF Remember
<1> QED
  BY <1>2, <1>3, <1>4, <1>5, <1>7, <1>8, <1>9 DEF TypeOK, RespType, Here

-----------------------------------------------------------------------------
(* The calls of the threads                                                *)

LEMMA KeyCallPc ==
    ASSUME Store!TypeOK, NEW t \in Threads, NEW locks, KeyCall(t, locks)
    PROVE  /\ call'[t].pc # "set_write"
           /\ \A u \in Threads \ {t} : call'[u] = call[u]
<1>1. call \in [Threads -> {Store!NoCall} \cup Store!SetCall \cup Store!KeyCall]
  BY DEF Store!TypeOK
<1>2. CASE \E i \in locks, k \in Keys : Store!LockKey(t, i, k) \/ Store!UnlockRead(t, i, k)
  BY <1>1, <1>2 DEF Store!LockKey, Store!UnlockRead
<1>3. ASSUME Store!Return(t)
      PROVE  /\ call'[t].pc # "set_write"
             /\ \A u \in Threads \ {t} : call'[u] = call[u]
  BY <1>1, <1>3 DEF Store!Return, Store!NoCall
<1>4. ASSUME NEW label \in {"unlock_drop", "unlock_rest", "unlock_close"},
             Store!Goto(t, label), call[t].pc \notin {"idle", "set_write"}
      PROVE  /\ call'[t].pc # "set_write"
             /\ \A u \in Threads \ {t} : call'[u] = call[u]
  <2>1. call[t] \in Store!KeyCall
    BY <1>1, <1>4 DEF Store!NoCall, Store!SetCall
  <2>2. call'[t] = [call[t] EXCEPT !.pc = label]
    BY <1>1, <1>4 DEF Store!Goto
  <2>3. call'[t].pc = label
    BY <2>1, <2>2 DEF Store!KeyCall
  <2> QED
    BY <1>1, <1>4, <2>3 DEF Store!Goto
<1>5. CASE \/ Store!LockFlag(t) \/ Store!UnlockCheck(t) \/ Store!UnlockDrop(t)
           \/ Store!UnlockRest(t) \/ Store!UnlockClose(t)
  <2>1. \/ Store!Return(t)
        \/ /\ call[t].pc \notin {"idle", "set_write"}
           /\ \E label \in {"unlock_drop", "unlock_rest", "unlock_close"} :
                  Store!Goto(t, label)
    BY <1>5 DEF Store!LockFlag, Store!UnlockCheck, Store!UnlockDrop, Store!UnlockRest,
                Store!UnlockClose, Store!At
  <2> QED
    BY <1>3, <1>4, <2>1
<1> QED
  BY <1>2, <1>5 DEF KeyCall

LEMMA SetReadCall ==
    ASSUME Store!TypeOK, NEW t \in Threads, NEW i, NEW f, Store!SetFlagRead(t, i, f)
    PROVE  /\ call'[t] = [pc |-> "set_write", ins |-> i, flag |-> f]
           /\ call[t] = Store!NoCall
           /\ \A u \in Threads \ {t} : call'[u] = call[u]
  BY DEF Store!TypeOK, Store!SetFlagRead, Store!Idle

LEMMA SetWriteCall ==
    ASSUME Store!TypeOK, NEW t \in Threads, Store!SetFlagWrite(t)
    PROVE  /\ call'[t] = Store!NoCall
           /\ call[t].pc = "set_write"
           /\ \A u \in Threads \ {t} : call'[u] = call[u]
  BY DEF Store!TypeOK, Store!SetFlagWrite, Store!Return, Store!At

\* A thread acts for itself alone.
LEMMA OwnCalls ==
    ASSUME TypeOK, Store!TypeOK, Next
    PROVE  \/ /\ \A t \in Threads \ {Runner} : call'[t] = call[t]
              /\ event' = event /\ RunnerStep
           \/ \E o \in Operators :
                /\ \A t \in Threads \ {o} : call'[t] = call[t]
                /\ event' = event /\ OperatorStep(o)
           \/ \E h \in Handlers :
                /\ \A t \in Threads \ {h} : call'[t] = call[t]
                /\ \A g \in Handlers \ {h} : event'[g] = event[g]
                /\ HandlerStep(h)
           \/ UNCHANGED <<call, event, resp>>
<1>0. /\ Runner \in Threads /\ Operators \subseteq Threads /\ Handlers \subseteq Threads
  BY DEF Threads
<1>1. CASE RunnerStep
  <2>1. CASE \/ (\E r \in plan.runnable : Execute(r)) \/ ReadStep \/ ReadBreaks
             \/ SetRefused \/ SetBreaks \/ CommandStep
    <3>1. call' = call /\ event' = event
      BY <2>1 DEF Execute, ReadStep, ReadBreaks, SetRefused, SetBreaks, CommandStep, store
    <3> QED
      BY <1>1, <3>1
  <2>2. CASE SetBegin
    <3>1. Store!SetFlagRead(Runner, Step.ins, Wanted) /\ event' = event
      BY <2>2 DEF SetBegin, control
    <3> QED
      BY <1>0, <1>1, <3>1, SetReadCall
  <2>3. CASE SetEnd
    BY <1>0, <1>1, <2>3, SetWriteCall DEF SetEnd
  <2>4. CASE BoardResponse
    <3>1. event' = event
      BY <2>4 DEF BoardResponse, control
    <3>2. \/ \E w \in plan.written : Store!SetFlagRead(Runner, w[1], w[2])
          \/ Store!SetFlagWrite(Runner)
          \/ KeyCall(Runner, plan.keyed)
      BY <2>4 DEF BoardResponse
    <3> QED
      BY <1>0, <1>1, <3>1, <3>2, SetReadCall, SetWriteCall, KeyCallPc
  <2> QED
    BY <1>1, <2>1, <2>2, <2>3, <2>4 DEF RunnerStep
<1>2. ASSUME NEW o \in Operators, OperatorStep(o)
      PROVE  event' = event /\ \A t \in Threads \ {o} : call'[t] = call[t]
  BY <1>0, <1>2, KeyCallPc DEF OperatorStep, control
<1>3. ASSUME NEW h \in Handlers, HandlerStep(h)
      PROVE  /\ \A t \in Threads \ {h} : call'[t] = call[t]
             /\ \A g \in Handlers \ {h} : event'[g] = event[g]
  <2>1. \A g \in Handlers \ {h} : event'[g] = event[g]
    BY <1>3 DEF HandlerStep, EventArrives, EventSets, EventRefused, EventWritten,
                control, TypeOK
  <2>2. \/ call' = call
        \/ Store!SetFlagRead(h, Head(event[h]).ins, Head(event[h]).flag)
        \/ Store!SetFlagWrite(h)
    BY <1>3 DEF HandlerStep, EventArrives, EventSets, EventRefused, EventWritten, store
  <2> QED
    BY <1>0, <2>1, <2>2, SetReadCall, SetWriteCall
<1>4. CASE \E d \in All("drive") : Observe(d)
  BY <1>4 DEF Observe, store
<1> QED
  <2>1. CASE \E o \in Operators : OperatorStep(o)
    BY <1>2, <2>1
  <2>2. CASE \E h \in Handlers : HandlerStep(h)
    BY <1>3, <2>2
  <2> QED
    BY <1>1, <1>4, <2>1, <2>2 DEF Next

LEMMA OperatorCallsStep ==
    ASSUME TypeOK, Store!TypeOK, OperatorCalls, Next
    PROVE  OperatorCalls'
<1>0. /\ Operators \subseteq Threads /\ Runner \notin Operators
      /\ Operators \cap Handlers = {}
  BY ResponsesAssumption DEF Threads
<1>1. ASSUME NEW p \in Operators
      PROVE  call'[p].pc # "set_write"
  <2>1. call[p].pc # "set_write"
    BY DEF OperatorCalls
  <2>2. CASE call'[p] = call[p]
    BY <2>1, <2>2
  <2>3. CASE OperatorStep(p)
    BY <1>0, <2>3, KeyCallPc DEF OperatorStep
  <2> QED
    BY <1>0, <2>2, <2>3, OwnCalls
<1> QED
  BY <1>1 DEF OperatorCalls

LEMMA HandlerCallsStep ==
    ASSUME TypeOK, Store!TypeOK, CallInv, Next
    PROVE  HandlerCalls'
<1>0. /\ Handlers \subseteq Threads /\ Runner \notin Handlers
      /\ Operators \cap Handlers = {}
  BY ResponsesAssumption DEF Threads
<1> DEFINE W == [ins : {"dome", "telescope", "scheduler"}, flag : Flag]
<1>1. \A g \in Handlers : event[g] \in Seq(W) /\ event'[g] \in Seq(W)
  BY EventsTypes DEF EventsOK, CallInv, HandlerCalls
<1>2. ASSUME NEW g \in Handlers, call'[g] # Store!NoCall
      PROVE  event'[g] # <<>> /\ call'[g].pc = "set_write" /\ call'[g].ins # "robobs"
  <2>1. call[g] # Store!NoCall =>
            event[g] # <<>> /\ call[g].pc = "set_write" /\ call[g].ins # "robobs"
    BY DEF CallInv, HandlerCalls
  <2>2. CASE call'[g] = call[g] /\ event'[g] = event[g]
    BY <1>2, <2>1, <2>2
  <2>3. CASE HandlerStep(g)
    <3>1. ASSUME NEW e \in plan.events, EventArrives(g, e)
          PROVE  FALSE
      BY <1>2, <2>1, <3>1 DEF EventArrives, store
    <3>2. CASE EventSets(g)
      <4>1. event[g] # <<>> /\ event' = event
        BY <3>2 DEF EventSets, control
      <4>2. call'[g] = [pc |-> "set_write", ins |-> Head(event[g]).ins,
                        flag |-> Head(event[g]).flag]
        BY <1>0, <3>2, SetReadCall DEF EventSets
      <4> HIDE DEF W
      <4>3. Head(event[g]) \in W
        BY <1>1, <4>1
      <4>4. Head(event[g]).ins # "robobs"
        BY <4>3 DEF W
      <4> QED
        BY <4>1, <4>2, <4>4
    <3>3. ~ EventRefused(g)
      BY <1>2 DEF EventRefused, store
    <3>4. ~ EventWritten(g)
      BY <1>0, <1>2, SetWriteCall DEF EventWritten
    <3> QED
      BY <2>3, <3>1, <3>2, <3>3, <3>4 DEF HandlerStep
  <2> QED
    BY <1>0, <2>2, <2>3, OwnCalls
<1> QED
  BY <1>1, <1>2 DEF HandlerCalls

LEMMA RunnerCallsStep ==
    ASSUME TypeOK, Store!TypeOK, CallInv, Running, Next
    PROVE  RunnerCalls'
<1>0. Runner \in Threads /\ Runner \notin Operators /\ Runner \notin Handlers
  BY ResponsesAssumption DEF Threads
<1>1. CASE call'[Runner] = Store!NoCall
  BY <1>1 DEF RunnerCalls, Store!NoCall
<1>2. CASE call'[Runner] = call[Runner] /\ resp' = resp
  BY <1>2 DEF RunnerCalls, CallInv, Step, Here, Wanted
<1>3. CASE RunnerStep
  <2>1. CASE \/ (\E r \in plan.runnable : Execute(r)) \/ ReadStep \/ ReadBreaks
             \/ SetRefused \/ SetBreaks \/ CommandStep
    BY <1>1, <2>1 DEF Execute, ReadStep, ReadBreaks, SetRefused, SetBreaks, CommandStep,
                      Setting, AtStep, store
  <2>2. CASE SetBegin
    <3>1. /\ Store!SetFlagRead(Runner, Step.ins, Wanted) /\ resp' = resp
          /\ resp # NoResp /\ (resp.mark \/ Step.op = "set")
      BY <2>2 DEF SetBegin, control, Setting, AtStep, NoResp
    <3>2. call'[Runner] = [pc |-> "set_write", ins |-> Step.ins, flag |-> Wanted]
      BY <1>0, <3>1, SetReadCall
    <3> QED
      BY <3>1, <3>2 DEF RunnerCalls, Step, Here, Wanted
  <2>3. CASE SetEnd
    BY <1>0, <1>1, <2>3, SetWriteCall DEF SetEnd
  <2>4. CASE BoardResponse
    <3>1. resp = NoResp /\ resp' = NoResp
      BY <2>4 DEF BoardResponse, control
    <3>2. ASSUME NEW w \in plan.written, Store!SetFlagRead(Runner, w[1], w[2])
          PROVE  RunnerCalls'
      <4>1. call'[Runner] = [pc |-> "set_write", ins |-> w[1], flag |-> w[2]]
        BY <1>0, <3>2, SetReadCall
      <4> QED
        BY <3>1, <4>1, PlanFacts DEF RunnerCalls
    <3>3. CASE Store!SetFlagWrite(Runner)
      BY <1>0, <1>1, <3>3, SetWriteCall
    <3>4. CASE KeyCall(Runner, plan.keyed)
      BY <1>0, <3>1, <3>4, KeyCallPc DEF RunnerCalls
    <3> QED
      BY <2>4, <3>2, <3>3, <3>4 DEF BoardResponse
  <2> QED
    BY <1>3, <2>1, <2>2, <2>3, <2>4 DEF RunnerStep
<1>4. ASSUME NEW o \in Operators, OperatorStep(o)
      PROVE  resp' = resp
  BY <1>4 DEF OperatorStep, control
<1>5. ASSUME NEW h \in Handlers, HandlerStep(h)
      PROVE  resp' = resp
  BY <1>5 DEF HandlerStep, EventArrives, EventSets, EventRefused, EventWritten, control
<1> QED
  BY <1>0, <1>2, <1>3, <1>4, <1>5, OwnCalls

LEMMA CallsStep ==
    ASSUME TypeOK, Store!TypeOK, CallInv, Running, Next
    PROVE  CallInv'
  BY OperatorCallsStep, HandlerCallsStep, RunnerCallsStep DEF CallInv

-----------------------------------------------------------------------------
(* The response on its way                                                 *)

LEMMA ExecuteRunning ==
    ASSUME TypeOK, NEW r \in plan.runnable, Execute(r)
    PROVE  (Marked /\ Looked /\ Commanded /\ RobobsInv)'
<1>1. /\ resp'.name = r /\ resp'.k = 1 /\ resp'.n = 1 /\ resp'.mark = FALSE
      /\ tried' = {}
  <2>1. resp' = [name |-> r, k |-> 1, n |-> 1, mark |-> FALSE] /\ tried' = {}
    BY ExecuteSummary
  <2> QED
    BY <2>1
<1>2. Marked'
  BY <1>1 DEF Marked
<1>3. Looked'
  BY <1>1 DEF Looked
<1>4. Commanded'
  <2>1. r \in Response
    BY PlanFacts DEF Plan
  <2>2. Places(r) # <<>>
    BY ExecuteSummary
  <2>3. 1 \in DOMAIN Places(r)
    BY <2>1, <2>2, PlacesAre
  <2> DEFINE T == Steps(r, Places(r)[1])
  <2>4. ProgramOK(r, Places(r)[1], T)
    BY <2>1, <2>3, Programs
  <2> HIDE DEF T
  <2>5. DOMAIN T = 1..Len(T) /\ Len(T) \in 1..4
    BY <2>4 DEF ProgramOK
  <2>6. \A m \in DOMAIN T : ~ (m < 1)
    BY <2>5
  <2>7. \A k \in 1..1 : k = 1 /\ ~ (k < 1)
    OBVIOUS
  <2> QED
    BY <1>1, <2>6, <2>7 DEF Commanded, T
<1>5. RobobsInv'
  BY <1>1 DEF RobobsInv
<1> QED
  BY <1>2, <1>3, <1>4, <1>5

\* Only a step that sets ERROR is marked.
LEMMA AfterUnmarked ==
    /\ \A m : After(m).mark = FALSE
    /\ NoResp.mark = FALSE
    /\ Mark.mark = TRUE
<1>1. NoResp.mark = FALSE /\ Mark.mark = TRUE /\ \A k, n : GoTo(k, n).mark = FALSE
  BY DEF NoResp, Mark, GoTo
<1>2. \A m : After(m) = NoResp \/ \E k, n : After(m) = GoTo(k, n)
  BY DEF After
<1> QED
  BY <1>1, <1>2

LEMMA MarkedStep ==
    ASSUME TypeOK, Store!TypeOK, CallInv, Running, Next, resp # NoResp, resp' # NoResp
    PROVE  Marked'
<1>1. Marked
  BY DEF Running
<1>2. CASE resp'.mark = FALSE
  BY <1>2 DEF Marked
<1>3. CASE resp' = Mark
  <2>1. /\ Step' = Step /\ Here' = Here
    BY <1>3 DEF Mark, Step, Here
  <2>2. \/ Step.op = "command" /\ Step.orelse = "error" /\ Here \in raised'
        \/ Step.op = "set" /\ "error" \in {Step.orelse, Step.broken}
    <3>1. CASE ReadStep \/ ReadBreaks
      BY <1>3, <3>1, ReadSummary, AfterUnmarked
    <3>2. CASE SetRefused \/ SetBreaks \/ SetEnd
      <4>1. ~ resp.mark /\ Step.op = "set"
        BY <1>1, <1>3, <3>2, SetSummary, AfterUnmarked
      <4> QED
        BY <1>1, <1>3, <3>2, <4>1, SetSummary, AfterUnmarked
    <3>3. CASE CommandStep
      BY <1>3, <3>3, CommandSummary, AfterUnmarked
    <3>4. CASE Others
      BY <1>1, <1>3, <3>4, OthersSummary DEF Mark, Marked
    <3> QED
      BY <3>1, <3>2, <3>3, <3>4, StepKinds, ExecuteSummary
  <2> QED
    BY <2>1, <2>2 DEF Marked
<1>4. CASE resp' = resp
  <2>1. raised \subseteq raised'
    BY <1>4, StepKinds, ExecuteSummary, ReadSummary, SetSummary, CommandSummary, OthersSummary,
       <1>1
  <2>2. Step' = Step /\ Here' = Here
    BY <1>4 DEF Step, Here
  <2> QED
    BY <1>1, <1>4, <2>1, <2>2 DEF Marked
<1>5. ASSUME NEW m \in {1, 2}, resp' = After(m)
      PROVE  Marked'
  BY <1>2, <1>5, AfterUnmarked
<1> QED
  BY <1>3, <1>4, <1>5, Moves

\* The step that a skip leaves out sets a flag.
LEMMA SkipFacts ==
    ASSUME TypeOK, resp # NoResp, Step.op = "read", Step.orelse = "skip"
    PROVE  /\ resp.n + 2 <= Len(Steps(resp.name, Here))
           /\ StepAt(resp.name, resp.k, resp.n + 1).op = "set"
           /\ Step.flags = {"operating"}
  BY RespFacts DEF StepOK, ReadOK, StepAt, Here

LEMMA HistoryShrinks ==
    ASSUME Next, resp # NoResp
    PROVE  /\ barred' \subseteq barred /\ locked' \subseteq locked
           /\ \A i \in barred' : flag'[i] \notin Operational
           /\ \A i \in locked' : flag'[i] = "lock"
  BY StepKinds DEF Remember, Since

\* What has been looked at, for instruments barred in B and locked in L.
SeenBy(s, B, L) ==
    s.op = "read" => /\ s.flags = Operational => s.ins \notin B
                     /\ s.flags = Flag \ {"lock"} => s.ins \notin L

LEMMA LookedAfter ==
    ASSUME TypeOK, resp # NoResp, Looked, NEW m \in {1, 2},
           NEW B \in SUBSET barred, NEW L \in SUBSET locked,
           SeenBy(Step, B, L),
           m = 2 => StepAt(resp.name, resp.k, resp.n + 1).op # "read"
    PROVE  \A j \in 1..(resp.n + m - 1) : SeenBy(StepAt(resp.name, resp.k, j), B, L)
<1> SUFFICES ASSUME NEW j \in 1..(resp.n + m - 1)
             PROVE  SeenBy(StepAt(resp.name, resp.k, j), B, L)
  OBVIOUS
<1>0. resp.n \in Nat /\ Step = StepAt(resp.name, resp.k, resp.n)
  BY RespFacts
<1>1. CASE j \in 1..(resp.n - 1)
  BY <1>1 DEF Looked, SeenBy
<1>2. CASE j = resp.n
  BY <1>0, <1>2
<1>3. CASE m = 2 /\ j = resp.n + 1
  BY <1>3 DEF SeenBy
<1>4. j \in 1..(resp.n - 1) \/ j = resp.n \/ (m = 2 /\ j = resp.n + 1)
  BY <1>0
<1> QED
  BY <1>1, <1>2, <1>3, <1>4

LEMMA LookedStep ==
    ASSUME TypeOK, Store!TypeOK, CallInv, Running, Next, resp # NoResp, resp' # NoResp
    PROVE  Looked'
<1>0. Marked /\ Looked
  BY DEF Running
<1>1. CASE resp' = resp \/ resp' = Mark
  <2>1. resp'.name = resp.name /\ resp'.k = resp.k /\ resp'.n = resp.n
    BY <1>1 DEF Mark
  <2> QED
    BY <1>0, <2>1, HistoryShrinks DEF Looked, StepAt
<1>2. ASSUME NEW m \in {1, 2}, resp' = After(m), SeenBy(Step, barred', locked'),
             m = 2 => StepAt(resp.name, resp.k, resp.n + 1).op # "read"
      PROVE  Looked'
  <2>1. \A j \in 1..(resp.n + m - 1) : SeenBy(StepAt(resp.name, resp.k, j), barred', locked')
    BY <1>0, <1>2, HistoryShrinks, LookedAfter
  <2>2. CASE resp' = GoTo(resp.k, resp.n + m)
    <3>1. resp'.name = resp.name /\ resp'.k = resp.k /\ resp'.n = resp.n + m
      BY <2>2 DEF GoTo
    <3> QED
      <4>1. 1..(resp'.n - 1) = 1..(resp.n + m - 1)
        BY <3>1, RespFacts
      <4>2. \A j : StepAt(resp'.name, resp'.k, j) = StepAt(resp.name, resp.k, j)
        BY <3>1
      <4>3. \A j \in 1..(resp'.n - 1) : SeenBy(StepAt(resp'.name, resp'.k, j), barred', locked')
        BY <2>1, <4>1, <4>2
      <4> QED
        BY <4>3 DEF Looked, StepAt, SeenBy
  <2>3. CASE resp' = GoTo(resp.k + 1, 1)
    <3>1. resp'.n = 1
      BY <2>3 DEF GoTo
    <3> QED
      BY <3>1 DEF Looked
  <2> QED
    BY <1>2, <2>2, <2>3, AfterCases
<1>3. CASE ReadStep \/ ReadBreaks
  <2>1. /\ Step.op = "read" /\ flag' = flag
        /\ \/ resp' = After(1) /\ flag[Step.ins] \in Step.flags
           \/ resp' = After(2) /\ Step.orelse = "skip"
    BY <1>3, ReadSummary DEF store
  <2>2. CASE resp' = After(1) /\ flag[Step.ins] \in Step.flags
    <3>1. SeenBy(Step, barred', locked')
      BY <2>1, <2>2, HistoryShrinks DEF SeenBy
    <3> QED
      BY <1>2, <2>2, <3>1
  <2>3. CASE resp' = After(2) /\ Step.orelse = "skip"
    <3>1. /\ StepAt(resp.name, resp.k, resp.n + 1).op = "set"
          /\ Step.flags = {"operating"}
      BY <2>1, <2>3, SkipFacts
    <3>2. "ready" \in Operational /\ "ready" \in Flag \ {"lock"} /\ "ready" \notin Step.flags
      BY <3>1 DEF Operational, Flag
    <3>3. SeenBy(Step, barred', locked')
      BY <3>2 DEF SeenBy
    <3> QED
      BY <1>2, <2>3, <3>1, <3>3
  <2> QED
    BY <2>1, <2>2, <2>3
<1>4. CASE SetRefused \/ SetBreaks \/ SetEnd
  <2>1. resp' = After(1) \/ resp' = Mark
    BY <1>0, <1>4, SetSummary
  <2>2. CASE resp' = After(1)
    <3>1. Step.op = "set"
      BY <1>0, <1>4, <2>2, SetSummary
    <3> QED
      BY <1>2, <2>2, <3>1 DEF SeenBy
  <2> QED
    BY <1>1, <2>1, <2>2
<1>5. CASE CommandStep
  <2>1. Step.op = "command" /\ (resp' = After(1) \/ resp' = Mark)
    BY <1>5, CommandSummary
  <2> QED
    BY <1>1, <1>2, <2>1 DEF SeenBy
<1> QED
  BY <1>1, <1>3, <1>4, <1>5, StepKinds, ExecuteSummary, OthersSummary

\* The commands of the steps before one, at the devices up to this one.
LEMMA CommandedAfter ==
    ASSUME TypeOK, resp # NoResp, Commanded, NEW m \in {1, 2},
           NEW T, tried \subseteq T,
           Step.op = "command" => Here \in T,
           m = 2 => StepAt(resp.name, resp.k, resp.n + 1).op # "command"
    PROVE  \A j \in 1..resp.k : \A i \in DOMAIN Steps(resp.name, Places(resp.name)[j]) :
              (j < resp.k \/ i < resp.n + m) /\ StepAt(resp.name, j, i).op = "command"
              => Places(resp.name)[j] \in T
<1> SUFFICES ASSUME NEW j \in 1..resp.k,
                    NEW i \in DOMAIN Steps(resp.name, Places(resp.name)[j]),
                    j < resp.k \/ i < resp.n + m,
                    StepAt(resp.name, j, i).op = "command"
             PROVE  Places(resp.name)[j] \in T
  OBVIOUS
<1>0. /\ resp.n \in Nat /\ resp.k \in Nat /\ Step = StepAt(resp.name, resp.k, resp.n)
      /\ DOMAIN Steps(resp.name, Here) = 1..Len(Steps(resp.name, Here))
  BY RespFacts
<1>1. CASE j < resp.k
  BY <1>1 DEF Commanded
<1>2. CASE ~ (j < resp.k)
  <2>1. j = resp.k /\ i \in Int
    BY <1>0, <1>2 DEF Here
  <2>2. CASE i < resp.n
    BY <2>2 DEF Commanded
  <2>3. CASE i = resp.n
    BY <1>0, <2>1, <2>3 DEF Here
  <2>4. CASE m = 2 /\ i = resp.n + 1
    BY <2>1, <2>4
  <2>5. i < resp.n + m
    BY <1>2
  <2>6. i < resp.n \/ i = resp.n \/ (m = 2 /\ i = resp.n + 1)
    BY <1>0, <2>1, <2>5
  <2> QED
    BY <2>2, <2>3, <2>4, <2>6
<1> QED
  BY <1>1, <1>2

\* A response that went on, or ran out, has given every command on its way.
LEMMA CommandedOnward ==
    ASSUME TypeOK, resp # NoResp, Commanded, NEW m \in {1, 2}, resp' = After(m),
           tried \subseteq tried',
           Step.op = "command" => Here \in tried',
           m = 2 => StepAt(resp.name, resp.k, resp.n + 1).op # "command"
    PROVE  /\ resp' # NoResp => Commanded'
           /\ resp' = NoResp =>
                 \A j \in 1..Len(Places(resp.name)) :
                     \A i \in DOMAIN Steps(resp.name, Places(resp.name)[j]) :
                         StepAt(resp.name, j, i).op = "command"
                         => Places(resp.name)[j] \in tried'
<1>0. /\ resp.n \in Nat /\ resp.k \in Nat /\ Len(Places(resp.name)) \in Nat
      /\ DOMAIN Steps(resp.name, Here) = 1..Len(Steps(resp.name, Here))
      /\ Len(Steps(resp.name, Here)) \in Nat
  BY RespFacts
<1>1. \A j \in 1..resp.k : \A i \in DOMAIN Steps(resp.name, Places(resp.name)[j]) :
              (j < resp.k \/ i < resp.n + m) /\ StepAt(resp.name, j, i).op = "command"
              => Places(resp.name)[j] \in tried'
  BY CommandedAfter
<1>2. CASE resp' = GoTo(resp.k, resp.n + m)
  <2>1. resp'.name = resp.name /\ resp'.k = resp.k /\ resp'.n = resp.n + m
    BY <1>2 DEF GoTo
  <2> QED
    BY <1>1, <1>2, <2>1, SomewhereIsRunning DEF Commanded, StepAt
<1>3. ASSUME resp.n + m > Len(Steps(resp.name, Here))
      PROVE  \A j \in 1..resp.k : \A i \in DOMAIN Steps(resp.name, Places(resp.name)[j]) :
                 StepAt(resp.name, j, i).op = "command" => Places(resp.name)[j] \in tried'
  <2> SUFFICES ASSUME NEW j \in 1..resp.k,
                      NEW i \in DOMAIN Steps(resp.name, Places(resp.name)[j]),
                      StepAt(resp.name, j, i).op = "command"
               PROVE  Places(resp.name)[j] \in tried'
    OBVIOUS
  <2>1. CASE j < resp.k
    BY <1>1, <2>1
  <2>2. CASE ~ (j < resp.k)
    <3>1. j = resp.k
      BY <1>0, <2>2
    <3>2. i \in 1..Len(Steps(resp.name, Here))
      BY <1>0, <3>1 DEF Here
    <3>3. i < resp.n + m
      BY <1>0, <1>3, <3>2
    <3> QED
      BY <1>1, <3>3
  <2> QED
    BY <2>1, <2>2
<1>4. CASE resp' = GoTo(resp.k + 1, 1) /\ resp.n + m > Len(Steps(resp.name, Here))
           /\ resp.k < Len(Places(resp.name))
  <2>1. resp'.name = resp.name /\ resp'.k = resp.k + 1 /\ resp'.n = 1
    BY <1>4 DEF GoTo
  <2>2. resp' # NoResp
    BY <1>4, SomewhereIsRunning
  <2>3. ASSUME NEW j \in 1..(resp.k + 1),
               NEW i \in DOMAIN Steps(resp.name, Places(resp.name)[j]),
               j < resp.k + 1 \/ i < 1,
               StepAt(resp.name, j, i).op = "command"
        PROVE  Places(resp.name)[j] \in tried'
    <3>1. CASE j \in 1..resp.k
      BY <1>3, <1>4, <2>3, <3>1
    <3>2. CASE j = resp.k + 1
      <4>1. j \in DOMAIN Places(resp.name) /\ resp.name \in Response
        BY <1>0, <1>4, <3>2, RespFacts, PlacesAre
      <4> DEFINE S == Steps(resp.name, Places(resp.name)[j])
      <4>2. ProgramOK(resp.name, Places(resp.name)[j], S)
        BY <4>1, Programs
      <4>3. i \in DOMAIN S
        OBVIOUS
      <4> HIDE DEF S
      <4>4. i \in 1..Len(S) /\ Len(S) \in 1..4
        BY <4>2, <4>3 DEF ProgramOK
      <4> QED
        BY <1>0, <2>3, <3>2, <4>4
    <3> QED
      BY <1>0, <3>1, <3>2
  <2> QED
    BY <2>1, <2>2, <2>3 DEF Commanded, StepAt
<1>5. CASE resp' = NoResp /\ resp.n + m > Len(Steps(resp.name, Here))
           /\ resp.k = Len(Places(resp.name))
  BY <1>3, <1>5
<1> QED
  BY <1>2, <1>4, <1>5, AfterCases

\* What the response has commanded, and how it went on.
LEMMA TriedGrows ==
    ASSUME TypeOK, Store!TypeOK, CallInv, Marked, Next, resp # NoResp
    PROVE  tried \subseteq tried' /\ raised \subseteq raised'
<1>1. CASE ReadStep \/ ReadBreaks
  BY <1>1, ReadSummary
<1>2. CASE SetRefused \/ SetBreaks \/ SetEnd
  BY <1>2, SetSummary
<1>3. CASE CommandStep
  BY <1>3, CommandSummary
<1>4. CASE Others
  BY <1>4, OthersSummary
<1> QED
  BY <1>1, <1>2, <1>3, <1>4, StepKinds, ExecuteSummary

LEMMA CommandedStep ==
    ASSUME TypeOK, Store!TypeOK, CallInv, Running, Next, resp # NoResp, resp' # NoResp
    PROVE  Commanded'
<1>0. Marked /\ Commanded /\ tried \subseteq tried'
  BY TriedGrows DEF Running
<1>1. CASE resp' = resp \/ resp' = Mark
  <2>1. resp'.name = resp.name /\ resp'.k = resp.k /\ resp'.n = resp.n
    BY <1>1 DEF Mark
  <2> QED
    BY <1>0, <2>1 DEF Commanded, StepAt
<1>2. CASE ReadStep \/ ReadBreaks
  <2>1. /\ Step.op = "read"
        /\ resp' = After(1) \/ (resp' = After(2) /\ Step.orelse = "skip")
    BY <1>2, ReadSummary
  <2>2. CASE resp' = After(1)
    BY <1>0, <2>1, <2>2, CommandedOnward
  <2>3. CASE resp' = After(2) /\ Step.orelse = "skip"
    <3>1. StepAt(resp.name, resp.k, resp.n + 1).op = "set"
      BY <2>1, <2>3, SkipFacts
    <3> QED
      BY <1>0, <2>1, <2>3, <3>1, CommandedOnward
  <2> QED
    BY <2>1, <2>2, <2>3
<1>3. CASE SetRefused \/ SetBreaks \/ SetEnd
  <2>1. resp' = Mark \/ (resp' = After(1) /\ Step.op = "set")
    BY <1>0, <1>3, SetSummary
  <2> QED
    BY <1>0, <1>1, <2>1, CommandedOnward
<1>4. CASE CommandStep
  <2>1. /\ resp' = Mark \/ resp' = After(1)
        /\ Here \in tried'
    BY <1>4, CommandSummary
  <2> QED
    BY <1>0, <1>1, <2>1, CommandedOnward
<1> QED
  BY <1>1, <1>2, <1>3, <1>4, StepKinds, ExecuteSummary, OthersSummary

\* A response that ran out, rather than failed, has given all its commands.
AllCommanded(r, T) ==
    \A j \in 1..Len(Places(r)) :
        \A i \in DOMAIN Steps(r, Places(r)[j]) :
            StepAt(r, j, i).op = "command" => Places(r)[j] \in T

LEMMA StopAllEnds ==
    ASSUME TypeOK, Store!TypeOK, CallInv, Running, Next, Ends("stop_all")
    PROVE  /\ AllCommanded("stop_all", tried')
           /\ resp # NoResp /\ resp' = After(1) /\ ~ resp.mark
<1>0. resp.name = "stop_all" /\ resp' = NoResp
  BY DEF Ends
<1>1. resp # NoResp
  BY <1>0 DEF NoResp
<1>2. /\ Step.op \in {"set", "command"} /\ Step.orelse = "next"
      /\ Step.op = "set" => Step.broken = "next"
  BY <1>0, <1>1, RespFacts DEF StepOK, TriedOK
<1>3. Marked /\ Commanded /\ tried \subseteq tried'
  BY <1>1, TriedGrows DEF Running
<1>4. ~ resp.mark
  BY <1>2, <1>3 DEF Marked
<1>5. /\ resp' = After(1)
      /\ Step.op = "command" => Here \in tried'
  <2>1. CASE SetRefused \/ SetBreaks \/ SetEnd
    <3>1. Step.op = "set"
      BY <1>3, <1>4, <2>1, SetSummary
    <3>2. "fail" \notin {Step.orelse, Step.broken} /\ "error" \notin {Step.orelse, Step.broken}
      BY <1>2, <3>1
    <3> QED
      BY <1>3, <1>4, <2>1, <3>1, <3>2, SetSummary
  <2>2. CASE CommandStep
    BY <1>2, <2>2, CommandSummary
  <2>3. ~ (ReadStep \/ ReadBreaks)
    BY <1>2, ReadSummary
  <2> QED
    BY <1>0, <1>1, <2>1, <2>2, <2>3, StepKinds, ExecuteSummary, OthersSummary
<1> QED
  BY <1>0, <1>1, <1>3, <1>4, <1>5, CommandedOnward DEF AllCommanded

LEMMA CloseSlitEnds ==
    ASSUME TypeOK, Store!TypeOK, CallInv, Running, Next, Ends("close_slit")
    PROVE  AllCommanded("close_slit", tried') \/ raised' # {}
<1>0. resp.name = "close_slit" /\ resp' = NoResp
  BY DEF Ends
<1>1. resp # NoResp
  BY <1>0 DEF NoResp
<1>2. /\ Step.op = "read" => Step.orelse = "skip"
      /\ Step.op = "set" => Step.orelse = "next" /\ Step.broken = "next"
      /\ Step.op = "command" => Step.orelse = "error"
  BY <1>0, <1>1, RespFacts DEF StepOK, TriedOK
<1>3. Marked /\ Commanded /\ tried \subseteq tried' /\ raised \subseteq raised'
  BY <1>1, TriedGrows DEF Running
<1>4. CASE resp.mark
  <2>1. Here \in raised
    BY <1>2, <1>3, <1>4 DEF Marked
  <2> QED
    BY <1>3, <2>1
<1>5. CASE ~ resp.mark
  <2>1. CASE ReadStep \/ ReadBreaks
    <3>1. /\ Step.op = "read" /\ Step.orelse = "skip"
          /\ resp' = After(1) \/ resp' = After(2)
      BY <1>2, <2>1, ReadSummary
    <3>2. StepAt(resp.name, resp.k, resp.n + 1).op = "set"
      BY <1>1, <3>1, SkipFacts
    <3> QED
      BY <1>0, <1>1, <1>3, <3>1, <3>2, CommandedOnward DEF AllCommanded
  <2>2. CASE SetRefused \/ SetBreaks \/ SetEnd
    <3>1. Step.op = "set"
      BY <1>3, <1>5, <2>2, SetSummary
    <3>2. "fail" \notin {Step.orelse, Step.broken} /\ "error" \notin {Step.orelse, Step.broken}
      BY <1>2, <3>1
    <3>3. resp' = After(1)
      BY <1>3, <1>5, <2>2, <3>2, SetSummary
    <3> QED
      BY <1>0, <1>1, <1>3, <3>1, <3>3, CommandedOnward DEF AllCommanded
  <2>3. CASE CommandStep
    <3>1. Step.op = "command" /\ Step.orelse = "error" /\ Here \in tried'
      BY <1>2, <2>3, CommandSummary
    <3>2. resp' = After(1) \/ Here \in raised'
      BY <2>3, <3>1, CommandSummary
    <3> QED
      BY <1>0, <1>1, <1>3, <3>1, <3>2, CommandedOnward DEF AllCommanded
  <2> QED
    BY <1>0, <1>1, <2>1, <2>2, <2>3, StepKinds, ExecuteSummary, OthersSummary
<1> QED
  BY <1>4, <1>5 DEF Running

-----------------------------------------------------------------------------
(* The robots and their flag                                               *)

LEMMA Kinds ==
    /\ All("robot") \subseteq Devices
    /\ All("robot") \cap All("drive") = {}
    /\ "robobs" \in Instruments
<1>1. All("robot") \subseteq Devices
  BY EachFacts, CountFacts
<1>2. All("robot") \cap All("drive") = {}
  BY DEF All
<1> QED
  BY <1>1, <1>2, ResponsesAssumption

\* Only the step of a response of the robots makes their flag READY, and while
\* a response runs only start_robobs makes it OPERATING.
LEMMA RobobsFlag ==
    ASSUME TypeOK, Store!TypeOK, CallInv, Running, Next
    PROVE  /\ flag'["robobs"] = "ready" /\ flag["robobs"] # "ready" =>
                 /\ resp # NoResp /\ ~ resp.mark
                 /\ SetRefused \/ SetBreaks \/ SetEnd
                 /\ Step.op = "set" /\ Step.ins = "robobs" /\ Step.flag = "ready"
           /\ flag'["robobs"] = "operating" /\ flag["robobs"] # "operating"
              /\ resp # NoResp => resp.name = "start_robobs"
<1>1. CASE (\E r \in plan.runnable : Execute(r)) \/ ReadStep \/ ReadBreaks \/ CommandStep
  <2>1. flag' = flag
    BY <1>1, ExecuteSummary, ReadSummary, CommandSummary DEF store
  <2> QED
    BY <2>1
<1>2. CASE SetRefused \/ SetBreaks \/ SetEnd
  <2>0. resp # NoResp
    BY <1>2 DEF SetRefused, SetBreaks, SetEnd, Setting, AtStep, NoResp
  <2>1. Marked
    BY <2>0 DEF Running
  <2>2. /\ resp.mark \/ Step.op = "set"
        /\ flag' = flag \/ flag' = [flag EXCEPT ![Step.ins] = Wanted]
    BY <1>2, <2>1, SetSummary
  <2>3. CASE flag' = flag
    BY <2>3
  <2>4. CASE flag' = [flag EXCEPT ![Step.ins] = Wanted] /\ resp.mark
    <3>1. Wanted = "error"
      BY <2>4 DEF Wanted
    <3> QED
      BY <2>4, <3>1, Kinds DEF TypeOK
  <2>5. CASE flag' = [flag EXCEPT ![Step.ins] = Wanted] /\ ~ resp.mark
    <3>1. Wanted = Step.flag /\ Step.op = "set"
      BY <2>2, <2>5 DEF Wanted
    <3>2. Step.ins = "robobs" =>
             \/ resp.name = "start_robobs" /\ Step.flag = "operating"
             \/ resp.name = "stop_robobs" /\ Step.flag = "ready"
             \/ resp.name = "stop_all" /\ Step.flag = "ready"
      BY <2>0, <3>1, RespFacts DEF StepOK, SetOK
    <3>3. CASE Step.ins # "robobs"
      BY <2>5, <3>3, Kinds DEF TypeOK
    <3>4. CASE Step.ins = "robobs"
      <4>1. flag'["robobs"] = Step.flag
        BY <2>5, <3>1, <3>4, Kinds DEF TypeOK
      <4> QED
        BY <1>2, <2>0, <2>5, <3>1, <3>2, <3>4, <4>1
    <3> QED
      BY <3>3, <3>4
  <2> QED
    BY <2>2, <2>3, <2>4, <2>5
<1>3. CASE Others
  BY <1>3, OthersFlags
<1> QED
  BY <1>1, <1>2, <1>3, StepKinds

\* A robot whose switch a step of the runner moves.
LEMMA RobotMoves ==
    ASSUME TypeOK, Store!TypeOK, CallInv, Running, UnsureInv, Next,
           NEW r \in All("robot")
    PROVE  /\ on'[r] # on[r] \/ (resp # NoResp /\ r \in tried' \ tried) =>
                 CommandStep /\ Here = r
           /\ CommandStep /\ Here = r /\ on'[r] =>
                 \/ Step.to = TRUE
                 \/ r \in unsure'
           /\ CommandStep /\ Here # r => (r \in tried' <=> r \in tried) /\ on'[r] = on[r]
<1>0. r \in Devices /\ r \notin All("drive")
  BY Kinds
<1>1. on'[r] # on[r] \/ (resp # NoResp /\ r \in tried' \ tried) => CommandStep /\ Here = r
  <2>1. CASE \E x \in plan.runnable : Execute(x)
    BY <2>1, ExecuteSummary
  <2>2. CASE ReadStep \/ ReadBreaks
    BY <2>2, ReadSummary
  <2>3. CASE SetRefused \/ SetBreaks \/ SetEnd
    <3>1. UNCHANGED <<on, tried>>
      BY <2>3 DEF SetRefused, SetBreaks, SetEnd
    <3> QED
      BY <3>1
  <2>4. CASE CommandStep
    BY <1>0, <2>4, CommandSummary DEF TypeOK
  <2>5. CASE Others
    BY <1>0, <2>5, OthersSummary
  <2> QED
    BY <2>1, <2>2, <2>3, <2>4, <2>5, StepKinds
<1>2. ASSUME CommandStep, Here = r, on'[r], Step.to # TRUE
      PROVE  r \in unsure'
  <2>1. Step.to = FALSE
    BY <1>2, CommandSummary
  <2>2. raised' = raised \cup {r}
    <3>1. ~ [on EXCEPT ![Here] = Step.to][r]
      BY <1>0, <1>2, <2>1 DEF TypeOK
    <3>2. r[1] # "switch"
      BY DEF All
    <3> QED
      BY <1>2, <3>1, <3>2, CommandSummary
  <2>3. Remember
    BY StepKinds
  <2>4. CASE r \in raised
    BY <2>3, <2>4 DEF Remember, UnsureInv
  <2>5. CASE r \notin raised
    BY <2>2, <2>3, <2>5 DEF Remember
  <2> QED
    BY <2>4, <2>5
<1>3. CommandStep /\ Here # r => (r \in tried' <=> r \in tried) /\ on'[r] = on[r]
  BY <1>0, CommandSummary DEF TypeOK
<1> QED
  BY <1>1, <1>2, <1>3

LEMMA UnsureStep ==
    ASSUME TypeOK, Store!TypeOK, CallInv, Running, UnsureInv, Next
    PROVE  UnsureInv'
<1>0. /\ Remember /\ unsure \subseteq All("robot") /\ raised \subseteq tried
      /\ raised \cap All("robot") \subseteq unsure
  BY StepKinds DEF UnsureInv
<1>1. unsure' \subseteq All("robot")
  BY <1>0 DEF Remember
<1>2. CASE \E x \in plan.runnable : Execute(x)
  <2>1. raised' = {}
    BY <1>2, ExecuteSummary
  <2> QED
    BY <1>1, <2>1 DEF UnsureInv
<1>3. CASE UNCHANGED <<tried, raised>>
  BY <1>0, <1>1, <1>3 DEF UnsureInv, Remember
<1>4. CASE CommandStep
  <2>1. tried' = tried \cup {Here} /\ raised' \in {raised, raised \cup {Here}}
    BY <1>4, CommandSummary
  <2> QED
    BY <1>0, <1>1, <2>1 DEF UnsureInv, Remember
<1>5. CASE SetRefused \/ SetBreaks \/ SetEnd
  BY <1>3, <1>5 DEF SetRefused, SetBreaks, SetEnd
<1> QED
  BY <1>2, <1>3, <1>4, <1>5, StepKinds, ReadSummary, OthersSummary

\* Robots that are not commanded stay among those of which the board cannot
\* know.
LEMMA UnsureStays ==
    ASSUME Next, NEW r \in All("robot"), r \in unsure, r \notin tried' \ tried
    PROVE  r \in unsure'
  BY StepKinds DEF Remember

LEMMA StoppedStep ==
    ASSUME TypeOK, Store!TypeOK, CallInv, Running, UnsureInv, Next,
           resp # NoResp, resp.name \in {"stop_robobs", "stop_all"}
    PROVE  \A r \in All("robot") \cap tried' : on'[r] => r \in unsure'
<1> SUFFICES ASSUME NEW r \in All("robot") \cap tried', on'[r]
             PROVE  r \in unsure'
  OBVIOUS
<1>0. RobobsInv
  BY DEF Running
<1>1. CASE CommandStep /\ Here = r
  <2>1. Step.to = FALSE
    BY <1>1, RespFacts, CommandSummary DEF StepOK, TriedOK
  <2> QED
    BY <1>1, <2>1, RobotMoves
<1>2. CASE ~ (CommandStep /\ Here = r)
  <2>1. on[r] /\ r \in tried
    BY <1>2, RobotMoves
  <2>2. r \in unsure
    BY <1>0, <2>1 DEF RobobsInv
  <2> QED
    BY <2>1, <2>2, UnsureStays
<1> QED
  BY <1>1, <1>2

\* A robot that is about to start finds its flag OPERATING, or locked since.
LEMMA AboutToStart ==
    ASSUME TypeOK, Store!TypeOK, CallInv, Running, Next, resp # NoResp, resp' # NoResp,
           resp.name = "start_robobs", resp'.n = 4
    PROVE  flag'["robobs"] # "ready"
<1>0. Marked /\ RobobsInv
  BY DEF Running
<1>1. CASE resp.n = 4
  BY <1>0, <1>1, RespFacts, RobobsFlag DEF RobobsInv, StepOK, TriedOK
<1>2. CASE resp.n # 4
  <2>0. resp.n \in Nat
    BY RespFacts
  <2>1. resp' \in {After(1), After(2)}
    BY <1>2, Moves DEF Mark
  <2>2. Step.op = "read" => Step.orelse = "return"
    BY RespFacts DEF StepOK, TriedOK
  <2>3. resp' = After(1)
    <3>1. CASE ReadStep \/ ReadBreaks
      BY <2>2, <3>1, ReadSummary
    <3>2. CASE SetRefused \/ SetBreaks \/ SetEnd
      <4>1. ~ resp.mark
        BY <1>0, <3>2, SetSummary
      <4>2. Step.op = "set"
        BY <1>0, <3>2, <4>1, SetSummary
      <4>3. Step.orelse = "fail" /\ Step.broken = "fail"
        BY <4>2, RespFacts DEF StepOK, TriedOK
      <4> QED
        BY <1>0, <3>2, <4>1, <4>3, SetSummary
    <3>3. CASE CommandStep
      BY <2>1, <3>3, CommandSummary, AfterUnmarked
    <3>4. CASE Others
      BY <1>2, <3>4, OthersSummary
    <3> QED
      BY <3>1, <3>2, <3>3, <3>4, StepKinds, ExecuteSummary
  <2>4. resp' = GoTo(resp.k, resp.n + 1)
    <3>1. resp' # GoTo(resp.k + 1, 1)
      BY DEF GoTo
    <3> QED
      BY <2>3, <3>1, AfterCases
  <2>5. resp.n = 3
    <3>1. resp'.n = resp.n + 1
      BY <2>4 DEF GoTo
    <3> QED
      BY <2>0, <3>1
  <2>6. /\ Step.op = "set" /\ Step.ins = "robobs" /\ Step.flag = "operating"
        /\ Step.orelse = "fail" /\ Step.broken = "fail"
    BY <2>5, RespFacts DEF StepOK, TriedOK
  <2>7. SetRefused \/ SetBreaks \/ SetEnd
    BY <1>2, <2>6, StepKinds, ExecuteSummary, ReadSummary, CommandSummary, OthersSummary
  <2>8. flag' = [flag EXCEPT ![Step.ins] = Step.flag]
    BY <1>0, <2>3, <2>6, <2>7, SetSummary, AfterUnmarked
  <2> QED
    BY <2>6, <2>8, Kinds DEF TypeOK
<1> QED
  BY <1>1, <1>2

\* When stop_all goes on from the robots' flag, it is not OPERATING.
LEMMA FlagPassed ==
    ASSUME TypeOK, Store!TypeOK, CallInv, Marked, Next, resp # NoResp,
           resp.name = "stop_all", Here = FlagOf("robobs"), resp' # resp
    PROVE  flag'["robobs"] # "operating" \/ hurt'
<1>1. Steps(resp.name, Here) = <<Set("robobs", "ready", "next", "next")>>
  BY StepsAre, StopAllSteps
<1>2. resp.n = 1
  <2>1. Len(Steps(resp.name, Here)) = 1
    BY <1>1
  <2> QED
    BY <2>1, RespFacts
<1>3. Step = Set("robobs", "ready", "next", "next")
  BY <1>1, <1>2 DEF Step
<1>4. /\ Step.op = "set" /\ Step.ins = "robobs" /\ Step.flag = "ready"
      /\ Step.orelse = "next" /\ Step.broken = "next"
  BY <1>3 DEF Set
<1>5. ~ resp.mark
  BY <1>4 DEF Marked
<1>6. SetRefused \/ SetBreaks \/ SetEnd
  BY <1>4, StepKinds, ExecuteSummary, ReadSummary, CommandSummary, OthersSummary
<1>7. \/ flag' = [flag EXCEPT ![Step.ins] = Step.flag]
      \/ flag' = flag /\ flag[Step.ins] = "lock"
      \/ hurt'
  <2>1. "fail" \notin {Step.orelse, Step.broken} /\ "error" \notin {Step.orelse, Step.broken}
    BY <1>4
  <2> QED
    BY <1>5, <1>6, <2>1, SetSummary
<1> QED
  BY <1>4, <1>7, Kinds DEF TypeOK

LEMMA HurtStays ==
    ASSUME TypeOK, Store!TypeOK, CallInv, Marked, Next, resp # NoResp, hurt
    PROVE  hurt'
<1>1. CASE ReadStep \/ ReadBreaks
  BY <1>1, ReadSummary
<1>2. CASE SetRefused \/ SetBreaks \/ SetEnd
  BY <1>2, SetSummary
<1>3. CASE CommandStep
  BY <1>3, CommandSummary
<1>4. CASE Others
  BY <1>4, OthersSummary
<1> QED
  BY <1>1, <1>2, <1>3, <1>4, StepKinds, ExecuteSummary

\* Where a response that goes on may be: at the same device, or at the next.
LEMMA NextPlace ==
    ASSUME TypeOK, Store!TypeOK, CallInv, Running, Next, resp # NoResp, resp' # NoResp
    PROVE  /\ resp'.name = resp.name
           /\ resp'.k \in {resp.k, resp.k + 1}
           /\ resp'.k = resp.k + 1 => resp' # resp
<1>0. resp.k \in Nat
  BY RespFacts
<1>1. CASE resp' = resp \/ resp' = Mark
  BY <1>0, <1>1 DEF Mark
<1>2. ASSUME NEW m \in {1, 2}, resp' = After(m)
      PROVE  resp'.name = resp.name /\ resp'.k \in {resp.k, resp.k + 1}
  BY <1>2, AfterCases DEF GoTo
<1>3. resp'.k = resp.k + 1 => resp' # resp
  BY <1>0
<1> QED
  BY <1>1, <1>2, <1>3, Moves

LEMMA RobobsStep ==
    ASSUME TypeOK, Store!TypeOK, CallInv, Running, UnsureInv, Next,
           resp # NoResp, resp' # NoResp
    PROVE  RobobsInv'
<1>0. RobobsInv /\ Marked
  BY DEF Running
<1>1. resp'.name = resp.name /\ resp'.k \in {resp.k, resp.k + 1} /\ resp.k \in Nat
  BY NextPlace, RespFacts
<1>2. resp.name = "start_robobs" /\ resp'.n = 4 => flag'["robobs"] # "ready"
  BY AboutToStart
<1>3. ASSUME resp.name = "stop_all", NEW k \in 1..(resp'.k - 1),
             Places("stop_all")[k] = FlagOf("robobs")
      PROVE  flag'["robobs"] # "operating" \/ hurt'
  <2>1. CASE k \in 1..(resp.k - 1)
    <3>1. flag["robobs"] # "operating" \/ hurt
      BY <1>0, <1>3, <2>1 DEF RobobsInv
    <3> QED
      BY <1>0, <1>3, <3>1, HurtStays, RobobsFlag
  <2>2. CASE k = resp.k /\ resp'.k = resp.k + 1
    <3>1. Here = FlagOf("robobs") /\ resp' # resp
      BY <1>3, <2>2, NextPlace DEF Here
    <3> QED
      BY <1>0, <1>3, <3>1, FlagPassed
  <2> QED
    BY <1>1, <2>1, <2>2
<1>4. resp.name \in {"stop_robobs", "stop_all"} =>
          \A r \in All("robot") \cap tried' : on'[r] => r \in unsure'
  BY StoppedStep
<1> QED
  BY <1>1, <1>2, <1>3, <1>4 DEF RobobsInv

LEMMA RunningStep ==
    ASSUME TypeOK, Store!TypeOK, CallInv, Running, UnsureInv, Next
    PROVE  Running'
<1>1. CASE resp = NoResp
  <2>1. CASE resp' = NoResp
    BY <2>1 DEF Running
  <2>2. CASE resp' # NoResp
    <3>1. PICK r \in plan.runnable : Execute(r)
      BY <1>1, <2>2, Moves
    <3> QED
      BY <3>1, ExecuteRunning DEF Running
  <2> QED
    BY <2>1, <2>2
<1>2. CASE resp # NoResp
  <2>1. resp' # NoResp => (Marked /\ Looked /\ Commanded /\ RobobsInv)'
    BY <1>2, MarkedStep, LookedStep, CommandedStep, RobobsStep
  <2> QED
    BY <2>1 DEF Running
<1> QED
  BY <1>1, <1>2

-----------------------------------------------------------------------------
(* READY robots                                                            *)

\* When stop_all is at the robots' flag it has commanded them all.
LEMMA RobotsBeforeFlag ==
    ASSUME TypeOK, resp # NoResp, Commanded,
           resp.name = "stop_all", Here = FlagOf("robobs")
    PROVE  All("robot") \subseteq tried
<1>0. /\ Robots \in Nat /\ Count["robot"] = Robots
      /\ resp.k \in DOMAIN Places("stop_all") /\ resp.k \in Nat /\ resp.k >= 1
      /\ Places("stop_all")[resp.k] = FlagOf("robobs")
  BY ResponsesAssumption, RespFacts, CountFacts, PlacesAre DEF Here
<1> SUFFICES ASSUME NEW r \in All("robot")
             PROVE  r \in tried
  OBVIOUS
<1>1. PICK i \in 1..Robots : r = <<"robot", i>>
  BY <1>0 DEF All
<1>2. Places("stop_all")[1 + i] = r
  BY <1>1, StopAllPlaces
<1>3. 1 + i < resp.k
  <2>1. resp.k # 1
    BY <1>0, StopAllPlaces, FlagPlaces
  <2>2. ASSUME resp.k <= 1 + Robots
        PROVE  FALSE
    <3>1. resp.k - 1 \in 1..Robots /\ 1 + (resp.k - 1) = resp.k
      BY <1>0, <2>1, <2>2
    <3>2. Places("stop_all")[1 + (resp.k - 1)] = <<"robot", resp.k - 1>>
      BY <3>1, StopAllPlaces
    <3> QED
      BY <1>0, <3>1, <3>2, FlagPlaces
  <2> QED
    BY <1>0, <2>2
<1>4. 1 + i \in DOMAIN Places("stop_all")
  <2>1. DOMAIN Places("stop_all") = 1..Len(Places("stop_all"))
    BY PlacesAre DEF Response
  <2> QED
    BY <1>0, <1>3, <2>1
<1> DEFINE S == Steps("stop_all", Places("stop_all")[1 + i])
<1>5. ProgramOK("stop_all", Places("stop_all")[1 + i], S)
  BY <1>4, Programs DEF Response
<1>6. r \in Devices
  BY Kinds
<1> HIDE DEF S
<1>7. 1 \in DOMAIN S /\ S[1].op = "command"
  BY <1>2, <1>5, <1>6 DEF ProgramOK, StepOK, TriedOK
<1>8. StepAt("stop_all", 1 + i, 1).op = "command" /\ 1 + i \in 1..resp.k
  BY <1>0, <1>3, <1>7 DEF StepAt, S
<1> QED
  BY <1>2, <1>3, <1>7, <1>8 DEF Commanded, S

LEMMA ReadyStep ==
    ASSUME TypeOK, Store!TypeOK, CallInv, Running, UnsureInv, ReadyRobobsStopped, Next
    PROVE  ReadyRobobsStopped'
<1> SUFFICES ASSUME flag'["robobs"] = "ready", NEW r \in All("robot"), on'[r]
             PROVE  r \in unsure' \/ r \in StillToStop'
  BY DEF ReadyRobobsStopped
\* Left out for good, or yet to be reached.
<1>1. ASSUME resp.name = "stop_robobs", tried # {}, r \notin tried'
      PROVE  r \in unsure' \/ r \in StillToStop'
  <2>0. resp # NoResp
    BY <1>1 DEF NoResp
  <2>1. CASE resp' = NoResp
    BY <1>1, <2>1, StepKinds DEF Remember, Ends
  <2>2. CASE resp' # NoResp
    <3>1. resp'.name = "stop_robobs"
      BY <1>1, <2>0, <2>2, NextPlace
    <3>2. tried' # {}
      <4>1. tried \subseteq tried'
        BY <2>0, TriedGrows DEF Running
      <4> QED
        BY <1>1, <4>1
    <3> QED
      BY <1>1, <3>1, <3>2 DEF StillToStop
  <2> QED
    BY <2>1, <2>2
<1>2. CASE CommandStep /\ Here = r
  <2>1. CASE Step.to = TRUE
    <3>1. resp # NoResp /\ Step.op = "command" /\ flag' = flag
      BY <1>2, CommandSummary DEF store
    <3>2. resp.name = "start_robobs" /\ resp.n = 4
      BY <1>2, <2>1, <3>1, RespFacts DEF StepOK, OpenOK
    <3> QED
      BY <3>1, <3>2 DEF Running, RobobsInv
  <2>2. CASE Step.to # TRUE
    BY <1>2, <2>2, RobotMoves
  <2> QED
    BY <2>1, <2>2
<1>3. CASE ~ (CommandStep /\ Here = r)
  <2>1. on[r] /\ (resp # NoResp => r \notin tried' \ tried)
    BY <1>3, RobotMoves
  <2>2. CASE flag["robobs"] = "ready"
    <3>1. r \in unsure \/ r \in StillToStop
      BY <2>1, <2>2 DEF ReadyRobobsStopped
    <3>2. CASE r \in StillToStop
      <4>1. resp.name = "stop_robobs" /\ tried # {} /\ r \notin tried
        BY <3>2 DEF StillToStop
      <4>2. resp # NoResp
        BY <4>1 DEF NoResp
      <4> QED
        BY <1>1, <2>1, <4>1, <4>2
    <3>3. CASE r \in unsure
      <4>1. CASE resp # NoResp
        BY <2>1, <3>3, <4>1, UnsureStays
      <4>2. CASE resp = NoResp
        <5>1. tried' = {} \/ tried' = tried
          BY <4>2, StepKinds, ExecuteSummary, ReadSummary, CommandSummary, OthersSummary
          DEF SetRefused, SetBreaks, SetEnd
        <5> QED
          BY <3>3, <5>1, UnsureStays
      <4> QED
        BY <4>1, <4>2
    <3> QED
      BY <3>1, <3>2, <3>3
  <2>3. CASE flag["robobs"] # "ready"
    <3>1. /\ resp # NoResp
          /\ SetRefused \/ SetBreaks \/ SetEnd
          /\ Step.op = "set" /\ Step.ins = "robobs" /\ Step.flag = "ready"
      BY <2>3, RobobsFlag
    <3>2. tried' = tried /\ Commanded /\ RobobsInv
      BY <3>1 DEF SetRefused, SetBreaks, SetEnd, Running
    <3>3. CASE r \in tried
      <4>1. resp.name \in {"stop_robobs", "stop_all"}
        BY <3>1, RespFacts DEF StepOK, SetOK
      <4>2. r \in unsure
        BY <2>1, <3>2, <3>3, <4>1 DEF RobobsInv
      <4> QED
        BY <2>1, <3>1, <4>2, UnsureStays
    <3>4. CASE r \notin tried
      <4>1. ~ (resp.name = "stop_all" /\ Here = FlagOf("robobs"))
        BY <3>1, <3>2, <3>4, RobotsBeforeFlag
      <4>2. /\ resp.name = "stop_robobs" /\ resp.n = 2
            /\ Steps(resp.name, Here)[1].op = "command"
        BY <3>1, <4>1, RespFacts DEF StepOK, SetOK
      <4>3. Here \in tried
        <5>1. resp.k \in 1..resp.k
          BY <3>1, RespFacts
        <5>3. 1 \in DOMAIN Steps(resp.name, Here)
          BY <3>1, <4>2, RespFacts
        <5>2. 1 < resp.n
          BY <4>2
        <5> QED
          BY <3>2, <4>2, <5>1, <5>2, <5>3 DEF Commanded, StepAt, Here
      <4> QED
        BY <1>1, <3>2, <3>4, <4>2, <4>3
    <3> QED
      BY <3>3, <3>4
  <2> QED
    BY <2>2, <2>3
<1> QED
  BY <1>2, <1>3

-----------------------------------------------------------------------------
(* The invariant, and the theorems.                                        *)

LEMMA RespInit == Init => RespInv
<1> SUFFICES ASSUME Init
             PROVE  RespInv
  OBVIOUS
<1> USE DEF Init
<1>1. Store!TypeOK
  <2>1. "unset" \in Store!Flag
    BY DEF Store!Flag
  <2>2. flag \in [Instruments -> Store!Flag \cup {Store!NoRow}]
    BY <2>1
  <2>3. /\ call \in [Threads -> {Store!NoCall}]
        /\ phase \in {"down", "register", "reset", "up"}
    OBVIOUS
  <2> QED
    BY <2>2, <2>3 DEF Store!TypeOK
<1>2. TypeOK
  <2>1. "unset" \in Flag /\ faults \in 0..MaxFaults
    BY ResponsesAssumption DEF Flag
  <2>2. event \in [Handlers -> Seq([ins : Instruments, flag : Flag])]
        /\ \A h \in Handlers : Len(event[h]) <= 2
    OBVIOUS
  <2> QED
    BY <2>1, <2>2 DEF TypeOK
<1>3. CallInv
  BY ResponsesAssumption
  DEF CallInv, OperatorCalls, HandlerCalls, RunnerCalls, Store!NoCall, Threads
<1>4. Running /\ UnsureInv
  BY DEF Running, UnsureInv
<1>5. ReadyRobobsStopped
  BY Kinds DEF ReadyRobobsStopped
<1> QED
  BY <1>1, <1>2, <1>3, <1>4, <1>5 DEF RespInv

LEMMA RespStutter == RespInv /\ UNCHANGED vars => RespInv'
<1> SUFFICES ASSUME RespInv, UNCHANGED vars
             PROVE  RespInv'
  OBVIOUS
<1>1. /\ UNCHANGED <<plan, flag, active, call, phase, todo, raced, held>>
      /\ UNCHANGED <<on, resp, event, faults, tried, raised, hurt>>
      /\ UNCHANGED <<barred, locked, unsure>>
  BY DEF vars, store, control
<1>2. Here' = Here /\ Step' = Step /\ Wanted' = Wanted
  BY <1>1 DEF Here, Step, Wanted
<1>3. Store!TypeOK' /\ TypeOK'
  BY <1>1, <1>2 DEF RespInv, Store!TypeOK, TypeOK
<1>4. CallInv'
  BY <1>1, <1>2 DEF RespInv, CallInv, OperatorCalls, HandlerCalls, RunnerCalls
<1>5. UnsureInv' /\ ReadyRobobsStopped'
  BY <1>1 DEF RespInv, UnsureInv, ReadyRobobsStopped, StillToStop
<1>6. Running'
  <2>1. Marked' <=> Marked
    BY <1>1, <1>2 DEF Marked
  <2>2. (Looked' <=> Looked) /\ (Commanded' <=> Commanded)
    BY <1>1, <1>2 DEF Looked, Commanded
  <2>3. RobobsInv' <=> RobobsInv
    BY <1>1, <1>2 DEF RobobsInv
  <2> QED
    BY <1>1, <2>1, <2>2, <2>3 DEF RespInv, Running
<1> QED
  BY <1>3, <1>4, <1>5, <1>6 DEF RespInv

LEMMA RespStep == RespInv /\ [Next]_vars => RespInv'
<1> SUFFICES ASSUME RespInv, Next
             PROVE  RespInv'
  BY RespStutter
<1>1. /\ TypeOK /\ Store!TypeOK /\ CallInv /\ Running /\ UnsureInv /\ ReadyRobobsStopped
  BY DEF RespInv
<1>2. TypeOK' /\ Store!TypeOK'
  BY <1>1, TypeStep
<1>3. CallInv'
  BY <1>1, CallsStep
<1>4. Running' /\ UnsureInv' /\ ReadyRobobsStopped'
  BY <1>1, RunningStep, UnsureStep, ReadyStep
<1> QED
  BY <1>2, <1>3, <1>4 DEF RespInv

LEMMA RespInvariant == Spec => []RespInv
  BY RespInit, RespStep, PTL DEF Spec

\* Whatever the responses, the operators and the event handlers do: the board
\* keeps its flags and keys, the response that runs is at a step that its
\* program has, and no handler has more than two writes before it.
THEOREM ResponsesTypeOK == Spec => []TypeOK
<1>1. RespInv => TypeOK
  BY DEF RespInv
<1> QED
  BY <1>1, RespInvariant, PTL

\* Whenever the board says that robobs is READY, every robot is stopped but
\* those of which the board cannot know: the responses stop the robots before
\* they write the flag, and nobody else writes it.
THEOREM RobotsStopped == Spec => []ReadyRobobsStopped
<1>1. RespInv => ReadyRobobsStopped
  BY DEF RespInv
<1> QED
  BY <1>1, RespInvariant, PTL

\* Every step of a response, of an operator and of an event handler is a step
\* of the store or leaves it alone: the responses use no other way to write.
THEOREM ResponsesUseTheStore == Spec => [][Store!Next]_store
<1>1. RespInv /\ [Next]_vars => [Store!Next]_store
  BY StoreUse DEF RespInv
<1> QED
  BY <1>1, RespInvariant, PTL DEF Spec

LEMMA KeysInit == Init => Stored!StoreInv
<1> SUFFICES ASSUME Init
             PROVE  Stored!StoreInv
  OBVIOUS
<1>1. Stored!TypeOK
  BY RespInit, StoreIsStored DEF RespInv
<1>2. Stored!HeldKeysActive /\ Stored!HeldNotUnlocking /\ Stored!ReadsStillTrue
  BY DEF Init, Stored!HeldKeysActive, Stored!HeldNotUnlocking, Stored!ReadsStillTrue,
         Stored!At, Store!NoCall
<1> QED
  BY <1>1, <1>2 DEF Stored!StoreInv

LEMMA KeysStep ==
    RespInv /\ Stored!StoreInv /\ [Next]_vars => Stored!StoreInv'
<1> SUFFICES ASSUME RespInv, Stored!StoreInv, [Next]_vars
             PROVE  Stored!StoreInv'
  OBVIOUS
<1>1. [Store!Next]_store
  BY StoreUse DEF RespInv
<1> QED
  BY <1>1, StoreIsStored, Stored!StoreStep

\* What the store promises of its locks holds while responses, operators and
\* event handlers share it: a held key stays active, and only a write that a
\* lock() overtook takes a flag off LOCK under an active key.
THEOREM ResponsesKeepLocks ==
    Spec => []Store!HeldKeysActive /\ Store!LockLostOnlyToRace
<1> DEFINE Lost == \A i \in Instruments :
                      flag[i] = "lock" /\ flag'[i] # "lock" /\ active[i] # {} =>
                          \E t \in raced : Store!Busy(t, i) /\ call'[t] = Store!NoCall
<1>1. Init => RespInv /\ Stored!StoreInv
  BY RespInit, KeysInit
<1>2. RespInv /\ Stored!StoreInv /\ [Next]_vars => RespInv' /\ Stored!StoreInv'
  BY RespStep, KeysStep
<1>3. Stored!StoreInv => Store!HeldKeysActive
  BY DEF Stored!StoreInv, Stored!HeldKeysActive, Store!HeldKeysActive
<1>4. RespInv /\ Stored!StoreInv /\ [Next]_vars => [Lost]_(Store!vars)
  <2> SUFFICES ASSUME RespInv, Stored!StoreInv, [Next]_vars, ~ UNCHANGED Store!vars
               PROVE  Lost
    OBVIOUS
  <2>1. [Store!Next]_store
    BY StoreUse DEF RespInv
  <2>2. Stored!Next
    BY <2>1, StoreIsStored DEF Stored!vars, Store!vars, store
  <2> QED
    <3>1. SUFFICES ASSUME NEW i \in Instruments, flag[i] = "lock", flag'[i] # "lock",
                          active[i] # {}
                   PROVE  \E t \in raced : Store!Busy(t, i) /\ call'[t] = Store!NoCall
      OBVIOUS
    <3>2. PICK t \in raced : Stored!Busy(t, i) /\ call'[t] = Stored!NoCall
      BY <2>2, <3>1, StoreIsStored, Stored!LostStep
    <3> QED
      BY <3>2 DEF Stored!Busy, Store!Busy, Stored!NoCall, Store!NoCall
<1> QED
  BY <1>1, <1>2, <1>3, <1>4, PTL DEF Spec, Store!LockLostOnlyToRace

-----------------------------------------------------------------------------
(* What opens, and what ends                                               *)

\* Nothing but the command of a running response switches on anything that
\* the robots and the schedulers do not point.
LEMMA StartsIsCommand ==
    ASSUME RespInv, Next, NEW d \in Devices, d \notin All("drive"), Starts(d)
    PROVE  /\ CommandStep /\ resp # NoResp /\ Here = d
           /\ Step.op = "command" /\ Step.to = TRUE
<1>0. TypeOK /\ Store!TypeOK /\ CallInv /\ Running /\ on[d] # on'[d] /\ on'[d]
  BY DEF RespInv, Starts
<1>1. CommandStep
  <2>1. CASE ReadStep \/ ReadBreaks
    BY <1>0, <2>1, ReadSummary
  <2>2. CASE SetRefused \/ SetBreaks \/ SetEnd
    <3>1. on' = on
      BY <2>2 DEF SetRefused, SetBreaks, SetEnd
    <3> QED
      BY <1>0, <3>1
  <2>3. CASE Others
    BY <1>0, <2>3, OthersSummary
  <2> QED
    BY <1>0, <2>1, <2>2, <2>3, StepKinds, ExecuteSummary
<1>2. /\ resp # NoResp /\ Step.op = "command" /\ Here \in Devices
      /\ on' = on \/ on' = [on EXCEPT ![Here] = Step.to]
      /\ Step.to \in BOOLEAN
  BY <1>0, <1>1, CommandSummary
<1>3. on' = [on EXCEPT ![Here] = Step.to]
  BY <1>0, <1>2
<1>4. Here = d
  BY <1>0, <1>3 DEF TypeOK
<1>5. on'[d] = Step.to
  BY <1>0, <1>2, <1>3, <1>4 DEF TypeOK
<1> QED
  BY <1>0, <1>1, <1>2, <1>4, <1>5

\* What was read on the way.
LEMMA ReadOnTheWay ==
    ASSUME RespInv, resp # NoResp, NEW m \in 1..(resp.n - 1), NEW i, NEW flags, NEW orelse,
           Steps(resp.name, Here)[m] = Read(i, flags, orelse)
    PROVE  /\ flags = Operational => i \notin barred
           /\ flags = Flag \ {"lock"} => i \notin locked
<1>1. Looked
  BY DEF RespInv, Running
<1>2. StepAt(resp.name, resp.k, m) = [op |-> "read", ins |-> i, flags |-> flags,
                                      orelse |-> orelse]
  BY DEF StepAt, Here, Read
<1> QED
  BY <1>1, <1>2 DEF Looked

LEMMA KindsOfParts ==
    /\ All("slit") \cup All("flap") \cup All("cover") \cup All("robot") \subseteq Devices
    /\ (All("slit") \cup All("flap") \cup All("cover") \cup All("robot"))
           \cap All("drive") = {}
<1>1. \A kind \in {"slit", "flap", "cover", "robot"} : All(kind) \subseteq Devices
  BY EachFacts, CountFacts
<1>2. \A kind \in {"slit", "flap", "cover", "robot"} : All(kind) \cap All("drive") = {}
  BY DEF All
<1> QED
  BY <1>1, <1>2

LEMMA ShutStep ==
    ASSUME RespInv, Next, NEW d \in Devices, Starts(d)
    PROVE  /\ d \in All("slit") \cup All("flap") => {"dome", "site"} \cap barred = {}
           /\ d \in All("cover") => {"telescope", "site"} \cap barred = {}
           /\ d \in All("robot") => {"dome", "site"} \cap locked = {}
<1> DEFINE S == Steps(resp.name, Here)
<1> SUFFICES ASSUME d \in All("slit") \cup All("flap") \cup All("cover") \cup All("robot")
             PROVE  /\ d \in All("slit") \cup All("flap") => {"dome", "site"} \cap barred = {}
                    /\ d \in All("cover") => {"telescope", "site"} \cap barred = {}
                    /\ d \in All("robot") => {"dome", "site"} \cap locked = {}
  OBVIOUS
<1>1. resp # NoResp /\ Here = d /\ Step.op = "command" /\ Step.to = TRUE
  BY KindsOfParts, StartsIsCommand
<1>2. Step = S[resp.n] /\ OpenOK(resp.name, d, S, resp.n)
  BY <1>1, RespFacts DEF RespInv, StepOK
<1>3. CASE d \in All("slit") \cup All("flap")
  <2>1. resp.n = 4 /\ S[1] = MayOpen("dome") /\ S[2] = MayOpen("site")
    BY <1>1, <1>2, <1>3 DEF OpenOK
  <2>2. 1 \in 1..(resp.n - 1) /\ 2 \in 1..(resp.n - 1)
    BY <2>1
  <2>3. "dome" \notin barred /\ "site" \notin barred
    BY <1>1, <2>1, <2>2, ReadOnTheWay DEF MayOpen
  <2>4. d \notin All("cover") /\ d \notin All("robot")
    BY <1>3 DEF All
  <2> QED
    BY <2>3, <2>4
<1>4. CASE d \in All("cover")
  <2>1. resp.n = 3 /\ S[1] = MayOpen("telescope") /\ S[2] = MayOpen("site")
    BY <1>1, <1>2, <1>4 DEF OpenOK
  <2>2. 1 \in 1..(resp.n - 1) /\ 2 \in 1..(resp.n - 1)
    BY <2>1
  <2>3. "telescope" \notin barred /\ "site" \notin barred
    BY <1>1, <2>1, <2>2, ReadOnTheWay DEF MayOpen
  <2>4. d \notin All("slit") /\ d \notin All("flap") /\ d \notin All("robot")
    BY <1>4 DEF All
  <2> QED
    BY <2>3, <2>4
<1>5. CASE d \in All("robot")
  <2>1. resp.n = 4 /\ S[1] = NotLocked("dome") /\ S[2] = NotLocked("site")
    BY <1>1, <1>2, <1>5 DEF OpenOK
  <2>2. 1 \in 1..(resp.n - 1) /\ 2 \in 1..(resp.n - 1)
    BY <2>1
  <2>3. "dome" \notin locked /\ "site" \notin locked
    BY <1>1, <2>1, <2>2, ReadOnTheWay DEF NotLocked
  <2>4. d \notin All("slit") /\ d \notin All("flap") /\ d \notin All("cover")
    BY <1>5 DEF All
  <2> QED
    BY <2>3, <2>4
<1> QED
  BY <1>3, <1>4, <1>5

\* No slit, flap or cover opens in a response all through which its instrument
\* or the site was out of operation, for any number of domes and telescopes
\* and whatever is written, fails or races meanwhile.
THEOREM NothingOpensBarred == Spec => BarredStaysShut
<1> DEFINE Shut == /\ \A d \in All("slit") \cup All("flap") :
                         Starts(d) => {"dome", "site"} \cap barred = {}
                   /\ \A d \in All("cover") :
                         Starts(d) => {"telescope", "site"} \cap barred = {}
<1>1. RespInv /\ [Next]_vars => [Shut]_vars
  BY ShutStep, KindsOfParts
<1> QED
  BY <1>1, RespInvariant, PTL DEF Spec, BarredStaysShut

\* No robot starts in a response all through which the dome or the site was
\* LOCK: start_robobs reads both before the command, for every robot anew.
THEOREM NoRobotUnderLock == Spec => LockedRobotStaysOff
<1> DEFINE Off == \A d \in All("robot") : Starts(d) => {"dome", "site"} \cap locked = {}
<1>1. RespInv /\ [Next]_vars => [Off]_vars
  BY ShutStep, KindsOfParts
<1> QED
  BY <1>1, RespInvariant, PTL DEF Spec, LockedRobotStaysOff

\* The devices that stop_all goes to, each with a command and nothing else.
LEMMA StopAllDevices ==
    ASSUME NEW d \in All("robot") \cup All("queue") \cup All("drive")
    PROVE  \E j \in 1..Len(Places("stop_all")) :
              /\ Places("stop_all")[j] = d
              /\ 1 \in DOMAIN Steps("stop_all", Places("stop_all")[j])
              /\ StepAt("stop_all", j, 1).op = "command"
<1>0. Robots \in Nat /\ Schedulers \in Nat /\ Telescopes \in Nat /\ "stop_all" \in Response
  BY ResponsesAssumption DEF Response
<1> DEFINE P == Places("stop_all")
<1>1. /\ Len(P) = AfterFlags + Schedulers + Telescopes
      /\ \A n \in 1..Robots : P[1 + n] = <<"robot", n>>
      /\ \A n \in 1..Schedulers : P[AfterFlags + n] = <<"queue", n>>
      /\ \A n \in 1..Telescopes : P[AfterFlags + Schedulers + n] = <<"drive", n>>
  BY StopAllPlaces
<1>2. DOMAIN P = 1..Len(P)
  BY <1>0, PlacesAre
<1>3. AfterFlags \in Nat /\ AfterFlags >= Robots + 1
  BY <1>0 DEF AfterFlags
<1>4. /\ Count["robot"] = Robots /\ Count["queue"] = Schedulers
      /\ Count["drive"] = Telescopes
  BY DEF Count
<1> HIDE DEF P
<1>5. \E j \in 1..Len(P) : P[j] = d
  <2>1. ASSUME NEW n \in 1..Robots, d = <<"robot", n>>
        PROVE  \E j \in 1..Len(P) : P[j] = d
    <3>1. 1 + n \in 1..Len(P)
      BY <1>0, <1>1, <1>3
    <3> QED
      BY <1>1, <2>1, <3>1
  <2>2. ASSUME NEW n \in 1..Schedulers, d = <<"queue", n>>
        PROVE  \E j \in 1..Len(P) : P[j] = d
    <3>1. AfterFlags + n \in 1..Len(P)
      BY <1>0, <1>1, <1>3
    <3> QED
      BY <1>1, <2>2, <3>1
  <2>3. ASSUME NEW n \in 1..Telescopes, d = <<"drive", n>>
        PROVE  \E j \in 1..Len(P) : P[j] = d
    <3>1. AfterFlags + Schedulers + n \in 1..Len(P)
      BY <1>0, <1>1, <1>3
    <3> QED
      BY <1>1, <2>3, <3>1
  <2> QED
    BY <1>4, <2>1, <2>2, <2>3 DEF All
<1>6. d \in Devices
  <2>1. \A kind \in {"robot", "queue", "drive"} : All(kind) \subseteq Devices
    BY EachFacts, CountFacts
  <2> QED
    BY <2>1
<1>7. PICK j \in 1..Len(P) : P[j] = d
  BY <1>5
<1>8. ProgramOK("stop_all", d, Steps("stop_all", d))
  BY <1>0, <1>2, <1>7, Programs DEF P
<1> DEFINE S == Steps("stop_all", d)
<1> HIDE DEF S
<1>9. 1 \in DOMAIN S /\ S[1].op = "command"
  BY <1>6, <1>8 DEF ProgramOK, StepOK, TriedOK, S
<1> QED
  BY <1>7, <1>9 DEF P, S, StepAt

LEMMA StopAllFlagLeft ==
    ASSUME RespInv, Next, Ends("stop_all"), Robots > 0
    PROVE  flag'["robobs"] # "operating" \/ hurt'
<1>0. TypeOK /\ Store!TypeOK /\ CallInv /\ Running
  BY DEF RespInv
<1>1. resp # NoResp /\ resp.name = "stop_all" /\ resp' = NoResp /\ resp' = After(1)
  BY <1>0, StopAllEnds DEF Ends
<1>2. Marked /\ RobobsInv
  BY <1>0, <1>1 DEF Running
<1>3. resp.k = Len(Places("stop_all"))
  <2>1. resp.k \in 1..Len(Places("stop_all")) /\ Len(Places("stop_all")) \in Nat
    BY <1>0, <1>1, RespFacts
  <2>2. ~ (resp.k < Len(Places("stop_all")))
    BY <1>0, <1>1, AfterCases, SomewhereIsRunning DEF After
  <2> QED
    BY <2>1, <2>2
<1>4. /\ Robots + 2 \in 1..resp.k /\ Places("stop_all")[Robots + 2] = FlagOf("robobs")
      /\ resp.k \in Nat
  BY <1>3, ResponsesAssumption, StopAllPlaces DEF AfterFlags
<1>5. CASE Robots + 2 = resp.k
  <2>1. Here = FlagOf("robobs")
    BY <1>1, <1>4, <1>5 DEF Here
  <2> QED
    BY <1>0, <1>1, <1>2, <2>1, FlagPassed
<1>6. CASE Robots + 2 # resp.k
  <2>1. Robots + 2 \in 1..(resp.k - 1)
    BY <1>4, <1>6
  <2>2. flag["robobs"] # "operating" \/ hurt
    BY <1>1, <1>2, <1>4, <2>1 DEF RobobsInv
  <2> QED
    BY <1>0, <1>1, <1>2, <2>2, HurtStays, RobobsFlag
<1> QED
  BY <1>5, <1>6

LEMMA StopAllStep ==
    ASSUME RespInv, Next, Ends("stop_all")
    PROVE  /\ All("robot") \cup All("queue") \cup All("drive") \subseteq tried'
           /\ Robots > 0 => flag'["robobs"] # "operating" \/ hurt'
<1>1. AllCommanded("stop_all", tried')
  BY StopAllEnds DEF RespInv
<1>2. ASSUME NEW d \in All("robot") \cup All("queue") \cup All("drive")
      PROVE  d \in tried'
  BY <1>1, StopAllDevices DEF AllCommanded
<1> QED
  BY <1>2, StopAllFlagLeft

\* stop_all ends at nothing before its last command, for any number of robots,
\* schedulers and telescopes and whichever of them raise; and the robots' flag
\* it leaves is not OPERATING unless the store failed.
THEOREM StopAllStopsAll == Spec => StopAllIsComplete
<1> DEFINE Complete ==
        Ends("stop_all") =>
            /\ All("robot") \cup All("queue") \cup All("drive") \subseteq tried'
            /\ Robots > 0 => flag'["robobs"] # "operating" \/ hurt'
<1>1. RespInv /\ [Next]_vars => [Complete]_vars
  BY StopAllStep
<1> QED
  BY <1>1, RespInvariant, PTL DEF Spec, StopAllIsComplete

LEMMA CloseSlitStep ==
    ASSUME RespInv, Next, Ends("close_slit")
    PROVE  All("slit") \subseteq tried' \/ raised' # {}
<1>1. AllCommanded("close_slit", tried') \/ raised' # {}
  BY CloseSlitEnds DEF RespInv
<1>2. ASSUME AllCommanded("close_slit", tried'), NEW d \in All("slit")
      PROVE  d \in tried'
  <2>1. /\ "close_slit" \in Plain /\ "close_slit" \in Response
        /\ KindOf("close_slit") = "slit"
        /\ Steps("close_slit", d) = GuardedClose("dome")
    BY DEF Plain, Response, KindOf, Steps
  <2>2. /\ "slit" \in DOMAIN Count
        /\ Places("close_slit") = Each("slit")
    BY <2>1, PlainPlaces
  <2>3. PICK j \in 1..Len(Places("close_slit")) : Places("close_slit")[j] = d
    BY <2>2, EachFacts
  <2> DEFINE S == GuardedClose("dome")
  <2>4. 3 \in DOMAIN S /\ S[3].op = "command"
    BY DEF GuardedClose, Command
  <2> HIDE DEF S
  <2>5. 3 \in DOMAIN Steps("close_slit", Places("close_slit")[j])
        /\ StepAt("close_slit", j, 3).op = "command"
    BY <2>1, <2>3, <2>4 DEF StepAt, S
  <2> QED
    BY <1>2, <2>3, <2>5 DEF AllCommanded
<1> QED
  BY <1>1, <1>2

\* No flag, no lock and no failing statement keeps close_slit from a slit: it
\* has commanded all of them when it ends, or one of them raised.
THEOREM SlitsAreClosed == Spec => ClosingIsTried
<1> DEFINE Tried == Ends("close_slit") => All("slit") \subseteq tried' \/ raised' # {}
<1>1. RespInv /\ [Next]_vars => [Tried]_vars
  BY CloseSlitStep
<1> QED
  BY <1>1, RespInvariant, PTL DEF Spec, ClosingIsTried
=============================================================================
