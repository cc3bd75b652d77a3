-------------------------- MODULE NightlyTimeProofs --------------------------
(***************************************************************************)
(* The properties of NightlyTime for every length of the day and every     *)
(* site.  All of them follow from the types and from the step of the       *)
(* clock; what an evening and a morning reference come to is worked out    *)
(* once, in EveningReference and MorningReference.                         *)
(***************************************************************************)
EXTENDS NightlyTime, TLAPS

\* The types are invariant: the clock wraps at the change of the date.
LEMMA NightlyTypeOK == Spec => []TypeOK
<1>1. Init => TypeOK
  BY NightlyTimeAssumption DEF Init, TypeOK
<1>2. TypeOK /\ [Next]_vars => TypeOK'
  BY NightlyTimeAssumption DEF TypeOK, Next, Tick, vars, TimeOfDay, Day
<1> QED
  BY <1>1, <1>2, PTL DEF Spec

\* The answers of the site and the corrected references.
LEMMA EveningReference ==
    ASSUME TypeOK, NEW r \in Evening
    PROVE  /\ sky[r] \in TimeOfDay
           /\ \/ Occurrence(r) = sky[r]
              \/ Occurrence(r) = sky[r] + Day /\ sky[r] < Half
           /\ ReferenceTime(r) = IF Occurrence(r) - clock > Half
                                 THEN Occurrence(r) - Day
                                 ELSE Occurrence(r)
<1>1. clock \in TimeOfDay /\ sky \in [References -> TimeOfDay] /\ ShortTwilight(sky)
  BY NightlyTimeAssumption DEF TypeOK
<1>2. r \in References /\ "sunset" \in References /\ r \notin Morning
  BY DEF Evening, Morning, References
<1>3. sky[r] \in TimeOfDay /\ sky["sunset"] \in TimeOfDay
  BY <1>1, <1>2
<1>4. \/ Occurrence(r) = sky[r]
      \/ Occurrence(r) = sky[r] + Day /\ sky[r] < Half
  BY <1>1, <1>3, NightlyTimeAssumption DEF Occurrence, ShortTwilight, TimeOfDay, Day
<1>5. ReferenceTime(r) = IF Occurrence(r) - clock > Half
                         THEN Occurrence(r) - Day
                         ELSE Occurrence(r)
  BY <1>2 DEF ReferenceTime, RollBack, RollForward
<1> QED
  BY <1>3, <1>4, <1>5

LEMMA MorningReference ==
    ASSUME TypeOK, NEW r \in Morning
    PROVE  /\ sky[r] \in TimeOfDay
           /\ ReferenceTime(r) = IF clock - sky[r] > Half
                                 THEN sky[r] + Day
                                 ELSE sky[r]
  BY NightlyTimeAssumption
  DEF TypeOK, Evening, Morning, References, Occurrence, ReferenceTime,
      RollBack, RollForward, TimeOfDay, Day

\* What `after` and `before` compare.
LEMMA Comparisons ==
    ASSUME NEW r, NEW o
    PROVE  /\ After(r, o) <=> clock > ReferenceTime(r) + o
           /\ Before(r, o) <=> clock < ReferenceTime(r) + o
  BY DEF After, Before, Passed, TimeCondition

-----------------------------------------------------------------------------

LEMMA EveningReached == TypeOK => EveningStaysReached
<1> SUFFICES ASSUME TypeOK, NEW r \in Evening, Since(r) \in 1..(Half - 1)
             PROVE  clock > ReferenceTime(r) + 0
  BY Comparisons DEF EveningStaysReached
<1>1. clock \in TimeOfDay
  BY DEF TypeOK
<1>2. PICK t : t = Occurrence(r)
  OBVIOUS
<1>3. /\ t = sky[r] \/ (t = sky[r] + Day /\ sky[r] < Half)
      /\ sky[r] \in TimeOfDay
      /\ ReferenceTime(r) = IF t - clock > Half THEN t - Day ELSE t
  BY <1>2, EveningReference
<1> QED
  BY <1>1, <1>3, NightlyTimeAssumption DEF Since, TimeOfDay, Day

LEMMA MorningAhead == TypeOK => MorningStaysAhead
<1> SUFFICES ASSUME TypeOK, NEW r \in Morning, Until(r) \in 1..(Half - 1)
             PROVE  clock < ReferenceTime(r) + 0
  BY Comparisons DEF MorningStaysAhead
<1>1. clock \in TimeOfDay
  BY DEF TypeOK
<1> QED
  BY <1>1, MorningReference, NightlyTimeAssumption DEF Until, TimeOfDay, Day

LEMMA ExactWindows == TypeOK => WindowsAreExact
<1> SUFFICES ASSUME TypeOK,
                    NEW r \in Evening \cup Morning,
                    \/ r \in Morning
                    \/ sky[r] >= Half
                    \/ r = "sunset_twilight_end" /\ sky[r] < sky["sunset"],
                    NEW a \in 0..Half, NEW b \in 0..Half
             PROVE  After(r, -a) /\ Before(r, -b) <=> b < Until(r) /\ Until(r) < a
  BY DEF WindowsAreExact
<1>1. clock \in TimeOfDay
  BY DEF TypeOK
<1>2. /\ After(r, -a) <=> clock > ReferenceTime(r) + (-a)
      /\ Before(r, -b) <=> clock < ReferenceTime(r) + (-b)
  BY Comparisons
<1>3. CASE r \in Morning
  BY <1>1, <1>2, <1>3, MorningReference, NightlyTimeAssumption
  DEF Until, TimeOfDay, Day
<1>4. CASE r \in Evening /\ r \notin Morning
  <2>1. Occurrence(r) >= Half
    BY <1>4, EveningReference, NightlyTimeAssumption DEF Occurrence, TimeOfDay, Day
  <2> QED
    BY <1>1, <1>2, <1>4, <2>1, EveningReference, NightlyTimeAssumption
    DEF Until, TimeOfDay, Day
<1> QED
  BY <1>3, <1>4

LEMMA ClosedByDay == TypeOK => NeverOpenByDay
<1> SUFFICES ASSUME TypeOK,
                    sky["sunset"] >= Half <=> sky["sunrise"] < Half,
                    clock > ReferenceTime("sunset") + 0,
                    clock < ReferenceTime("sunrise") + 0
             PROVE  ~ SunUp
  BY Comparisons DEF NeverOpenByDay
<1>1. clock \in TimeOfDay
  BY DEF TypeOK
<1>2. /\ Occurrence("sunset") = sky["sunset"]
      /\ "sunset" \in Evening
      /\ "sunrise" \in Morning
  BY DEF Occurrence, Evening, Morning
<1> QED
  BY <1>1, <1>2, EveningReference, MorningReference, NightlyTimeAssumption
  DEF SunUp, Since, Until, TimeOfDay, Day

\* One tick, with the references before and after it.
LEMMA TickEdges ==
    ASSUME TypeOK, TypeOK', Tick, NEW r \in References
    PROVE  /\ ~ After(r, 0) /\ After(r, 0)' => Since(r)' = 1
           /\ Before(r, 0) /\ ~ Before(r, 0)' => Until(r)' = 0
<1>1. /\ clock \in TimeOfDay
      /\ clock' = IF clock = Day - 1 THEN 0 ELSE clock + 1
      /\ sky' = sky
      /\ sky \in [References -> TimeOfDay]
      /\ ShortTwilight(sky)
  BY NightlyTimeAssumption DEF TypeOK, Tick
<1>2. /\ After(r, 0) <=> clock > ReferenceTime(r) + 0
      /\ Before(r, 0) <=> clock < ReferenceTime(r) + 0
      /\ After(r, 0)' <=> clock' > ReferenceTime(r)' + 0
      /\ Before(r, 0)' <=> clock' < ReferenceTime(r)' + 0
  BY DEF After, Before, Passed, TimeCondition
<1>3. PICK p : p = sky[r]
  OBVIOUS
<1>4. p \in TimeOfDay /\ sky'[r] = p
  BY <1>1, <1>3
<1>5. CASE r \in Evening
  <2>1. r \notin Morning
    BY <1>5 DEF Evening, Morning
  <2>2. PICK t : t = Occurrence(r)
    OBVIOUS
  <2>3. Occurrence(r)' = t
    BY <1>1, <2>2 DEF Occurrence
  <2>4. t = p \/ (t = p + Day /\ p < Half)
    BY <1>3, <1>5, <2>2, EveningReference
  <2>5. /\ ReferenceTime(r) = IF t - clock > Half THEN t - Day ELSE t
        /\ ReferenceTime(r)' = IF t - clock' > Half THEN t - Day ELSE t
    BY <1>5, <2>1, <2>2, <2>3 DEF ReferenceTime, RollBack, RollForward
  <2> QED
    BY <1>1, <1>2, <1>3, <1>4, <2>4, <2>5, NightlyTimeAssumption
    DEF Since, Until, TimeOfDay, Day
<1>6. CASE r \in Morning
  <2>1. r \notin Evening /\ Occurrence(r) = p /\ Occurrence(r)' = p
    BY <1>3, <1>4, <1>6 DEF Evening, Morning, Occurrence
  <2>2. /\ ReferenceTime(r) = IF clock - p > Half THEN p + Day ELSE p
        /\ ReferenceTime(r)' = IF clock' - p > Half THEN p + Day ELSE p
    BY <1>6, <2>1 DEF ReferenceTime, RollBack, RollForward
  <2> QED
    BY <1>1, <1>2, <1>3, <1>4, <2>2, NightlyTimeAssumption
    DEF Since, Until, TimeOfDay, Day
<1>7. CASE r = "HH:MM"
  <2>1. ReferenceTime(r) = p /\ ReferenceTime(r)' = p
    BY <1>3, <1>4, <1>7
    DEF ReferenceTime, RollBack, RollForward, Occurrence, Evening, Morning
  <2> QED
    BY <1>1, <1>2, <1>3, <1>4, <2>1, NightlyTimeAssumption
    DEF Since, Until, TimeOfDay, Day
<1> QED
  BY <1>5, <1>6, <1>7 DEF References

\* A night under way keeps `after: sunset` for twelve hours, at every site.
THEOREM NightsStayReached == Spec => []EveningStaysReached
  BY NightlyTypeOK, EveningReached, PTL

\* The coming morning keeps `before: sunrise` in the twelve hours before it.
THEOREM MorningsStayAhead == Spec => []MorningStaysAhead
  BY NightlyTypeOK, MorningAhead, PTL

\* The windows before an event are exact, whatever their offsets.
THEOREM EventWindowsAreExact == Spec => []WindowsAreExact
  BY NightlyTypeOK, ExactWindows, PTL

\* Nothing that asks for `after: sunset` and `before: sunrise` runs by day.
THEOREM ShutByDay == Spec => []NeverOpenByDay
  BY NightlyTypeOK, ClosedByDay, PTL

\* What runs on the edge of a time condition runs at the event, at every site.
THEOREM EdgesFallOnEvents == Spec => EdgesAreEvents
<1>1. ASSUME TypeOK, TypeOK', [Next]_vars, vars' # vars, NEW r \in References
      PROVE  /\ ~ After(r, 0) /\ After(r, 0)' => Since(r)' = 1
             /\ Before(r, 0) /\ ~ Before(r, 0)' => Until(r)' = 0
  BY <1>1, TickEdges DEF Next
<1>2. TypeOK /\ TypeOK' /\ [Next]_vars
        => [\A r \in References :
              /\ ~ After(r, 0) /\ After(r, 0)' => Since(r)' = 1
              /\ Before(r, 0) /\ ~ Before(r, 0)' => Until(r)' = 0]_vars
  BY <1>1
<1> QED
  BY <1>2, NightlyTypeOK, PTL DEF Spec, EdgesAreEvents
=============================================================================
