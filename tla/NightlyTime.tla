---------------------------- MODULE NightlyTime ----------------------------
(***************************************************************************)
(* The time condition of conditions.py.  The site answers with the first   *)
(* occurrence of an event at or after the UT midnight of the current date, *)
(* so an evening reference jumps a day ahead when the date changes, in the *)
(* middle of the night, and a morning reference lags a day behind from     *)
(* sunrise on; _reference_time corrects both by twelve-hour rules.         *)
(*                                                                         *)
(* Times count from the midnight of now.date(), in units of which twelve   *)
(* hours have Half.  The site's times of day stay the same throughout: the *)
(* minute or two by which the sun drifts in a day is left out, and so is   *)
(* the instant between the two readings of the clock in one evaluation.    *)
(***************************************************************************)
EXTENDS Integers

CONSTANTS
    Half,   \* the units in twelve hours
    Skies   \* the sites to consider: the time of day of every reference

Evening == {"sunset", "sunset_twilight_begin", "sunset_twilight_end"}
Morning == {"sunrise", "sunrise_twilight_begin", "sunrise_twilight_end"}

\* _TIME_REFERENCES and a fixed "HH:MM".
References == Evening \cup Morning \cup {"HH:MM"}

Day == 2 * Half
TimeOfDay == 0..(Day - 1)

\* An evening twilight that runs past midnight ends within twelve hours.
ShortTwilight(s) ==
    s["sunset_twilight_end"] < s["sunset"]
        => s["sunset_twilight_end"] + Day - s["sunset"] <= Half

ASSUME NightlyTimeAssumption == /\ Half \in Nat \ {0}
                                /\ Skies \subseteq [References -> TimeOfDay]
                                /\ \A s \in Skies : ShortTwilight(s)

VARIABLES
    clock,  \* the time of day of ctx.utcnow()
    sky     \* the time of day of each reference

vars == <<clock, sky>>

-----------------------------------------------------------------------------
(* _reference_time                                                         *)

\* Mutant: the end of twilight is asked for the date.
OccurrenceByDate(r) == sky[r]

\* What the site answers for today's date.  The end of twilight is asked for
\* the instant of the sunset, and may be tomorrow.
Occurrence(r) ==
    IF r = "sunset_twilight_end" /\ sky[r] < sky["sunset"]
    THEN sky[r] + Day
    ELSE sky[r]

\* Mutants: no correction, and one that does not ask how far ahead.
RollBackNothing(r, t) == t
RollBackAhead(r, t) == IF r \in Evening /\ t > clock THEN t - Day ELSE t

\* An evening more than twelve hours ahead is yesterday's.
RollBack(r, t) == IF r \in Evening /\ t - clock > Half THEN t - Day ELSE t

\* Mutant: no correction.
RollForwardNothing(r, t) == t

\* A morning more than twelve hours behind is tomorrow's.
RollForward(r, t) == IF r \in Morning /\ clock - t > Half THEN t + Day ELSE t

ReferenceTime(r) == RollForward(r, RollBack(r, Occurrence(r)))

-----------------------------------------------------------------------------
(* evaluate                                                                *)

\* A condition of the checklist: `when: reference, offset: o`.
TimeCondition(when, r, o) == [when |-> when, reference |-> r, offset |-> o]

\* Mutant: the instant itself is after and before.
PassedAtOnce(c) ==
    LET reference == ReferenceTime(c.reference) + c.offset
    IN  \/ c.when = "after" /\ clock >= reference
        \/ c.when = "before" /\ clock <= reference

Passed(c) ==
    LET reference == ReferenceTime(c.reference) + c.offset
    IN  \/ c.when = "after" /\ clock > reference
        \/ c.when = "before" /\ clock < reference

After(r, o) == Passed(TimeCondition("after", r, o))
Before(r, o) == Passed(TimeCondition("before", r, o))

-----------------------------------------------------------------------------

\* The supervisor may look at the clock at any time of any day.
Init == clock \in TimeOfDay /\ sky \in Skies

\* Time passes; after the last unit the date changes.
Tick == clock' = (IF clock = Day - 1 THEN 0 ELSE clock + 1) /\ UNCHANGED sky

Next == Tick

Spec == Init /\ [][Next]_vars

-----------------------------------------------------------------------------
(* Properties: what the conditions ought to say, from the point of view of *)
(* the sun, which knows no dates.                                          *)

\* The time since an event was last reached, and until it is next reached.
Since(r) == IF clock >= sky[r] THEN clock - sky[r] ELSE clock - sky[r] + Day
Until(r) == IF clock <= sky[r] THEN sky[r] - clock ELSE sky[r] - clock + Day

\* The sun is up at both ends of the day, too.
SunUp == Until("sunset") <= Until("sunrise") \/ Since("sunrise") = 0

TypeOK == clock \in TimeOfDay /\ sky \in Skies

\* `after: sunset` stays true in the night under way, across the change of
\* the date: for twelve hours from the event, and so for every evening
\* reference.  A night that is longer loses its last part.
EveningStaysReached ==
    \A r \in Evening : Since(r) \in 1..(Half - 1) => After(r, 0)

\* `before: sunrise` is true of the coming morning in the night before it: in
\* the twelve hours that lead to the event, and so for every morning
\* reference.  A night that is longer loses its first part.
MorningStaysAhead ==
    \A r \in Morning : Until(r) \in 1..(Half - 1) => Before(r, 0)

\* The pair `after: event - a`, `before: event - b` in one item holds from a to
\* b before the event, wherever the change of the date falls.  Of the evening
\* events only one in the second half of the UT day has that, and the end of a
\* twilight that the sunset has begun on the day before.
WindowsAreExact ==
    \A r \in Evening \cup Morning :
        \/ r \in Morning
        \/ sky[r] >= Half
        \/ r = "sunset_twilight_end" /\ sky[r] < sky["sunset"]
        => \A a, b \in 0..Half :
               After(r, -a) /\ Before(r, -b) <=> b < Until(r) /\ Until(r) < a

\* An item with `after: sunset` and `before: sunrise` is not true by day, at a
\* site where one of them falls in the first half of the UT day and the other
\* in the second.
NeverOpenByDay ==
    (sky["sunset"] >= Half <=> sky["sunrise"] < Half) =>
        ~ (SunUp /\ After("sunset", 0) /\ Before("sunrise", 0))

\* An item that runs on the edge runs at the event: `after` becomes true in the
\* first instant past it and `before` false when it is reached, never when the
\* date changes or a correction begins or ends to apply.
EdgesAreEvents ==
    [][\A r \in References :
          /\ ~ After(r, 0) /\ After(r, 0)' => Since(r)' = 1
          /\ Before(r, 0) /\ ~ Before(r, 0)' => Until(r)' = 0]_vars
=============================================================================
