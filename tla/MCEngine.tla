------------------------------ MODULE MCEngine ------------------------------
(* Instances of Engine for TLC. *)
EXTENDS Engine, TLC

CONSTANTS close, reopen, humidity, gate

Bare(q) == [kind |-> "threshold", what |-> q, span |-> 0]
For(q, d) == [kind |-> "timed", what |-> q, span |-> d]
Other(q) == [kind |-> "other", what |-> q, span |-> 0]

\* A checklist of the items in order, all active and of one response.
Checklist(order, conds, run) ==
    [order |-> order,
     conds |-> [i \in Items |-> IF i \in DOMAIN conds THEN conds[i] ELSE <<>>],
     responses |-> [i \in Items |-> 1],
     run |-> run,
     on_error |-> [i \in Items |-> "continue"],
     active |-> [i \in Items |-> TRUE]]

OnChange == [i \in Items |-> "on_change"]

\* Close when humid, reopen behind a gate after a dry spell.
Weather == [Checklist(<<close, reopen>>,
                      (close :> <<Bare(humidity)>>) @@
                      (reopen :> <<Other(gate), For(humidity, 2)>>),
                      OnChange)
            EXCEPT !.responses = [i \in Items |-> 2],
                   !.on_error = [i \in Items |-> IF i = reopen THEN "abort" ELSE "continue"]]

\* Closing was taken out of the checklist, and reopening lost its gate, so that
\* its timed condition moved up.
Rewritten == Checklist(<<reopen>>, (reopen :> <<For(humidity, 2)>>), OnChange)

WeatherConfigs == {Weather, Rewritten}

\* A short debounce behind a gate that reads the same quantity.
Gated == Checklist(<<close, reopen>>,
                   (close :> <<Bare(humidity)>>) @@
                   (reopen :> <<Other(humidity), For(humidity, 1)>>),
                   [OnChange EXCEPT ![close] = "always"])

\* Two timed conditions in one item.
TwoTimers == Checklist(<<reopen>>,
                       (reopen :> <<For(humidity, 2), For(gate, 2)>>),
                       OnChange)

GatedConfigs == {Gated}
TwoTimersConfigs == {TwoTimers}
=============================================================================
