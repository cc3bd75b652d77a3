---------------------------- MODULE MCResponses ----------------------------
(* Instances of Responses for TLC. *)
EXTENDS Responses

DomePlan ==
    [runnable |-> {"open_slit", "close_slit", "open_cover", "close_cover"},
     written |-> {"dome", "site"} \X {"ready"}, keyed |-> {}, lockable |-> {"dome"},
     events |-> {"unpark_complete"}]

FlapPlan ==
    [runnable |-> {"open_flap", "close_flap"},
     written |-> {"dome", "site"} \X {"ready"}, keyed |-> {}, lockable |-> {"site"},
     events |-> {}]

RobotPlan(lockable) ==
    [runnable |-> {"start_robobs", "stop_robobs", "start_scheduler", "stop_all"},
     written |-> {}, keyed |-> {}, lockable |-> lockable, events |-> {}]

TelescopePlan ==
    [runnable |-> {"unpark", "park", "slew", "stop_tracking", "open_cover", "close_cover"},
     written |-> {}, keyed |-> {}, lockable |-> {"telescope"},
     events |-> {"park_complete"}]

OtherPlan ==
    [runnable |-> {"track", "stand", "switch_on", "switch_off", "configure_scheduler",
                   "stop_scheduler"},
     written |-> {}, keyed |-> {"dome"}, lockable |-> {"scheduler"},
     events |-> {"scheduler_error"}]

AllPlans == {DomePlan, FlapPlan, RobotPlan({"site"}), RobotPlan({"robobs"}),
             TelescopePlan, OtherPlan}
=============================================================================
