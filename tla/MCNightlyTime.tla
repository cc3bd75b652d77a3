--------------------------- MODULE MCNightlyTime ---------------------------
(* An instance of NightlyTime for TLC: every sunset in whole hours, nights of  *)
(* either side of twelve hours, with and without a twilight.               *)
EXTENDS NightlyTime

\* The events of one site from its sunset, the lengths of its night and of its
\* twilight, and the fixed time of the checklist.
Sky(sunset, night, twilight, fixed) ==
    [r \in References |->
        CASE r = "sunset" -> sunset
          [] r = "sunset_twilight_begin" -> (sunset + (twilight \div 2)) % Day
          [] r = "sunset_twilight_end" -> (sunset + twilight) % Day
          [] r = "sunrise_twilight_begin" -> (sunset + night - twilight) % Day
          [] r = "sunrise_twilight_end" -> (sunset + night - (twilight \div 2)) % Day
          [] r = "sunrise" -> (sunset + night) % Day
          [] r = "HH:MM" -> fixed]

AllSkies == {Sky(sunset, night, twilight, 20) : sunset \in TimeOfDay,
             night \in {5, 11, 12, 13, 19}, twilight \in {0, 2}}
=============================================================================
