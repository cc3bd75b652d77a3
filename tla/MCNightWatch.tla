---------------------------- MODULE MCNightWatch ----------------------------
(* An instance of NightWatch for TLC: a station that says humid or damp, and *)
(* another that says dry and is asked when the first falls silent.            *)
EXTENDS NightWatch, TLC

CONSTANTS station1, station2

TwoStations == <<station1, station2>>
HumidThenDry == (station1 :> {90, 82}) @@ (station2 :> {70})
=============================================================================
