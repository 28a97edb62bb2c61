------------------------------- MODULE MCAlarm -------------------------------
(***************************************************************************)
(* Alarm with three or four alarms, room for one less, and a clock of a    *)
(* few ticks: enough for every swap of alarm_unset, equal ticks, a full    *)
(* array and the largest tick.                                             *)
(***************************************************************************)
EXTENDS Alarm, TLC

Symmetric == Permutations(Alarms)
=============================================================================
