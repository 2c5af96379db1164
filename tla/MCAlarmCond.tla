------------------------------ MODULE MCAlarmCond ------------------------------
(* Instances of AlarmCond for TLC. *)
EXTENDS AlarmCond, TLC

\* What the user asks for: also a time that is over.
AlsoPast == -1 .. 2
===============================================================================
