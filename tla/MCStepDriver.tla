--------------------------- MODULE MCStepDriver ---------------------------
(* Small backlogs for TLC. *)
EXTENDS StepDriver

RoutineHard    == <<"routine", "hard">>
MeaningRoutine == <<"meaning", "routine">>
RoutineMoneyHalt == <<"routine", "money", "halt", "routine">>
=============================================================================
