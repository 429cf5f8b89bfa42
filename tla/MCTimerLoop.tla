---------------------------- MODULE MCTimerLoop -----------------------------
(***************************************************************************)
(* Values of the function constant of TimerLoop for TLC.                    *)
(***************************************************************************)
EXTENDS TimerLoop

TwoSleeps == <<1, 3>>
=============================================================================
