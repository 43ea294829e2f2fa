------------------------------ MODULE MCTiming ------------------------------
(***************************************************************************)
(* A small instance of Timing.                                             *)
(***************************************************************************)
EXTENDS Timing

\* nspertick sleeps longer than the counter takes to come round.
MCNaps == [ftq |-> 2, nspertick |-> 5]

MCTickOrigins == 0 .. 7

\* Far from a wrap, and shortly before one.
MCTimeOrigins == {0, 13}

MCDelays == {0, 2}

ASSUME CalibrationIsShort

=============================================================================
