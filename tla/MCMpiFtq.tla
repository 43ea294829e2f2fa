------------------------------ MODULE MCMpiFtq ------------------------------
(***************************************************************************)
(* A small instance of MpiFtq.                                             *)
(***************************************************************************)
EXTENDS MpiFtq

\* The ranks' calibrations may differ; 0 is what -f above the clock rate
\* truncates to.
MCIntervals == {0, 2}

\* A negative count, which turns into MaxSamples, none, and one.
MCRequests == {-1, 0, 1}

=============================================================================
