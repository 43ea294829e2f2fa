---------------------------- MODULE MCMpiBarrier ----------------------------
(***************************************************************************)
(* A small instance of MpiBarrier.                                         *)
(***************************************************************************)
EXTENDS MpiBarrier

MCIntervals == {0, 2}

\* A negative count, which turns into MaxSamples, none, and one.
MCRequests == {-1, 0, 1}

=============================================================================
