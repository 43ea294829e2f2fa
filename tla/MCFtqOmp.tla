------------------------------ MODULE MCFtqOmp ------------------------------
(***************************************************************************)
(* A small instance of FtqOmp.                                             *)
(***************************************************************************)
EXTENDS FtqOmp

\* A negative count, which turns into MaxSamples, none, and one.
MCRequests == {-1, 0, 1}

\* The shortest interval, and one that is refused and turned into the longest.
MCRequestBits == {0, 1}

=============================================================================
