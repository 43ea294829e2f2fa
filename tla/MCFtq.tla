------------------------------- MODULE MCFtq --------------------------------
(***************************************************************************)
(* Small instances of Ftq.                                                 *)
(***************************************************************************)
EXTENDS Ftq

\* 0 is legal, 3 is above the MaxSamples of the configuration.
MCSampleRequests == {0, 1, 3}

\* One core (no real-time thread, and -t 2 cannot bind both), three cores
\* (one real-time thread) and four (two).
MCCoreCounts == {1, 3, 4}

\* For scheduling, one sample is enough.
MCOneSample == {1}
MCManyCores == 1 .. 5

=============================================================================
