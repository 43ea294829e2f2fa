----------------------------- MODULE MCFtqCore ------------------------------
(***************************************************************************)
(* A small instance of FtqCore.                                            *)
(***************************************************************************)
EXTENDS FtqCore

\* 0 is what interval * ticksperns truncates to when -f asks for more than
\* one sample per tick (ftq.c, ftq_thread).
MCIntervals == {0, 1, 2, 3}

=============================================================================
