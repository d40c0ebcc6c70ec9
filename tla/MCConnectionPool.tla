--------------------------- MODULE MCConnectionPool ---------------------------
(* Instances of ConnectionPool for TLC.                                    *)
EXTENDS ConnectionPool, TLC

CONSTANTS t1, t2, t3, c1, c2, c3, c4

MCThread == {t1, t2, t3}
MCClient == {c1, c2, c3, c4}

\* Threads and clients are interchangeable while every thread may do the same.
Symmetry == Permutations(MCThread) \cup Permutations(MCClient)
=============================================================================
