---------------------------- MODULE MCServerHost ----------------------------
(* A handle with one or two application threads, a stream and a UDP          *)
(* listener, and few session ids, so that they run out.                      *)
EXTENDS ServerHost, TLC
CONSTANTS t1, t2

MCUdp == {2}

\* Threads are interchangeable: nothing refers to one by name.
ThreadSymmetry == Permutations(Threads)
=============================================================================
