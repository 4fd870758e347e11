------------------------- MODULE MCDatagramTransport -------------------------
(* Two endpoints of one peer each, two connections and two messages, one of  *)
(* which may be too large; a queue of two events.                            *)
EXTENDS DatagramTransport, TLC

\* Endpoints and connections are told apart by nothing but their identity.
Symmetry == Permutations(Ids) \cup Permutations(Natives)
=============================================================================
