--------------------------- MODULE MCUdpEndpoint ---------------------------
(* Instance of UdpEndpoint: three consumers, so that a binder, a waiter and *)
(* a leaver meet; three endpoint objects, so that one can bind while two   *)
(* sockets are still closing.                                              *)
EXTENDS UdpEndpoint, TLC

Symmetry == Permutations(Consumers) \cup Permutations(Endpoints)
=============================================================================
