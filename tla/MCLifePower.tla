--------------------------- MODULE MCLifePower ---------------------------
(* Instance of LifePower: two callers and the poller, so that a call waits   *)
(* behind a poll and another call; two addresses and one move.              *)
EXTENDS LifePower, TLC

CONSTANT Home  \* the address the device has first

\* Negating every power and desired value, or renaming the addresses, maps
\* behaviours to behaviours: one initial state stands for all.
MCInit == Init /\ ~power /\ addr = Home /\ host = Home

MCSpec == MCInit /\ [][Next]_vars /\ Fairness
=============================================================================
