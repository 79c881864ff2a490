---------------------------- MODULE MCDiscovery ----------------------------
EXTENDS Discovery, TLC

CONSTANTS m1, m2, m3, l1, l2, l3

\* Three devices that speak both protocols.
MCMacOf == (l1 :> m1) @@ (l2 :> m2) @@ (l3 :> m3)
=============================================================================
