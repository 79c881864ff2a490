--------------------------- MODULE MCDeviceClient ---------------------------
(* Instances of DeviceClient.  half and full are percentage writes, swing an *)
(* ordinary command confirmed by any state, bad one the codec refuses.      *)
EXTENDS ClientRefinement, TLC

CONSTANTS half, full, swing, bad, light, s1, s2

ConfirmingStates ==
    [c \in Commands |->
        CASE c = half -> {s1}
          [] c = full -> {s2}
          [] OTHER -> States]

CallerSymmetry == Permutations(Callers) \cup Permutations(Closers)
=============================================================================
