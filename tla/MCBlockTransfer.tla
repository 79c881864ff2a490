--------------------------- MODULE MCBlockTransfer ---------------------------
(* Two representations of three blocks each, in blocks of one unit or two:   *)
(* one of them within the limits, the other one unit beyond.                 *)
EXTENDS BlockTransfer

CONSTANTS v1, v2

MCLength == [v \in Versions |-> IF v = v1 THEN 5 ELSE 3]
=============================================================================
