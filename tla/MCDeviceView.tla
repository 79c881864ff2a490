----------------------------- MODULE MCDeviceView -----------------------------
(* Purifiers found on in automatic mode or off in manual mode, at the flow    *)
(* whose percentage is a tie; someone may also leave them at a speed and a    *)
(* flow that no command gives, in an undocumented mode.                       *)
EXTENDS DeviceView

Purifier(mode, power) ==
  [mode |-> mode, profile |-> 1, speed |-> 6, timer |-> 0, lock |-> Zero, display |-> Zero,
   power |-> power, ptc |-> 0, flow |-> 170, pm25 |-> 1]

MCFound ==
  [m \in Selected |-> IF m = "M25" THEN [pm25 : {1}, backlight : {0, 1}]
                      ELSE {Purifier(1, Zero), Purifier(4, Eleven)}]

MCPressed ==
  [m \in Selected |->
     IF m = "M25" THEN [pm25 : {2}, backlight : {0, 1}]
     ELSE {Purifier(4, Eleven), [Purifier(7, Zero) EXCEPT !.speed = 0, !.flow = 41]}]
=============================================================================
