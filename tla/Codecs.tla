-------------------------------- MODULE Codecs --------------------------------
(***************************************************************************)
(* What the legacy models' wire protocols say: protocols/f072.py, a5a0.py   *)
(* and m25.py, models.py, the table that turns logical values into bytes    *)
(* (runtime.py) and the one that recognises a confirmed command             *)
(* (transport.py).                                                          *)
(*                                                                         *)
(* A frame is its command code and value; a report is a record of the       *)
(* registers the packets of the device's family carry at fixed offsets.     *)
(* Framing, checksums and the counters nothing depends on are left out.     *)
(***************************************************************************)
EXTENDS Integers

CONSTANT None   \* Python's None

SixSpeed == {"X83", "X83C", "X83C_PLUS"}
FiveSpeed == {"X50", "X50S", "X60", "X70"}
Continuous == {"G30", "G45"}
Purifiers == SixSpeed \cup FiveSpeed \cup Continuous
Models == Purifiers \cup {"M25"}

Family ==
  [m \in Models |-> IF m \in SixSpeed THEN "A5A0"
                    ELSE IF m \in FiveSpeed THEN "F072_X50"
                    ELSE IF m \in Continuous THEN "F072_G30" ELSE "M25"]

\* The bytes of the settings with two values.
Zero == 0
Eleven == 17       \* 0x11
ThirtyFive == 53   \* 0x35

-----------------------------------------------------------------------------
(* Commands                                                                *)

\* The settings whose logical value a family's table turns into a byte.
Logical == {"power", "child_lock", "display"}

\* Truth is 1.
WireValue(m, op, v) ==
  CASE op = "child_lock" /\ m \in SixSpeed -> IF v = 1 THEN Eleven ELSE Zero
    [] op = "power" /\ m \in SixSpeed      -> IF v = 1 THEN ThirtyFive ELSE Eleven
    [] op \in Logical /\ (op = "display" \/ m \notin SixSpeed) ->
         IF v = 1 THEN Zero ELSE Eleven
    [] OTHER                               -> v

Code == [mode |-> 81, speed |-> 82, ptc |-> 83, timer |-> 84, child_lock |-> 85,
         display |-> 86, filter_operation |-> 87, power |-> 94]

\* The operations of a family that have a command with a single value, and
\* the values it may have.
F072Values(modes) ==
  [mode |-> modes, ptc |-> 0 .. 2, timer |-> {0, 1, 2, 3, 5, 8},
   child_lock |-> {Zero, Eleven}, display |-> {Zero, Eleven}, power |-> {Zero, Eleven}]

Values ==
  [F072_G30 |-> F072Values({1, 5}),
   F072_X50 |-> [op \in {"mode", "speed", "ptc", "timer", "child_lock", "display", "power"} |->
                   IF op = "speed" THEN 0 .. 5 ELSE F072Values({1, 2, 3, 5})[op]],
   A5A0 |-> [mode |-> {1, 2, 3, 5}, speed |-> 1 .. 6, ptc |-> 0 .. 2,
             timer |-> {0, 1, 2, 3, 5, 8}, child_lock |-> {Zero, Eleven},
             display |-> {Zero, Eleven}, filter_operation |-> 1 .. 3,
             power |-> {ThirtyFive, Eleven}]]

MinFlow == 40
MaxFlow(m) == IF m = "G45" THEN 450 ELSE 300

\* Mutant: a flow is cut, not rounded, to a multiple of five.
FlowCut(m, percentage) ==
  MinFlow + 5 * (((percentage - 1) * (MaxFlow(m) - MinFlow)) \div (99 * 5))

\* flow_for_percentage: to the nearest five, ties upward.
FlowFor(m, percentage) ==
  LET span == MaxFlow(m) - MinFlow
  IN MinFlow + 5 * ((2 * (percentage - 1) * span + 99 * 5) \div (2 * 99 * 5))

FlowFrame(flow) == [code |-> 88, value |-> flow]

\* A percentage of zero turns the device off.
EncodePercentage(m, p) ==
  IF Family[m] # "F072_G30" \/ p \notin 0 .. 100 THEN None
  ELSE IF p = 0 THEN [code |-> Code.power, value |-> Eleven]
  ELSE FlowFrame(FlowFor(m, p))

EncodeAirflow(m, flow) ==
  IF Family[m] = "F072_G30" /\ flow \in MinFlow .. MaxFlow(m) /\ flow % 5 = 0
  THEN FlowFrame(flow) ELSE None

EncodeValue(m, c) ==
  IF c.op \in DOMAIN Values[Family[m]] /\ c.value \in Values[Family[m]][c.op]
  THEN [code |-> Code[c.op], value |-> c.value] ELSE None

EncodeBacklight(c) ==
  IF c.op = "backlight" /\ c.value \in {0, 1} THEN [code |-> 163, value |-> c.value] ELSE None

\* encode_command: the frame of a command, or None for one that the family
\* does not document.
Encode(m, c) ==
  CASE Family[m] = "M25"                        -> EncodeBacklight(c)
    [] m \in Purifiers /\ c.op = "percentage"   -> EncodePercentage(m, c.value)
    [] m \in Purifiers /\ c.op = "airflow"      -> EncodeAirflow(m, c.value)
    [] OTHER                                    -> EncodeValue(m, c)

-----------------------------------------------------------------------------
(* Reports                                                                 *)

Fields == {"mode", "profile", "speed", "timer", "lock", "display", "power", "ptc", "flow",
           "pm25", "backlight"}

\* None is no value of a field, no frame and no state.
ASSUME NoneAssumption ==
  /\ None \notin Int /\ None \notin BOOLEAN
  /\ None \notin [code : Int, value : Int]
  /\ None \notin [Fields -> Int \cup BOOLEAN \cup {None}]

Nothing == [f \in Fields |-> None]

Known(v, values) == IF v \in values THEN v ELSE None

\* A byte that says yes, no, or nothing that is documented.
TrueIfZero(v) == IF v = Zero THEN TRUE ELSE IF v = Eleven THEN FALSE ELSE None
TrueIfEleven(v) == IF v = Eleven THEN TRUE ELSE IF v = Zero THEN FALSE ELSE None

DecodeCommon(r) ==
  [Nothing EXCEPT
     !.timer = Known(r.timer, {0, 1, 2, 3, 5, 8}),
     !.display = TrueIfZero(r.display),
     !.power = TrueIfZero(r.power),
     !.pm25 = r.pm25]

DecodeA5A0(r) ==
  [DecodeCommon(r) EXCEPT
     !.mode = r.mode, !.profile = r.profile, !.speed = Known(r.speed, 1 .. 6),
     !.lock = TrueIfEleven(r.lock)]

DecodeX50(r) ==
  [DecodeCommon(r) EXCEPT
     !.mode = r.mode, !.profile = r.profile, !.speed = Known(r.speed, 1 .. 6),
     !.lock = TrueIfZero(r.lock)]

DecodeG30(m, r) ==
  [DecodeCommon(r) EXCEPT
     !.mode = r.mode, !.profile = IF r.profile = 0 THEN 0 ELSE 1,
     !.lock = TrueIfZero(r.lock), !.ptc = Known(r.ptc, 0 .. 2),
     !.flow = IF r.flow \in MinFlow .. MaxFlow(m) /\ r.flow % 5 = 0 THEN r.flow ELSE None]

\* The detector reports its sensor and its backlight in packets of their own.
DecodeM25(r) == [f \in Fields |-> IF f \in DOMAIN r THEN r[f] ELSE None]

Decode(m, r) ==
  CASE Family[m] = "A5A0"     -> DecodeA5A0(r)
    [] Family[m] = "F072_X50" -> DecodeX50(r)
    [] Family[m] = "F072_G30" -> DecodeG30(m, r)
    [] OTHER                  -> DecodeM25(r)

\* Mutant: one polarity of the child lock for every family.
ConfirmsOnePolarity(m, s, c) ==
  CASE c.op = "mode"       -> s.mode = c.value
    [] c.op = "speed"      -> s.speed = c.value
    [] c.op = "ptc"        -> s.ptc = c.value
    [] c.op = "timer"      -> s.timer = c.value
    [] c.op = "child_lock" -> s.lock = (c.value = Zero)
    [] c.op = "display"    -> s.display = (c.value = Zero)
    [] c.op = "power"      -> s.power = (c.value # Eleven)
    [] c.op = "percentage" -> IF c.value = 0 THEN s.power = FALSE ELSE s.flow = FlowFor(m, c.value)
    [] OTHER               -> s.backlight = c.value

\* _state_confirms_command: where no report has the field, any report will do.
Confirms(m, s, c) ==
  CASE c.op = "mode"       -> s.mode = c.value
    [] c.op = "speed"      -> s.speed = c.value
    [] c.op = "ptc"        -> s.ptc \in {None, c.value}
    [] c.op = "timer"      -> s.timer = c.value
    [] c.op = "child_lock" -> s.lock = (c.value = IF Family[m] = "A5A0" THEN Eleven ELSE Zero)
    [] c.op = "display"    -> s.display = (c.value = Zero)
    [] c.op = "power"      -> s.power = (c.value = IF Family[m] = "A5A0" THEN ThirtyFive ELSE Zero)
    [] c.op = "airflow"    -> s.flow = c.value
    [] c.op = "percentage" -> IF c.value = 0 THEN s.power = FALSE
                              ELSE Family[m] = "F072_G30" /\ s.flow = FlowFor(m, c.value)
    [] c.op = "backlight"  -> s.backlight = c.value
    [] OTHER               -> TRUE

\* A detector's partial report leaves the other fields as they are known; a
\* purifier's report replaces the state.
Merge(m, previous, incoming) ==
  IF previous = None \/ Family[m] # "M25" THEN incoming
  ELSE [f \in Fields |-> IF incoming[f] = None THEN previous[f] ELSE incoming[f]]
=============================================================================
