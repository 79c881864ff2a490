------------------------------- MODULE Entities -------------------------------
(***************************************************************************)
(* The entities of a legacy device: fan.py, select.py, switch.py, light.py  *)
(* and the airflow curves.  A call of a service becomes one command of the  *)
(* client or two; a property shows what the client's state says.            *)
(***************************************************************************)
EXTENDS Codecs, Sequences

Round(num, den) ==   \* Python's round(num / den): to nearest, ties to even
  LET q == num \div den
      r == num % den
  IN IF 2 * r < den \/ (2 * r = den /\ q % 2 = 0) THEN q ELSE q + 1

-----------------------------------------------------------------------------
(* Speeds and percentages                                                  *)

Speeds(m) == IF m \in SixSpeed THEN 6 ELSE 5

SpeedCount(m) == IF m \in Continuous THEN 100 ELSE Speeds(m)

\* Home Assistant's helpers for an ordered list of n items.
ItemPercentage(i, n) == (i * 100) \div n

PercentageItem(p, n) ==
  CHOOSE i \in 1 .. n : /\ p <= ItemPercentage(i, n)
                        /\ \A j \in 1 .. i - 1 : ItemPercentage(j, n) < p

IsOn(s) == s.power

\* The fan's percentage, None if it is not known.
Percentage(m, s) ==
  CASE IsOn(s) = FALSE -> 0
    [] IsOn(s) # FALSE /\ m \in Continuous ->
         IF s.flow = None THEN None
         ELSE LET span == MaxFlow(m) - MinFlow
              IN Round(span + 99 * (s.flow - MinFlow), span)
    [] OTHER ->
         IF s.speed = None THEN None
         ELSE IF s.speed > Speeds(m) THEN 100
         ELSE ItemPercentage(s.speed, Speeds(m))

-----------------------------------------------------------------------------
(* Presets                                                                 *)

Presets(m) ==
  CASE m \in Continuous -> [auto |-> 1, manual |-> 4, deep_clean |-> 5]
    [] m \in {"X83C", "X50S"} -> [auto |-> 1, manual |-> 4, sleep |-> 2, turbo |-> 3]
    [] OTHER -> [auto |-> 1, manual |-> 4, sleep |-> 2, turbo |-> 3, deep_clean |-> 5]

PresetMode(m, s) ==
  IF IsOn(s) = FALSE \/ \A p \in DOMAIN Presets(m) : Presets(m)[p] # s.mode THEN None
  ELSE CHOOSE p \in DOMAIN Presets(m) : Presets(m)[p] = s.mode

\* Manual mode keeps the percentage, or begins with one speed's share.
ManualPercentage(m, s) ==
  IF Percentage(m, s) \in {None, 0} THEN Round(100, SpeedCount(m)) ELSE Percentage(m, s)

-----------------------------------------------------------------------------
(* Nominal airflow                                                         *)

Curve(m, profile) ==
  CASE m \in SixSpeed /\ profile = 0 -> <<140, 240, 360, 500, 610, 760>>
    [] m \in SixSpeed /\ profile = 1 -> <<60, 140, 220, 330, 390, 500>>
    [] m \in SixSpeed /\ profile = 2 -> <<130, 220, 330, 430, 500, 640>>
    [] m \in FiveSpeed /\ profile = 0 -> <<150, 220, 300, 400, 510, 600>>
    [] m \in FiveSpeed /\ profile = 1 -> <<120, 170, 240, 330, 430, 540>>
    [] OTHER -> <<>>

Airflow(m, s) ==
  IF m \in Continuous THEN s.flow
  ELSE IF s.speed \in DOMAIN Curve(m, s.profile) THEN Curve(m, s.profile)[s.speed] ELSE None

-----------------------------------------------------------------------------
(* Services                                                                *)

\* The entities a model has, and what can be chosen with each.
Timers == {0, 1, 2, 3, 5, 8}

Services(m, percentages) ==
  LET chosen(service, values) == {[service |-> service, value |-> v] : v \in values}
      preset(service) == {[service |-> service, preset |-> p] : p \in DOMAIN Presets(m)}
  IN IF m = "M25" THEN chosen("backlight", {0, 1})
     ELSE {[service |-> "turn_off"], [service |-> "turn_on"]}
          \cup chosen("turn_on_at", percentages) \cup chosen("set_percentage", percentages)
          \cup preset("turn_on_in") \cup preset("set_preset_mode")
          \cup chosen("child_lock", {0, 1}) \cup chosen("display", {0, 1})
          \cup chosen("timer", Timers)
          \cup (IF m \in Continuous THEN chosen("ptc", 0 .. 2) ELSE {})

Command(m, op, v) == [op |-> op, value |-> WireValue(m, op, v)]

SetPercentage(m, p) ==
  IF p <= 0 THEN Command(m, "power", 0)
  ELSE IF m \in Continuous THEN Command(m, "percentage", p)
  ELSE Command(m, "speed", PercentageItem(p, Speeds(m)))

SetPreset(m, s, preset) ==
  IF preset = "manual" THEN SetPercentage(m, ManualPercentage(m, s))
  ELSE Command(m, "mode", Presets(m)[preset])

\* The next command of a call, given the state when it is made.
CommandOf(m, s, call) ==
  CASE call.service \in {"turn_on", "turn_on_at", "turn_on_in"} -> Command(m, "power", 1)
    [] call.service = "turn_off" -> Command(m, "power", 0)
    [] call.service = "set_percentage" -> SetPercentage(m, call.value)
    [] call.service = "set_preset_mode" -> SetPreset(m, s, call.preset)
    [] OTHER -> Command(m, call.service, call.value)

\* What is left of a call after its first command, or None.
Rest(call) ==
  CASE call.service = "turn_on_at" /\ call.value > 0 ->
         [service |-> "set_percentage", value |-> call.value]
    [] call.service = "turn_on_in" -> [service |-> "set_preset_mode", preset |-> call.preset]
    [] OTHER -> None
=============================================================================
