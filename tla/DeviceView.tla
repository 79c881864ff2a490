------------------------------ MODULE DeviceView ------------------------------
(***************************************************************************)
(* A call of an entity's service on its way: the command it becomes, the    *)
(* frame the codec makes of it, the device that obeys, the reports that     *)
(* come back through the duplicate filter (transport.py                    *)
(* _datagram_received), and the values the entities show then.              *)
(*                                                                         *)
(* Time is counted in ticks of 0.9 seconds.  A datagram arrives in the tick *)
(* it was sent in, or is lost.  The client runs one command at a time, as   *)
(* its worker does.                                                        *)
(***************************************************************************)
EXTENDS Entities

CONSTANTS
  Selected,        \* the models a run looks at
  Percentages,     \* the percentages it asks for
  Window,          \* _DUPLICATE_WINDOW
  MaxRecent,       \* _MAX_RECENT_DATAGRAMS
  CommandTimeout,  \* the timeout of a command, its delays included
  Found,           \* the settings a device of each model may be found with
  Pressed,         \* the settings someone may make at it
  Presses,         \* changes made at the device: a bound
  Calls            \* calls begun: a bound

\* The registers of a device; a purifier's hold what they hold.
Registers(m) ==
  IF m = "M25" THEN [pm25 : Nat, backlight : {0, 1}]
  ELSE [mode : Nat, profile : Nat, speed : Nat, timer : Nat, lock : Nat, display : Nat,
        power : Nat, ptc : Nat, flow : Nat, pm25 : Nat]

ASSUME SelectedAssumption ==
  /\ Selected \subseteq Models
  /\ \A m \in Selected : Found[m] \subseteq Registers(m) /\ Pressed[m] \subseteq Registers(m)
ASSUME PercentagesAssumption == Percentages \subseteq 0 .. 100
ASSUME TimesAssumption == {Window, MaxRecent, CommandTimeout, Presses, Calls} \subseteq Nat

Attempts == 3

Interval == CommandTimeout \div Attempts

\* 3.0 seconds are less than two attempts of 1.8 seconds.
ASSUME WindowAssumption == Window < 2 * Interval

VARIABLES
  model,
  registers,  \* the device's settings
  echoes,     \* its answers carry the request's sequence number
  air,        \* reports on their way, oldest first
  recent,     \* _recent_datagrams: each with its age, oldest first
  state,      \* what the client knows
  call,       \* the last step of a call, how far it is and how it ended; or None
  steps,      \* steps begun: their sequence number
  disturbed,  \* a datagram of the current step was lost, or someone touched the device
  touched,    \* changes made at the device
  taken       \* reports that became the state within the window, with their age

device == <<model, registers, echoes>>
clientVars == <<recent, state, call, steps>>
viewVars == <<device, air, clientVars, disturbed, touched, taken>>

-----------------------------------------------------------------------------
(* The device                                                              *)

Obey(r, frame) ==
  CASE frame.code = Code.power      ->
         [r EXCEPT !.power = IF frame.value = Eleven THEN Eleven ELSE Zero]
    [] frame.code = Code.mode       -> [r EXCEPT !.mode = frame.value]
    [] frame.code = Code.speed      -> [r EXCEPT !.speed = frame.value, !.mode = 4]
    [] frame.code = 88              -> [r EXCEPT !.flow = frame.value, !.mode = 4]
    [] frame.code = Code.child_lock -> [r EXCEPT !.lock = frame.value]
    [] frame.code = Code.display    -> [r EXCEPT !.display = frame.value]
    [] frame.code = Code.timer      -> [r EXCEPT !.timer = frame.value]
    [] frame.code = Code.ptc        -> [r EXCEPT !.ptc = frame.value]
    [] OTHER                        -> [r EXCEPT !.backlight = frame.value]

\* A purifier reports all it has, a detector its sensor or its backlight.
Kinds(m) == IF m = "M25" THEN {"state", "backlight"} ELSE {"state"}

Report(m, r, kind, sequence) ==
  [kind |-> kind, sequence |-> sequence,
   regs |-> IF m # "M25" THEN r
            ELSE IF kind = "state" THEN [pm25 |-> r.pm25] ELSE [backlight |-> r.backlight]]

ViewInit ==
  /\ model \in Selected
  /\ registers \in Found[model]
  /\ echoes \in BOOLEAN
  /\ air = <<>>
  \* A runtime exists once its refresh has been answered.
  /\ LET answer == Report(model, registers, "state", 0)
     IN /\ recent = <<[data |-> answer, age |-> 0]>>
        /\ state = Decode(model, answer.regs)
        /\ taken = {[data |-> answer, age |-> 0]}
  /\ call = None /\ steps = 0
  /\ disturbed = FALSE /\ touched = 0

Press ==
  /\ touched < Presses
  /\ registers' \in Pressed[model] \ {registers}
  /\ touched' = touched + 1
  /\ disturbed' = TRUE
  /\ UNCHANGED <<model, echoes, air, clientVars, taken>>

Broadcast ==
  /\ air = <<>>
  /\ \E kind \in Kinds(model) : air' = <<Report(model, registers, kind, 0)>>
  /\ UNCHANGED <<device, clientVars, disturbed, touched, taken>>

-----------------------------------------------------------------------------
(* Calls                                                                   *)

CallRunning == call # None /\ call.result = "running"

\* The step's command is encoded and queued, or refused before it is sent.
Begin(step, known) ==
  LET command == CommandOf(model, known, step)
      frame == Encode(model, command)
  IN /\ call' = [step |-> step, before |-> known, after |-> known, command |-> command,
                 frame |-> frame, attempts |-> 0, due |-> 0,
                 result |-> IF frame = None THEN "refused" ELSE "running"]
     /\ steps' = steps + 1

CallService ==
  /\ ~CallRunning /\ steps < Calls
  /\ \E step \in Services(model, Percentages) : Begin(step, state)
  /\ disturbed' = FALSE
  /\ UNCHANGED <<device, air, recent, state, touched, taken>>

ExpectedKind == IF call.command.op = "backlight" THEN "backlight" ELSE "state"

Answer(r) == Append(air, Report(model, r, ExpectedKind, IF echoes THEN steps ELSE 0))

\* The command and the query after it are sent.  The device obeys and answers;
\* or answers first and obeys late; or the command or the answer is lost.
Attempt ==
  /\ CallRunning /\ call.due = 0 /\ call.attempts < Attempts
  /\ call' = [call EXCEPT !.attempts = @ + 1, !.due = Interval]
  /\ LET obeyed == Obey(registers, call.frame)
     IN \/ /\ registers' = obeyed /\ air' = Answer(obeyed)
           /\ UNCHANGED disturbed
        \/ /\ call'.attempts < Attempts
           /\ registers' = obeyed /\ air' = Answer(registers)
           /\ UNCHANGED disturbed
        \/ /\ air' = Answer(registers) /\ disturbed' = TRUE
           /\ UNCHANGED registers
        \/ /\ registers' = obeyed /\ disturbed' = TRUE
           /\ UNCHANGED air
  /\ UNCHANGED <<model, echoes, recent, state, steps, touched, taken>>

GiveUp ==
  /\ CallRunning /\ call.due = 0 /\ call.attempts = Attempts
  /\ call' = [call EXCEPT !.result = "failed", !.after = state]
  /\ UNCHANGED <<device, air, recent, state, steps, disturbed, touched, taken>>

\* The ages of the datagrams that still count, and the time to the next attempt.
TimePasses ==
  /\ air = <<>>
  /\ CallRunning => call.due > 0
  /\ recent' = [i \in DOMAIN recent |->
                  [recent[i] EXCEPT !.age = IF @ > Window THEN @ ELSE @ + 1]]
  /\ taken' = {[t EXCEPT !.age = @ + 1] : t \in {t \in taken : t.age < Window}}
  /\ call' = IF CallRunning THEN [call EXCEPT !.due = @ - 1] ELSE call
  /\ UNCHANGED <<device, air, state, steps, disturbed, touched>>

-----------------------------------------------------------------------------
(* The client's intake                                                     *)

\* _prune_duplicates: what the table still has of the window before.
Unexpired ==
  LET upTo[n \in 0 .. Len(recent)] ==
        IF n = 0 THEN <<>>
        ELSE IF recent[n].age <= Window THEN Append(upTo[n - 1], recent[n]) ELSE upTo[n - 1]
  IN upTo[Len(recent)]

\* Mutant: a repeated datagram counts as received anew.
PrunedRefreshing(d) ==
  [i \in DOMAIN Unexpired |->
     IF Unexpired[i].data = d THEN [Unexpired[i] EXCEPT !.age = 0] ELSE Unexpired[i]]

\* The datagrams received within the window, when d arrives.
Pruned(d) == Unexpired

Seen(d) == \E i \in DOMAIN Pruned(d) : Pruned(d)[i].data = d

\* A new datagram is remembered, and the oldest forgotten.
Remember(d) ==
  LET entries == Append(Pruned(d), [data |-> d, age |-> 0])
  IN recent' = IF Len(entries) > MaxRecent THEN Tail(entries) ELSE entries

\* A step waits for a report from its first transmission on, and ends when one of
\* the kind it waits for confirms it; the call goes on with what is left of it.
Confirm(d, known) ==
  IF CallRunning /\ call.attempts > 0 /\ d.kind = ExpectedKind /\ Confirms(model, known, call.command)
  THEN IF Rest(call.step) = None
       THEN call' = [call EXCEPT !.result = "confirmed", !.after = known] /\ UNCHANGED steps
       ELSE Begin(Rest(call.step), known)
  ELSE UNCHANGED <<call, steps>>

Intake ==
  /\ air # <<>>
  /\ air' = Tail(air)
  /\ LET d == Head(air)
     IN IF Seen(d)
        THEN recent' = Pruned(d) /\ UNCHANGED <<state, call, steps, taken>>
        ELSE /\ Remember(d)
             /\ state' = Merge(model, state, Decode(model, d.regs))
             /\ Confirm(d, state')
             /\ taken' = {t \in taken : t.data # d} \cup {[data |-> d, age |-> 0]}
  /\ UNCHANGED <<device, disturbed, touched>>

ViewNext ==
  \/ Press \/ Broadcast \/ CallService \/ Attempt \/ GiveUp \/ TimePasses \/ Intake

ViewSpec == ViewInit /\ [][ViewNext]_viewVars

-----------------------------------------------------------------------------
(* Properties                                                              *)

Near(p, q, d) == p - q <= d /\ q - p <= d

\* What the entities show once a step is done.
Shows(m, s, before, step) ==
  LET off == IsOn(s) = FALSE
      p == Percentage(m, s)
  IN CASE step.service \in {"turn_on", "turn_on_at", "turn_on_in"} -> IsOn(s) = TRUE
       [] step.service = "turn_off"       -> off
       [] step.service = "set_percentage" ->
            IF step.value = 0 \/ off THEN off
            ELSE Near(p, step.value, IF m \in Continuous THEN 1 ELSE 100 \div Speeds(m))
       [] step.service = "set_preset_mode" ->
            \/ off
            \/ IF step.preset = "manual"
               THEN Percentage(m, before) \notin {None, 0} => p = Percentage(m, before)
               ELSE PresetMode(m, s) = step.preset
       [] step.service = "child_lock"     -> s.lock = (step.value = 1)
       [] step.service = "display"        -> s.display = (step.value = 1)
       [] step.service = "ptc"            -> s.ptc \in {None, step.value}
       [] OTHER                           -> s[step.service] = step.value

\* What a confirmation does not look at: the manual mode of a percentage or of
\* the manual preset, and a heater whose setting no report has.
ShowsAll(m, s, before, step) ==
  /\ Shows(m, s, before, step)
  /\ \/ step.service = "set_percentage" /\ step.value > 0
     \/ step.service = "set_preset_mode" /\ step.preset = "manual"
     => IsOn(s) = FALSE \/ PresetMode(m, s) = "manual"
  /\ step.service = "ptc" => s.ptc = step.value

\* A step that is confirmed shows what was asked for, even if its command was
\* lost.  One of a service that the device obeys, with nothing lost and nobody
\* else touching the device, is confirmed in time, and the device then does all
\* that was asked for: whatever bytes the family uses for it, and even if the
\* device reported the same bytes just before, so that its first answers are
\* dropped as duplicates.  (What confirms a change to manual mode may be a report
\* from before it, if the speed or flow stays: the entities show the mode later.)
ObeyedIsShown ==
  call # None /\ ~CallRunning =>
    /\ call.result = "confirmed" => Shows(model, call.after, call.before, call.step)
    /\ ~disturbed =>
         /\ call.result = "confirmed"
         /\ ShowsAll(model, Decode(model, registers), call.before, call.step)

\* A report that is delivered is shown, unless the same bytes were shown within
\* the window before; a detector's report changes nothing else, and a
\* purifier's leaves nothing behind of the state before.
TakesAllButRepeats ==
  [][air # <<>> /\ air' = Tail(air) =>
       LET d == Head(air)
           seen == Decode(model, d.regs)
       IN \/ \E t \in taken : t.data = d
          \/ state' = [f \in Fields |-> IF model = "M25" /\ f \notin DOMAIN d.regs
                                        THEN state[f] ELSE seen[f]]]_viewVars

\* Percentages and the model's speeds or flows agree, though three modules
\* convert them: every percentage asks for a documented setting that shows
\* within a percent of it (within a speed, for discrete speeds), more percent
\* never ask for less air, and setting the shown percentage again changes nothing.
PercentagesAgree ==
  steps = 0 /\ touched = 0 /\ model # "M25" =>
    \A m \in Purifiers, profile \in {0, 1} :
      LET setting(p) == Encode(m, SetPercentage(m, p))
          found == [registers EXCEPT !.power = Zero, !.profile = profile]
          shown(p) == Decode(m, Obey(found, setting(p)))
      IN /\ \A p \in 1 .. 100 :
              /\ setting(p) # None
              /\ ShowsAll(m, shown(p), state, [service |-> "set_percentage", value |-> p])
              /\ setting(Percentage(m, shown(p))) = setting(p)
         /\ \A p \in 1 .. 99 : Airflow(m, shown(p)) <= Airflow(m, shown(p + 1))
         /\ Percentage(m, shown(1)) <= 100 \div SpeedCount(m)
         /\ Percentage(m, shown(100)) = 100
-----------------------------------------------------------------------------
(* Inductive invariant, in parts                                           *)

\* What a report can say, and what the client can know.
Reports(m) ==
  IF m = "M25" THEN [kind : {"state"}, sequence : Nat, regs : [pm25 : Nat]]
                    \cup [kind : {"backlight"}, sequence : Nat, regs : [backlight : {0, 1}]]
  ELSE [kind : {"state"}, sequence : Nat, regs : Registers(m)]

Switched == {"power", "lock", "display"}

IsState(m, s) ==
  /\ s = [f \in Fields |-> s[f]]
  /\ \A f \in Switched : s[f] \in BOOLEAN \cup {None}
  /\ \A f \in Fields \ Switched : s[f] \in Int \cup {None}
  /\ m \in Continuous =>
       s.flow = None \/ (s.flow \in MinFlow .. MaxFlow(m) /\ s.flow % 5 = 0)
  /\ m \in SixSpeed \cup FiveSpeed => s.speed \in 1 .. 6 \cup {None}

IsCall(c) ==
  /\ c = [step |-> c.step, before |-> c.before, after |-> c.after, command |-> c.command,
          frame |-> c.frame, attempts |-> c.attempts, due |-> c.due, result |-> c.result]
  /\ c.step \in Services(model, 0 .. 100)
  /\ IsState(model, c.before) /\ IsState(model, c.after)
  /\ c.attempts \in 0 .. Attempts /\ c.due \in 0 .. Interval
  /\ c.result \in {"running", "confirmed", "failed"}

ViewTypeOK ==
  /\ model \in Selected /\ registers \in Registers(model) /\ echoes \in BOOLEAN
  /\ air \in Seq(Reports(model))
  /\ recent \in Seq([data : Reports(model), age : Nat])
  /\ IsState(model, state)
  /\ call # None => IsCall(call)
  /\ steps \in Nat /\ disturbed \in BOOLEAN

\* The duplicates that count are reports that became the state.
RecentTaken ==
  \A i \in 1 .. Len(recent) : recent[i].age <= Window => recent[i] \in taken

\* A step is encoded as its command, and confirmed by a report since its first
\* transmission.
StepEncoded ==
  call # None =>
    /\ call.command = CommandOf(model, call.before, call.step)
    /\ call.frame = Encode(model, call.command)
    /\ call.result = "confirmed" =>
         call.attempts > 0 /\ Confirms(model, call.after, call.command)
    /\ call.result = "failed" => disturbed

\* If nothing was lost and nobody touched the device, it has done what the
\* transmitted step says.
DeviceObeyed ==
  call # None /\ call.attempts > 0 /\ ~disturbed => Obey(registers, call.frame) = registers

\* d would confirm the step, if it were not a duplicate.
Confirming(d) ==
  d.kind = ExpectedKind /\ Confirms(model, Decode(model, d.regs), call.command)

\* Nothing taken since the first transmission confirms a step that still runs.
NoneMissed ==
  CallRunning /\ call.attempts > 0 =>
    \A i \in 1 .. Len(recent) :
      recent[i].age <= Window /\ recent[i].age < call.attempts * Interval - call.due
        => ~Confirming(recent[i].data)

\* The answer to the last transmission comes in its tick.
LastAnswer ==
  CallRunning /\ call.attempts = Attempts /\ ~disturbed =>
    call.due = Interval /\ \E i \in 1 .. Len(air) : Confirming(air[i])

ViewInv ==
  ViewTypeOK /\ RecentTaken /\ StepEncoded /\ DeviceObeyed /\ NoneMissed /\ LastAnswer
=============================================================================
