---------------------------- MODULE ManagerSession ----------------------------
(***************************************************************************)
(* A session of the schedule manager (tools/352air_schedule_manager.py):    *)
(* its menus, or one command of the command line; one change after another, *)
(* through one UDP port, of one purifier that nobody else writes to.        *)
(*                                                                         *)
(* A reply is not matched with its query, so one that is late answers a     *)
(* later query.  Replies that come late within one series of queries are    *)
(* free; one that outlives the user's next input or the pause after a write *)
(* is delayed, and there are at most MaxDelayed of these.  A write may be   *)
(* lost, or be executed at any later time.                                  *)
(***************************************************************************)
EXTENDS Naturals, FiniteSets

CONSTANTS Slots,       \* four in the device
          Timers,      \* what a slot may be set to: times and days
          Unset,       \* an empty slot, all zero
          Blank,       \* an empty slot as the program writes it
          Attempts,    \* queries of one read, three in the code
          MaxDelayed,  \* replies delayed beyond a pause: a bound
          MaxChanges   \* operations begun: a bound

Empties == {Unset, Blank}
Setting == [timer : Timers, enabled : BOOLEAN]
Schedule == [Slots -> Empties \cup Setting]

ASSUME EmptiesAssumption == Unset # Blank /\ Empties \cap Setting = {}
ASSUME BoundsAssumption == Attempts \in Nat \ {0} /\ MaxDelayed \in Nat /\ MaxChanges \in Nat

VARIABLES
  content,   \* the device's schedule
  writes,    \* writes on their way to it
  recent,    \* replies of the present series of queries on their way back
  old,       \* delayed replies, still on their way
  delayed,   \* how many there have been
  mode,      \* menus or a command
  device,    \* what the program knows of the device: its credentials, wrong ones, ...
  stage,     \* the prompt, the read or the pause where the program stands
  attempt,   \* queries sent for the present read
  op,        \* the operation and its slot
  current,   \* the schedule the user has seen
  desired,   \* the schedule to be written
  outcome,   \* of the last operation
  changes,   \* operations begun
  clean      \* no write was on its way when the last operation began

wire == <<writes, recent, old, delayed>>
user == <<op, current, desired, changes, clean>>
vars == <<content, wire, mode, device, stage, attempt, user, outcome>>

Reads == {"first", "current", "fresh", "verify1", "verify2"}
Verifying == {"verify1", "verify2"}
Prompts == {"pick", "menu", "input", "pick_error", "error"}

NoOp == [kind |-> "none"]
Slotted(kind) == [kind : {kind}, slot : Slots]
Operations ==
  {[kind |-> "query"], [kind |-> "clear"]}
  \cup Slotted("enable") \cup Slotted("disable")
  \cup [kind : {"set"}, slot : Slots, value : Setting]

Empty(v) == v \in Empties

TypeOK ==
  /\ content \in Schedule /\ writes \subseteq Schedule
  /\ recent \subseteq Schedule
  /\ old \subseteq [nr : 1 .. MaxDelayed, schedule : Schedule] /\ delayed \in 0 .. MaxDelayed
  /\ mode \in {"menu", "command"}
  /\ device \in {"none", "known", "wrong", "unscheduled"}
  /\ stage \in Reads \cup Prompts \cup {"settle", "ended"}
  /\ attempt \in 0 .. Attempts
  /\ op \in Operations \cup {NoOp}
  /\ current \in Schedule /\ desired \in Schedule
  /\ outcome \in {"none", "ok", "silent", "illegal", "refused", "mismatch"}
  /\ changes \in 0 .. MaxChanges /\ clean \in BOOLEAN

Init ==
  /\ content \in Schedule
  /\ writes = {} /\ recent = {} /\ old = {} /\ delayed = 0
  /\ mode \in {"menu", "command"} /\ device = "none"
  /\ stage = "pick" /\ attempt = 0
  /\ op = NoOp /\ current = content /\ desired = content
  /\ outcome = "none" /\ changes = 0 /\ clean = TRUE

-----------------------------------------------------------------------------
(* The device and the network                                              *)

\* A reply needs the right identity and authentication code.
Answer ==
  /\ stage \in Reads /\ device = "known"
  /\ recent' = recent \cup {content}
  /\ UNCHANGED <<content, writes, old, delayed, mode, device, stage, attempt, user, outcome>>

WriteArrives ==
  \E w \in writes :
    /\ writes' = writes \ {w}
    /\ content' \in {w, content}   \* executed, or lost
    /\ UNCHANGED <<recent, old, delayed, mode, device, stage, attempt, user, outcome>>

\* Time for what is in flight to come, and drain() before the next query; but
\* one reply may be delayed.
Pause ==
  /\ recent' = {}
  /\ \/ UNCHANGED <<old, delayed>>
     \/ /\ delayed < MaxDelayed
        /\ delayed' = delayed + 1
        /\ \E v \in recent : old' = old \cup {[nr |-> delayed', schedule |-> v]}

-----------------------------------------------------------------------------
(* Choosing a device                                                       *)

Query(read) ==
  /\ stage' = read /\ attempt' = 1

Ends(prompt) == stage' = prompt /\ attempt' = 0

\* An error goes to the prompt that offers to go on, or ends a command.
Fails(reason) ==
  /\ outcome' = reason
  /\ Ends(IF mode = "command" THEN "ended" ELSE "error")

\* The result of a scan, of a discovery, or a broadcast that was heard; or
\* what the user says of a device that is silent, which may be wrong.  Every
\* query of a device without schedules is refused before anything is sent.
Pick ==
  /\ stage = "pick"
  /\ device' \in {"known", "wrong", "unscheduled"}
  /\ Pause
  /\ IF mode = "menu"
     THEN /\ IF device' = "unscheduled" THEN Ends("menu") ELSE Query("first")
          /\ UNCHANGED op
     ELSE /\ IF device' = "unscheduled" THEN Ends("ended") ELSE Query("current")
          /\ op' \in Operations
  /\ UNCHANGED <<content, writes, mode, current, desired, outcome, changes, clean>>

\* Nothing usable was entered, or the device stays unknown.
PickFails ==
  /\ stage = "pick"
  /\ Ends(IF mode = "command" THEN "ended" ELSE "pick_error")
  /\ UNCHANGED <<content, wire, mode, device, user, outcome>>

-----------------------------------------------------------------------------
(* The menu                                                                *)

Choose ==
  /\ stage = "menu" /\ changes < MaxChanges
  /\ op' \in Operations
  /\ outcome' = "none"
  /\ changes' = changes + 1
  /\ clean' = (writes = {})
  /\ IF device = "unscheduled" THEN Ends("error") ELSE Query("current")
  /\ Pause
  /\ UNCHANGED <<content, writes, mode, device, current, desired>>

\* Another device, with a socket of its own on the same port; or the end.
Leave ==
  /\ stage = "menu"
  /\ \E next \in {"pick", "ended"} : Ends(next)
  /\ outcome' = "none"
  /\ UNCHANGED <<content, wire, mode, device, user>>

Retry ==
  /\ stage \in {"error", "pick_error"}
  /\ Ends(IF stage = "error" THEN "menu" ELSE "pick")
  /\ UNCHANGED <<content, wire, mode, device, user, outcome>>

Quit ==
  /\ stage \in {"error", "pick_error"}
  /\ Ends("ended")
  /\ UNCHANGED <<content, wire, mode, device, user, outcome>>

\* The schedule with the change the operation makes.
Changed(v) ==
  CASE op.kind = "set"     -> [v EXCEPT ![op.slot] = op.value]
    [] op.kind = "enable"  -> [v EXCEPT ![op.slot].enabled = TRUE]
    [] op.kind = "disable" -> [v EXCEPT ![op.slot].enabled = FALSE]
    [] op.kind = "clear"   -> [s \in Slots |-> Blank]

\* An empty slot cannot be enabled or disabled.
Legal(v) == op.kind \in {"enable", "disable"} => ~Empty(v[op.slot])

\* The user enters what the operation asks for, or CLEAR; or what they enter is
\* refused.  A command has it already, unless a clear is to be confirmed.
Input ==
  /\ stage = "input"
  /\ \/ /\ Legal(current)
        /\ desired' = Changed(current)
        /\ Query("fresh") /\ UNCHANGED outcome
     \/ /\ Fails("illegal") /\ UNCHANGED desired
  /\ \/ Pause
     \/ mode = "command" /\ UNCHANGED <<recent, old, delayed>>
  /\ UNCHANGED <<content, writes, mode, device, op, current, changes, clean>>

\* The answer to CLEAR is another.
Cancel ==
  /\ stage = "input" /\ op.kind = "clear" /\ mode = "menu"
  /\ Ends("menu")
  /\ UNCHANGED <<content, wire, mode, device, user, outcome>>

-----------------------------------------------------------------------------
(* LanClient.query and write_and_verify                                    *)

\* A read has failed.  The first one of the menu only says so.
ReadFails ==
  IF stage = "first" THEN Ends("menu") /\ UNCHANGED outcome ELSE Fails("silent")

\* The deadline of a query: the next one is sent, after the last the read has
\* failed.
Deadline ==
  /\ stage \in Reads
  /\ \/ /\ attempt < Attempts
        /\ attempt' = attempt + 1 /\ UNCHANGED <<stage, outcome>>
     \/ attempt = Attempts /\ ReadFails
  /\ UNCHANGED <<content, wire, mode, device, user>>

\* The socket raises: for a query, or for the write after the fresh read.
SocketError ==
  /\ stage \in Reads
  /\ ReadFails
  /\ UNCHANGED <<content, wire, mode, device, user>>

CurrentRead(v) ==
  /\ current' = v
  /\ CASE op.kind = "query" ->
            Ends(IF mode = "command" THEN "ended" ELSE "menu")
       [] op.kind # "query" -> Ends("input")
  /\ UNCHANGED <<desired, outcome, writes>>

Write ==
  /\ writes' = writes \cup {desired}
  /\ stage' = "settle" /\ attempt' = 0
  /\ UNCHANGED <<current, desired, outcome>>

\* Mutant: the schedule is not compared with the one the user saw.
FreshReadUnchecked(v) == Write

\* "Refuse to overwrite a schedule that changed after the user viewed it."
FreshRead(v) ==
  IF v = current THEN Write ELSE Fails("refused") /\ UNCHANGED <<current, desired, writes>>

Settled ==
  /\ stage = "settle"
  /\ Query("verify1")
  /\ Pause
  /\ UNCHANGED <<content, writes, mode, device, user, outcome>>

\* The verifier of each operation.
Matches(v) ==
  CASE op.kind = "set"     -> v[op.slot] = desired[op.slot]
    [] op.kind = "enable"  -> ~Empty(v[op.slot]) /\ v[op.slot].enabled
    [] op.kind = "disable" -> ~Empty(v[op.slot]) /\ ~v[op.slot].enabled
    [] op.kind = "clear"   -> \A s \in Slots : Empty(v[s])

Succeeds == outcome' = "ok" /\ Ends(IF mode = "command" THEN "ended" ELSE "menu")

\* Mutant: one read-back confirms.
VerifiedOnce(v) ==
  /\ IF Matches(v) THEN Succeeds ELSE Fails("mismatch")
  /\ UNCHANGED <<current, desired, writes>>

Verified(v) ==
  /\ IF ~Matches(v) THEN Fails("mismatch")
     ELSE IF stage = "verify1" THEN Query("verify2") /\ UNCHANGED outcome
     ELSE Succeeds
  /\ UNCHANGED <<current, desired, writes>>

Accept(v) ==
  CASE stage = "first"      -> Ends("menu") /\ UNCHANGED <<current, desired, writes, outcome>>
    [] stage = "current"    -> CurrentRead(v)
    [] stage = "fresh"      -> FreshRead(v)
    [] stage \in Verifying  -> Verified(v)

\* Any reply of the device in flight answers the query.
Receive ==
  /\ stage \in Reads /\ device = "known"
  /\ \/ \E v \in recent : Accept(v) /\ UNCHANGED old
     \/ \E r \in old : Accept(r.schedule) /\ old' = old \ {r}
  /\ UNCHANGED <<content, recent, delayed, mode, device, op, changes, clean>>

\* The terminal is closed or the program is interrupted: nothing catches it.
Interrupt ==
  /\ stage # "ended"
  /\ Ends("ended")
  /\ UNCHANGED <<content, wire, mode, device, user, outcome>>

Next ==
  \/ Answer \/ WriteArrives
  \/ Pick \/ PickFails \/ Choose \/ Leave \/ Retry \/ Quit \/ Input \/ Cancel
  \/ Deadline \/ SocketError \/ Settled \/ Receive \/ Interrupt

Spec == Init /\ [][Next]_vars

-----------------------------------------------------------------------------
(* Properties                                                              *)

\* A change leaves the slots it does not name as they are in the device, though
\* all of them are written, and though one reply may be so late that the user
\* was shown a schedule of the past (352air_schedule_manager.py:1161).  A
\* write of an earlier change that may still come is excepted.
OthersKept ==
  stage \in Verifying \cup {"settle"} /\ clean /\ op.kind # "clear" =>
    \A s \in Slots \ {op.slot} : desired[s] = content[s]

\* A change reported as made is in the device, even if one reply was delayed
\* until it looked like a confirmation: "A second independent read protects
\* against accepting a delayed old packet" (352air_schedule_manager.py:1182).
ConfirmedIsTrue ==
  outcome = "ok" /\ clean =>
    \/ content = desired
    \/ op.kind = "clear" /\ \A s \in Slots : Empty(content[s])
-----------------------------------------------------------------------------
(* Inductive invariant, in parts, for at most one delayed reply            *)

Writing == {"settle"} \cup Verifying
Seen == {"input", "fresh"}

\* No delayed reply is on its way, and there will be none.
NoLate == old = {} /\ delayed = MaxDelayed

\* The device has what was to be written, or a clear found it empty.
Made == content = desired \/ (op.kind = "clear" /\ \A s \in Slots : Empty(content[s]))

\* Beyond the first read there is an operation, after it one that writes; what
\* is to be written is the change of what the user saw.
OperationShape ==
  /\ stage \in {"current"} \cup Seen \cup Writing => op \in Operations
  /\ stage \in Seen \cup Writing => op.kind # "query"
  /\ stage \in {"fresh"} \cup Writing => Legal(current) /\ desired = Changed(current)

\* A command has no prompts, and begins with nothing on its way.
CommandShape ==
  mode = "command" => /\ stage \notin {"first", "menu", "error", "pick_error"}
                      /\ stage = "pick" => writes = {} /\ clean

OneLate ==
  /\ delayed = 0 => old = {}
  /\ \A r, q \in old : r = q

\* Until the write of a clean operation nothing changes the device, so that what
\* answers in the present series of queries is what it has.
Undisturbed ==
  clean /\ stage \in {"current"} \cup Seen => writes = {} /\ recent \subseteq {content}

\* What the user saw is what the device has, or was the one delayed reply.
SeenTrue == clean /\ stage \in Seen => current = content \/ NoLate

\* The write is made upon what the device had.
WriteTrue ==
  clean /\ stage \in Writing =>
    writes \subseteq {desired} /\ content \in {current, desired} /\ recent \subseteq {current, content}

\* The first confirmation is true, or was the one delayed reply.
OnceTrue == clean /\ stage = "verify2" => Made \/ NoLate

\* A change reported as made stays so, whatever arrives.
OkStays ==
  outcome = "ok" =>
    /\ stage \in {"menu", "ended"}
    /\ clean => /\ Made /\ writes \subseteq {desired}
                /\ op.kind = "clear" => \A s \in Slots : Empty(desired[s])

IndInv ==
  /\ TypeOK /\ OperationShape /\ CommandShape /\ OneLate /\ Undisturbed
  /\ SeenTrue /\ WriteTrue /\ OnceTrue /\ OkStays
=============================================================================
