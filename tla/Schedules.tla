----------------------------- MODULE Schedules -----------------------------
(***************************************************************************)
(* Two programs that write the purifier's schedule slots: the clean-up of  *)
(* the config flow (schedule.py, async_clear_local_schedules) and one      *)
(* change made with the schedule manager (tools/352air_schedule_manager.py,*)
(* write_and_verify).  Both read, write once, wait, and read back twice; a *)
(* read is a query repeated up to Attempts times, and any valid reply is   *)
(* its answer, since replies are not matched with queries.                 *)
(*                                                                         *)
(* The network may lose, delay, reorder and repeat datagrams: what was     *)
(* sent stays in flight, and may arrive at any time, or never.  A reply    *)
(* that waits in a receiver's queue is one still in flight: the programs   *)
(* drain the queue before they send, and a repeat may follow all the same. *)
(***************************************************************************)
EXTENDS Naturals

CONSTANTS Slots,     \* the slots, four in the device
          Timers,    \* what a slot may be set to
          Blank,     \* an empty slot
          Attempts   \* queries per read, 3 in both programs

ASSUME SchedulesAssumption == Blank \notin Timers /\ Attempts \in Nat \ {0}

Schedule == [Slots -> Timers \cup {Blank}]
Cleared == [s \in Slots |-> Blank]
Users == {"cleanup", "manager"}

VARIABLES
    content,   \* the schedule in the device
    initial,   \* ... before either program began
    replies,   \* per program, the schedules of the replies in flight to it
    stage,     \* where each program stands
    attempt,   \* queries sent for the present read
    first,     \* the first read: `previous`, the manager's `current`
    desired,   \* what the program writes
    checked,   \* the slots its verification looks at
    sent,      \* the write has been sent
    retained,  \* received_non_empty of the clean-up's present read
    outcome,
    history    \* history variable: schedules of the device since the start

plan == <<desired, checked>>
device == <<content, initial, history>>
schedulesVars == <<device, replies, stage, attempt, first, plan, sent, retained, outcome>>

Reads == {"first", "fresh", "verify1", "verify2"}
Verifying == {"verify1", "verify2"}
Outcomes == {"none", "ok", "silent", "retained", "refused", "mismatch", "broken"}

SchedulesTypeOK ==
    /\ content \in Schedule /\ initial \in Schedule
    /\ replies \in [Users -> SUBSET Schedule]
    /\ stage \in [Users -> Reads \cup {"idle", "review", "settle", "ended"}]
    /\ attempt \in [Users -> 0..Attempts]
    /\ first \in [Users -> Schedule]
    /\ desired \in [Users -> Schedule]
    /\ checked \in [Users -> SUBSET Slots]
    /\ sent \in [Users -> BOOLEAN]
    /\ retained \in BOOLEAN
    /\ outcome \in [Users -> Outcomes]
    /\ history \in [Users -> SUBSET Schedule]

SchedulesInit ==
    /\ content \in Schedule /\ initial = content
    /\ replies = [u \in Users |-> {}]
    /\ stage = [u \in Users |-> "idle"]
    /\ attempt = [u \in Users |-> 0]
    /\ first = [u \in Users |-> Cleared]
    /\ desired = [u \in Users |-> Cleared]
    /\ checked = [u \in Users |-> Slots]
    /\ sent = [u \in Users |-> FALSE]
    /\ retained = FALSE
    /\ outcome = [u \in Users |-> "none"]
    /\ history = [u \in Users |-> {}]

Running(u) == stage[u] \notin {"idle", "ended"}

\* Mutant: slots are numbered from 1 and indexed from 0.
MatchesNext(u, v) ==
    \A s \in Slots : (s \in checked[u] <=> checked[u] = Slots) => v[s] = desired[u][s]

\* The verification of a program accepts the schedule v.
Matches(u, v) == \A s \in checked[u] : v[s] = desired[u][s]

-----------------------------------------------------------------------------
(* The device and the network                                              *)

\* A program that runs has sent a query, and it or a repeat of it arrives.
Answer(u) ==
    /\ Running(u)
    /\ replies' = [replies EXCEPT ![u] = @ \cup {content}]
    /\ UNCHANGED <<device, stage, attempt, first, plan, sent, retained, outcome>>

ExecuteWrite(u) ==
    /\ sent[u]
    /\ content' = desired[u]
    /\ history' = [v \in Users |-> IF Running(v) THEN history[v] \cup {content'}
                                                 ELSE history[v]]
    /\ UNCHANGED <<initial, replies, stage, attempt, first, plan, sent, retained,
                   outcome>>

-----------------------------------------------------------------------------
(* Reads: _async_query_schedules, LanClient.query                          *)

\* Drain what has come and send the n-th query of a read.
Query(u, read, n) ==
    /\ stage' = [stage EXCEPT ![u] = read]
    /\ attempt' = [attempt EXCEPT ![u] = n]
    /\ retained' = (retained /\ ~(u = "cleanup" /\ n = 1))
    /\ UNCHANGED <<replies, outcome>>

\* The program ends and closes its socket: what is in flight to it is lost.
End(u, result) ==
    /\ stage' = [stage EXCEPT ![u] = "ended"]
    /\ outcome' = [outcome EXCEPT ![u] = result]
    /\ replies' = [replies EXCEPT ![u] = {}]
    /\ attempt' = [attempt EXCEPT ![u] = 0]
    /\ retained' = (retained /\ u # "cleanup")

\* The deadline of an attempt.
Deadline(u) ==
    /\ stage[u] \in Reads
    /\ \/ attempt[u] < Attempts /\ Query(u, stage[u], attempt[u] + 1)
       \/ /\ attempt[u] = Attempts
          /\ End(u, IF u = "cleanup" /\ retained THEN "retained" ELSE "silent")
    /\ UNCHANGED <<device, first, plan, sent>>

\* The socket cannot be had, a send fails, the change is not a legal one, or
\* the program is cancelled.
Break(u) ==
    /\ stage[u] # "ended"
    /\ End(u, "broken")
    /\ UNCHANGED <<device, first, plan, sent>>

-----------------------------------------------------------------------------
(* The two programs                                                        *)

Start(u) ==
    /\ stage[u] = "idle"
    /\ Query(u, "first", 1)
    /\ history' = [history EXCEPT ![u] = {content}]
    /\ UNCHANGED <<content, initial, first, plan, sent>>

\* The write is sent once.
SendWrite(u) ==
    /\ sent' = [sent EXCEPT ![u] = TRUE]
    /\ stage' = [stage EXCEPT ![u] = "settle"]
    /\ attempt' = [attempt EXCEPT ![u] = 0]
    /\ UNCHANGED <<replies, retained, outcome>>

\* The clean-up writes at once; the manager shows what it has read.
FirstRead(u, v) ==
    /\ stage[u] = "first"
    /\ first' = [first EXCEPT ![u] = v]
    /\ \/ u = "cleanup" /\ SendWrite(u)
       \/ /\ u = "manager"
          /\ stage' = [stage EXCEPT ![u] = "review"]
          /\ attempt' = [attempt EXCEPT ![u] = 0]
          /\ UNCHANGED <<replies, sent, retained, outcome>>

\* The user sets, enables or disables one slot, or clears them all.  All slots
\* are written, and only those that were to change are verified.
Change ==
    /\ stage["manager"] = "review"
    /\ \/ \E s \in Slots, t \in Timers :
            /\ desired' = [desired EXCEPT !["manager"] =
                                [first["manager"] EXCEPT ![s] = t]]
            /\ checked' = [checked EXCEPT !["manager"] = {s}]
       \/ /\ desired' = [desired EXCEPT !["manager"] = Cleared]
          /\ UNCHANGED checked
    /\ Query("manager", "fresh", 1)
    /\ UNCHANGED <<device, first, sent>>

\* Refuse to overwrite a schedule that is not the one the user saw.
FreshRead(u, v) ==
    /\ stage[u] = "fresh"
    /\ \/ v = first[u] /\ SendWrite(u)
       \/ v # first[u] /\ End(u, "refused") /\ UNCHANGED sent
    /\ UNCHANGED first

Settled(u) ==
    /\ stage[u] = "settle"
    /\ Query(u, "verify1", 1)
    /\ UNCHANGED <<device, first, plan, sent>>

Verified(u, v) ==
    /\ stage[u] \in Verifying
    /\ Matches(u, v)
    /\ \/ stage[u] = "verify1" /\ Query(u, "verify2", 1)
       \/ stage[u] = "verify2" /\ End(u, "ok")
    /\ UNCHANGED <<first, sent>>

\* Mutant: any reply of the device confirms the write.
ContradictedIgnored(u, v) ==
    /\ stage[u] \in Verifying
    /\ ~Matches(u, v)
    /\ \/ stage[u] = "verify1" /\ Query(u, "verify2", 1)
       \/ stage[u] = "verify2" /\ End(u, "ok")
    /\ UNCHANGED <<first, sent>>

\* A reply with another schedule.  The clean-up listens on, as it may be an old
\* one; the manager gives up.
Contradicted(u, v) ==
    /\ stage[u] \in Verifying
    /\ ~Matches(u, v)
    /\ \/ /\ u = "cleanup"
          /\ retained' = TRUE
          /\ UNCHANGED <<replies, stage, attempt, outcome>>
       \/ u = "manager" /\ End(u, "mismatch")
    /\ UNCHANGED <<first, sent>>

\* A reply arrives.  What waits for the user or sleeps drains it unread.
Receive(u) ==
    /\ \E v \in replies[u] :
        FirstRead(u, v) \/ FreshRead(u, v) \/ Verified(u, v) \/ Contradicted(u, v)
    /\ UNCHANGED <<device, plan>>

-----------------------------------------------------------------------------
(* The system                                                              *)

SchedulesNext ==
    \/ \E u \in Users :
        \/ Answer(u) \/ ExecuteWrite(u) \/ Receive(u)
        \/ Start(u) \/ Deadline(u) \/ Settled(u) \/ Break(u)
    \/ Change

SchedulesSpec == SchedulesInit /\ [][SchedulesNext]_schedulesVars

-----------------------------------------------------------------------------
(* Properties                                                              *)

\* A program whose write had no rival says the truth, whatever was lost, late or
\* repeated.  A clean-up that succeeds leaves no slot in use and counts the
\* slots there were; one that says slots were retained is right that there were
\* any (schedule.py:71-76 and 143).  A change the manager confirms is in the
\* device, with the slots it does not verify as they were
\* (tools/352air_schedule_manager.py:1154-1189).
ReportTruthful ==
    /\ ~sent["manager"] =>
        /\ outcome["cleanup"] = "ok" => content = Cleared /\ first["cleanup"] = initial
        /\ outcome["cleanup"] = "retained" => initial # Cleared
    /\ outcome["manager"] = "ok" /\ ~sent["cleanup"] => content = desired["manager"]

\* Beside another writer, and with old replies in flight, a program that reports
\* success has read its slots from the device as it was at some time since the
\* program began: success is never reported for what was never there.
SuccessWasTrue ==
    \A u \in Users : outcome[u] = "ok" =>
        \E v \in history[u] : \A s \in checked[u] : v[s] = desired[u][s]
-----------------------------------------------------------------------------
(* Inductive invariant, in parts                                           *)

\* The program has made its first read, or decided what to write.
HasRead(u) == sent[u] \/ stage[u] \in {"review", "fresh", "settle"} \cup Verifying
Planned(u) == sent[u] \/ stage[u] \in {"fresh", "settle"} \cup Verifying

\* Where a program stands when its write has been sent, and how it has ended.
StageShape(u) ==
    /\ stage[u] \in {"settle"} \cup Verifying => sent[u]
    /\ sent[u] => stage[u] \in {"settle", "ended"} \cup Verifying
    /\ outcome[u] # "none" => stage[u] = "ended"
    /\ outcome[u] = "ok" => sent[u]

\* What is written is what was read first, but for the slots that are verified:
\* all of them, unless a change of one slot has been planned.
PlanShape(u) ==
    /\ u = "cleanup" => desired[u] = Cleared /\ checked[u] = Slots
    /\ stage[u] \in {"idle", "first", "review"} => checked[u] = Slots
    /\ Planned(u) => \A s \in Slots \ checked[u] : desired[u][s] = first[u][s]

\* What is on its way to a program is a schedule the device had since it began.
RepliesPast(u) ==
    /\ Running(u) => content \in history[u] /\ replies[u] \subseteq history[u]
    /\ ~Running(u) => replies[u] = {}
    /\ outcome[u] = "ok" => \E v \in history[u] : Matches(u, v)

\* No other program's write has been sent.
Alone(u) == \A w \in Users \ {u} : ~sent[w]

\* A program without a rival finds the schedule as it was, or as it wrote it.
AloneTrue(u) ==
    Alone(u) =>
        /\ ~sent[u] => content = initial
        /\ content \in {initial, desired[u]}
        /\ replies[u] \subseteq {initial, content}
        /\ HasRead(u) => first[u] = initial
        /\ outcome[u] = "ok" => content = desired[u]
        /\ u = "cleanup" /\ (retained \/ outcome[u] = "retained") => initial # Cleared

SchedulesInv ==
    /\ SchedulesTypeOK
    /\ \A u \in Users : StageShape(u) /\ PlanShape(u) /\ RepliesPast(u) /\ AloneTrue(u)
=============================================================================
