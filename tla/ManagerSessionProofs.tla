------------------------ MODULE ManagerSessionProofs ------------------------
(***************************************************************************)
(* Theorems about ManagerSession, for any slots, settings and number of    *)
(* queries and changes, if at most one reply is delayed beyond a pause:    *)
(* what the two reads before a write and the two after it are good for.    *)
(***************************************************************************)
EXTENDS ManagerSession, TLAPS

-----------------------------------------------------------------------------
(* The operations on a schedule                                            *)

\* The fields of an operation that writes.
LEMMA OperationFields ==
    ASSUME op \in Operations, op.kind # "query"
    PROVE  /\ op.kind \in {"set", "enable", "disable", "clear"}
           /\ op.kind # "clear" => op.slot \in Slots
           /\ op.kind = "set" => op.value \in Setting
BY DEF Operations, Slotted

\* An operation gives a schedule; it changes one slot, or clears them all.
LEMMA ChangedSchedule ==
    ASSUME op \in Operations, op.kind # "query", NEW v \in Schedule, Legal(v)
    PROVE  /\ Changed(v) \in Schedule
           /\ op.kind # "clear" => \A s \in Slots \ {op.slot} : Changed(v)[s] = v[s]
           /\ op.kind = "clear" => \A s \in Slots : Empty(Changed(v)[s])
<1> USE OperationFields DEF Changed, Schedule
<1>1. CASE op.kind = "set"
      BY <1>1
<1>2. CASE op.kind \in {"enable", "disable"}
      <2>1. v[op.slot] \in Setting
            BY <1>2 DEF Legal, Empty
      <2>2. /\ [v[op.slot] EXCEPT !.enabled = TRUE] \in Setting
            /\ [v[op.slot] EXCEPT !.enabled = FALSE] \in Setting
            BY <2>1 DEF Setting
      <2>. QED
            BY <1>2, <2>2
<1>3. CASE op.kind = "clear"
      BY <1>3 DEF Empties, Empty
<1>. QED
      BY <1>1, <1>2, <1>3

\* The schedule a change was made of matches only if it needed no change.
LEMMA MatchesUnchanged ==
    ASSUME op \in Operations, op.kind # "query", current \in Schedule, Legal(current),
           desired = Changed(current), Matches(current)
    PROVE  current = desired \/ (op.kind = "clear" /\ \A s \in Slots : Empty(current[s]))
<1> USE OperationFields DEF Changed, Schedule, Matches
<1>1. CASE op.kind = "set"
      BY <1>1
<1>2. CASE op.kind = "enable"
      <2>1. current[op.slot] \in Setting
            BY <1>2 DEF Legal, Empty
      <2>2. current[op.slot].enabled = TRUE
            BY <1>2, <2>1 DEF Setting
      <2>3. [current[op.slot] EXCEPT !.enabled = TRUE] = current[op.slot]
            BY <2>1, <2>2 DEF Setting
      <2>. QED
            BY <1>2, <2>3
<1>3. CASE op.kind = "disable"
      <2>1. current[op.slot] \in Setting
            BY <1>3 DEF Legal, Empty
      <2>2. current[op.slot].enabled = FALSE
            BY <1>3, <2>1 DEF Setting
      <2>3. [current[op.slot] EXCEPT !.enabled = FALSE] = current[op.slot]
            BY <2>1, <2>2 DEF Setting
      <2>. QED
            BY <1>3, <2>3
<1>4. CASE op.kind = "clear"
      BY <1>4
<1>. QED
      BY <1>1, <1>2, <1>3, <1>4

-----------------------------------------------------------------------------
(* The steps of the module                                                 *)

Idle == {"pick", "menu", "pick_error", "error", "ended"}

Aside ==
    PickFails \/ Leave \/ Retry \/ Quit \/ Cancel \/ Deadline \/ SocketError \/ Interrupt

\* What goes neither to the device nor comes from it ends the operation, or
\* goes on with it.
LEMMA Asides ==
    ASSUME IndInv, Aside
    PROVE  /\ UNCHANGED <<content, wire, mode, device, user>>
           /\ stage' = stage \/ stage' \in Idle
           /\ mode = "command" => stage' = stage \/ stage' = "ended"
           /\ outcome' \in {outcome, "none", "silent"} /\ attempt' \in 0 .. Attempts
           /\ outcome' = "ok" => stage' \in {"menu", "ended"}
<1> USE DEF Ends, Idle, IndInv, CommandShape, OkStays
<1>0. attempt \in 0 .. Attempts /\ 0 \in 0 .. Attempts
      BY BoundsAssumption DEF TypeOK
<1>1. CASE PickFails
      BY <1>0, <1>1 DEF PickFails
<1>2. CASE Leave
      BY <1>0, <1>2 DEF Leave
<1>3. CASE Retry
      BY <1>0, <1>3 DEF Retry
<1>4. CASE Quit
      BY <1>0, <1>4 DEF Quit
<1>5. CASE Cancel
      BY <1>0, <1>5 DEF Cancel
<1>6. CASE Interrupt
      BY <1>0, <1>6 DEF Interrupt
<1>7. ASSUME stage \in Reads, ReadFails
      PROVE  /\ stage' \in Idle /\ outcome' \in {outcome, "silent"} /\ attempt' = 0
             /\ mode = "command" => stage' = "ended"
             /\ outcome' # "ok"
      BY <1>7 DEF ReadFails, Fails, Reads
<1>8. CASE SocketError
      BY <1>0, <1>7, <1>8 DEF SocketError
<1>9. CASE Deadline
      <2>1. UNCHANGED <<content, wire, mode, device, user>> /\ stage \in Reads
            BY <1>9 DEF Deadline
      <2>2. CASE ReadFails
            BY <1>0, <1>7, <2>1, <2>2
      <2>3. CASE ~ReadFails
            <3>1. /\ attempt < Attempts /\ attempt' = attempt + 1
                  /\ UNCHANGED <<stage, outcome>>
                  BY <1>9, <2>3 DEF Deadline
            <3>. QED
                  BY <1>0, <2>1, <3>1, BoundsAssumption DEF Reads
      <2>. QED
            BY <2>2, <2>3
<1>. QED
      BY <1>1, <1>2, <1>3, <1>4, <1>5, <1>6, <1>8, <1>9 DEF Aside

\* The reply that is accepted: one of this series of queries, or the delayed one.
Accepts(v) ==
    /\ stage \in Reads /\ Accept(v)
    /\ old' \subseteq old
    /\ v \in recent \/ (~NoLate /\ NoLate')
    /\ UNCHANGED <<content, recent, delayed, mode, device, op, changes, clean>>

LEMMA Receives ==
    ASSUME MaxDelayed <= 1, IndInv, Receive
    PROVE  \E v \in Schedule : Accepts(v)
<1> USE DEF IndInv
<1>0. /\ stage \in Reads
      /\ UNCHANGED <<content, recent, delayed, mode, device, op, changes, clean>>
      BY DEF Receive
<1>1. CASE \E v \in recent : Accept(v) /\ UNCHANGED old
      BY <1>0, <1>1 DEF Accepts, TypeOK
<1>2. ASSUME NEW r \in old, Accept(r.schedule), old' = old \ {r}
      PROVE  \E v \in Schedule : Accepts(v)
      <2>1. r.schedule \in Schedule /\ delayed \in 0 .. MaxDelayed /\ MaxDelayed \in Nat
            BY BoundsAssumption DEF TypeOK
      <2>2. delayed # 0 /\ old' = {}
            BY <1>2 DEF OneLate
      <2>3. delayed = MaxDelayed
            BY <2>1, <2>2
      <2>. QED
            BY <1>0, <1>2, <2>1, <2>2, <2>3 DEF Accepts, NoLate
<1>. QED
      BY <1>1, <1>2 DEF Receive

LEMMA Steps ==
    ASSUME MaxDelayed <= 1, IndInv, [Next]_vars
    PROVE  \/ Answer \/ WriteArrives \/ Pick \/ Choose \/ Input \/ Settled \/ Aside
           \/ \E v \in Schedule : Accepts(v)
           \/ UNCHANGED vars
BY Receives DEF Next, Aside

\* A pause keeps the delayed replies to at most one.
LEMMA Pauses ==
    ASSUME MaxDelayed <= 1, IndInv, Pause
    PROVE  /\ recent' = {} /\ OneLate' /\ (NoLate => NoLate')
           /\ old' \subseteq [nr : 1 .. MaxDelayed, schedule : Schedule]
           /\ delayed' \in 0 .. MaxDelayed
<1> USE BoundsAssumption DEF IndInv
<1>0. /\ delayed \in 0 .. MaxDelayed /\ recent \subseteq Schedule
      /\ old \subseteq [nr : 1 .. MaxDelayed, schedule : Schedule]
      BY DEF TypeOK
<1>1. CASE UNCHANGED <<old, delayed>>
      BY <1>0, <1>1 DEF Pause, OneLate, NoLate
<1>2. CASE ~UNCHANGED <<old, delayed>>
      <2>1. PICK v \in recent : /\ delayed < MaxDelayed /\ delayed' = delayed + 1
                                /\ old' = old \cup {[nr |-> delayed', schedule |-> v]}
            BY <1>2 DEF Pause
      <2>2. delayed = 0 /\ delayed' = 1 /\ MaxDelayed = 1 /\ old = {}
            BY <1>0, <2>1 DEF OneLate
      <2>3. old' = {[nr |-> 1, schedule |-> v]}
            BY <2>1, <2>2
      <2>4. [nr |-> 1, schedule |-> v] \in [nr : 1 .. MaxDelayed, schedule : Schedule]
            BY <1>0, <2>2
      <2>5. recent' = {}
            BY DEF Pause
      <2>. QED
            BY <2>2, <2>3, <2>4, <2>5 DEF OneLate, NoLate
<1>. QED
      BY <1>1, <1>2

\* With no reply delayed any more none will be.
LEMMA LateOver ==
    ASSUME MaxDelayed <= 1, IndInv, [Next]_vars, NoLate
    PROVE  NoLate'
<1>1. CASE Pause
      BY <1>1, Pauses
<1>2. CASE UNCHANGED <<old, delayed>>
      BY <1>2 DEF NoLate
<1>3. ASSUME NEW v \in Schedule, Accepts(v)
      PROVE  NoLate'
      BY <1>3 DEF Accepts, NoLate
<1>4. CASE Answer \/ WriteArrives
      BY <1>2, <1>4 DEF Answer, WriteArrives
<1>5. CASE Pick \/ Choose \/ Settled
      BY <1>1, <1>5 DEF Pick, Choose, Settled
<1>6. CASE Input
      BY <1>1, <1>2, <1>6 DEF Input
<1>7. CASE Aside
      BY <1>2, <1>7, Asides DEF wire
<1>8. CASE UNCHANGED vars
      BY <1>2, <1>8 DEF vars, wire
<1>. QED
      BY Steps, <1>3, <1>4, <1>5, <1>6, <1>7, <1>8

-----------------------------------------------------------------------------
(* Initial states                                                          *)

LEMMA InitInv == Init => IndInv
<1> SUFFICES ASSUME Init PROVE IndInv
    OBVIOUS
<1> USE BoundsAssumption DEF Init
<1>1. TypeOK
      <2>1. attempt \in 0 .. Attempts /\ delayed \in 0 .. MaxDelayed /\ changes \in 0 .. MaxChanges
            OBVIOUS
      <2>. QED
            BY <2>1 DEF TypeOK, Prompts
<1>2. OperationShape /\ CommandShape /\ OneLate
      BY DEF OperationShape, CommandShape, OneLate, Seen, Writing, Verifying
<1>3. Undisturbed /\ SeenTrue /\ WriteTrue /\ OnceTrue /\ OkStays
      BY DEF Undisturbed, SeenTrue, WriteTrue, OnceTrue, OkStays, Seen, Writing, Verifying
<1>. QED
      BY <1>1, <1>2, <1>3 DEF IndInv

-----------------------------------------------------------------------------
(* Steps                                                                   *)

LEMMA TypeStep == ASSUME MaxDelayed <= 1, IndInv, [Next]_vars PROVE TypeOK'
<1> USE BoundsAssumption DEF wire, user
<1>0. TypeOK /\ OperationShape /\ 0 \in 0 .. Attempts /\ 1 \in 0 .. Attempts
      BY DEF IndInv
<1>1. CASE Answer
      BY <1>0, <1>1 DEF Answer, TypeOK
<1>2. CASE WriteArrives
      BY <1>0, <1>2 DEF WriteArrives, TypeOK
<1>3. CASE Pick
      <2>1. /\ device' \in {"known", "wrong", "unscheduled"} /\ op' \in Operations \cup {op}
            /\ stage' \in {"menu", "first", "ended", "current"} /\ attempt' \in {0, 1}
            /\ UNCHANGED <<content, writes, mode, current, desired, outcome, changes, clean>>
            BY <1>3 DEF Pick, Ends, Query
      <2>2. Pause
            BY <1>3 DEF Pick
      <2>. QED
            BY <1>0, <2>1, <2>2, Pauses DEF TypeOK, Reads, Prompts
<1>4. CASE Choose
      <2>1. /\ op' \in Operations /\ changes' \in 0 .. MaxChanges /\ clean' \in BOOLEAN
            /\ outcome' = "none"
            /\ stage' \in {"error", "current"} /\ attempt' \in {0, 1}
            /\ UNCHANGED <<content, writes, mode, device, current, desired>>
            BY <1>0, <1>4 DEF Choose, Ends, Query, TypeOK
      <2>2. Pause
            BY <1>4 DEF Choose
      <2>. QED
            BY <1>0, <2>1, <2>2, Pauses DEF TypeOK, Reads, Prompts
<1>5. CASE Input
      <2>1. op \in Operations /\ op.kind # "query" /\ current \in Schedule
            BY <1>0, <1>5 DEF Input, OperationShape, Seen, TypeOK
      <2>2. desired' \in Schedule
            BY <1>0, <1>5, <2>1, ChangedSchedule DEF Input, TypeOK
      <2>3. /\ outcome' \in {outcome, "illegal"}
            /\ stage' \in {"fresh", "error", "ended"} /\ attempt' \in {0, 1}
            /\ UNCHANGED <<content, writes, mode, device, op, current, changes, clean>>
            BY <1>5 DEF Input, Fails, Ends, Query
      <2>4. Pause \/ UNCHANGED <<recent, old, delayed>>
            BY <1>5 DEF Input
      <2>. QED
            BY <1>0, <2>2, <2>3, <2>4, Pauses DEF TypeOK, Reads, Prompts
<1>6. CASE Settled
      <2>1. /\ stage' = "verify1" /\ attempt' = 1 /\ Pause
            /\ UNCHANGED <<content, writes, mode, device, user, outcome>>
            BY <1>6 DEF Settled, Query
      <2>. QED
            BY <1>0, <2>1, Pauses DEF TypeOK, Reads
<1>7. CASE Aside
      BY <1>0, <1>7, Asides DEF TypeOK, Idle, Prompts
<1>8. ASSUME NEW v \in Schedule, Accepts(v)
      PROVE  TypeOK'
      <2>1. /\ old' \subseteq old
            /\ UNCHANGED <<content, recent, delayed, mode, device, op, changes, clean>>
            BY <1>8 DEF Accepts
      <2>2. /\ stage' \in {"menu", "ended", "input", "settle", "error", "verify2"}
            /\ attempt' \in {0, 1} /\ current' \in {current, v} /\ desired' = desired
            /\ writes' \in {writes, writes \cup {desired}}
            /\ outcome' \in {outcome, "ok", "refused", "mismatch"}
            BY <1>8
               DEF Accepts, Accept, CurrentRead, FreshRead, Verified, Write, Succeeds, Fails,
                   Ends, Query, Reads, Verifying
      <2>. QED
            BY <1>0, <2>1, <2>2 DEF TypeOK, Reads, Prompts
<1>9. CASE UNCHANGED vars
      BY <1>0, <1>9 DEF vars, TypeOK
<1>. QED
      BY Steps, <1>1, <1>2, <1>3, <1>4, <1>5, <1>6, <1>7, <1>8, <1>9

LEMMA OperationStep == ASSUME MaxDelayed <= 1, IndInv, [Next]_vars PROVE OperationShape'
<1> USE DEF Seen, Writing, Verifying, wire, user
<1>0. OperationShape
      BY DEF IndInv
<1>1. CASE UNCHANGED <<op, current, desired>> /\ (stage' = stage \/ stage' \in Idle)
      BY <1>0, <1>1 DEF OperationShape, Idle, Legal, Changed
<1>2. CASE Answer \/ WriteArrives
      BY <1>1, <1>2 DEF Answer, WriteArrives
<1>3. CASE Aside
      BY <1>1, <1>3, Asides
<1>4. CASE Pick
      BY <1>0, <1>4 DEF Pick, Ends, Query, OperationShape
<1>5. CASE Choose
      BY <1>5 DEF Choose, Ends, Query, OperationShape
<1>6. CASE Input
      BY <1>0, <1>6 DEF Input, Fails, Ends, Query, OperationShape, Legal, Changed
<1>7. CASE Settled
      BY <1>0, <1>7 DEF Settled, Query, OperationShape, Legal, Changed
<1>8. ASSUME NEW v \in Schedule, Accepts(v)
      PROVE  OperationShape'
      <2>1. op' = op /\ stage \in Reads /\ Accept(v)
            BY <1>8 DEF Accepts
      <2>2. CASE stage = "current"
            BY <1>0, <2>1, <2>2 DEF Accept, CurrentRead, Ends, OperationShape
      <2>3. CASE stage # "current"
            BY <1>0, <2>1, <2>3
               DEF Accept, FreshRead, Verified, Write, Succeeds, Fails, Ends, Query, Reads,
                   OperationShape, Legal, Changed
      <2>. QED
            BY <2>2, <2>3
<1>9. CASE UNCHANGED vars
      BY <1>1, <1>9 DEF vars
<1>. QED
      BY Steps, <1>2, <1>3, <1>4, <1>5, <1>6, <1>7, <1>8, <1>9

LEMMA CommandStep == ASSUME MaxDelayed <= 1, IndInv, [Next]_vars PROVE CommandShape'
<1> USE DEF wire, user
<1>0. CommandShape
      BY DEF IndInv
<1>1. CASE UNCHANGED <<mode, writes, clean>> /\ (mode = "command" => stage' \in {stage, "ended"})
      BY <1>0, <1>1 DEF CommandShape
<1>2. CASE Answer
      BY <1>1, <1>2 DEF Answer
<1>3. CASE WriteArrives
      BY <1>0, <1>3 DEF WriteArrives, CommandShape
<1>4. CASE Aside
      BY <1>1, <1>4, Asides
<1>5. CASE Pick
      BY <1>0, <1>5 DEF Pick, Ends, Query, CommandShape
<1>6. CASE Choose
      BY <1>0, <1>6 DEF Choose, CommandShape
<1>7. CASE Input \/ Settled
      BY <1>0, <1>7 DEF Input, Settled, Fails, Ends, Query, CommandShape
<1>8. ASSUME NEW v \in Schedule, Accepts(v)
      PROVE  CommandShape'
      BY <1>0, <1>8
         DEF Accepts, Accept, CurrentRead, FreshRead, Verified, Write, Succeeds, Fails,
             Ends, Query, Reads, Verifying, CommandShape
<1>9. CASE UNCHANGED vars
      BY <1>1, <1>9 DEF vars
<1>. QED
      BY Steps, <1>2, <1>3, <1>4, <1>5, <1>6, <1>7, <1>8, <1>9

LEMMA LateStep == ASSUME MaxDelayed <= 1, IndInv, [Next]_vars PROVE OneLate'
<1>1. CASE UNCHANGED <<old, delayed>>
      BY <1>1 DEF IndInv, OneLate
<1>2. CASE Pause
      BY <1>2, Pauses
<1>3. ASSUME NEW v \in Schedule, Accepts(v)
      PROVE  OneLate'
      BY <1>3 DEF Accepts, IndInv, OneLate
<1>4. CASE Answer \/ WriteArrives
      BY <1>1, <1>4 DEF Answer, WriteArrives
<1>5. CASE Pick \/ Choose \/ Settled
      BY <1>2, <1>5 DEF Pick, Choose, Settled
<1>6. CASE Input
      BY <1>1, <1>2, <1>6 DEF Input
<1>7. CASE Aside
      BY <1>1, <1>7, Asides DEF wire
<1>8. CASE UNCHANGED vars
      BY <1>1, <1>8 DEF vars, wire
<1>. QED
      BY Steps, <1>3, <1>4, <1>5, <1>6, <1>7, <1>8

\* Nothing of an earlier change reaches a clean one before its own write.
LEMMA UndisturbedStep == ASSUME MaxDelayed <= 1, IndInv, [Next]_vars PROVE Undisturbed'
<1> USE DEF Seen, Verifying, wire, user
<1>0. Undisturbed
      BY DEF IndInv
<1>1. CASE UNCHANGED <<content, recent, writes, clean>> /\ (stage' = stage \/ stage' \in Idle)
      BY <1>0, <1>1 DEF Undisturbed, Idle
<1>2. CASE Answer
      BY <1>0, <1>2 DEF Answer, Undisturbed
<1>3. CASE WriteArrives
      BY <1>0, <1>3 DEF WriteArrives, Undisturbed
<1>4. CASE Aside
      BY <1>1, <1>4, Asides
<1>5. CASE Pick
      <2>1. recent' = {} /\ UNCHANGED <<writes, mode, clean>>
            BY <1>5, Pauses DEF Pick
      <2>2. stage' = "current" => mode = "command" /\ stage = "pick"
            BY <1>5 DEF Pick, Ends, Query, IndInv, TypeOK
      <2>3. stage' \notin Seen
            BY <1>5 DEF Pick, Ends, Query
      <2>. QED
            BY <2>1, <2>2, <2>3 DEF Undisturbed, IndInv, CommandShape
<1>6. CASE Choose
      BY <1>6, Pauses DEF Choose, Ends, Query, Undisturbed
<1>7. CASE Input
      BY <1>0, <1>7, Pauses DEF Input, Fails, Ends, Query, Undisturbed
<1>8. CASE Settled
      BY <1>8 DEF Settled, Query, Undisturbed
<1>9. ASSUME NEW v \in Schedule, Accepts(v)
      PROVE  Undisturbed'
      <2>1. Accept(v) /\ stage \in Reads /\ UNCHANGED <<content, recent, clean>>
            BY <1>9 DEF Accepts
      <2>2. CASE stage = "current"
            BY <1>0, <2>1, <2>2 DEF Accept, CurrentRead, Ends, Undisturbed
      <2>3. CASE stage # "current"
            BY <2>1, <2>3
               DEF Accept, FreshRead, Verified, Write, Succeeds, Fails, Ends, Query, Reads,
                   Verifying, Undisturbed
      <2>. QED
            BY <2>2, <2>3
<1>10. CASE UNCHANGED vars
      BY <1>1, <1>10 DEF vars
<1>. QED
      BY Steps, <1>2, <1>3, <1>4, <1>5, <1>6, <1>7, <1>8, <1>9, <1>10

\* What the user was shown is the schedule of the device, or the one late reply.
LEMMA SeenStep == ASSUME MaxDelayed <= 1, IndInv, [Next]_vars PROVE SeenTrue'
<1> USE DEF Seen, Verifying, wire, user
<1>0. SeenTrue /\ Undisturbed /\ (NoLate => NoLate')
      BY LateOver DEF IndInv
<1>1. CASE UNCHANGED <<content, current, clean>> /\ (stage' = stage \/ stage' \in Idle)
      BY <1>0, <1>1 DEF SeenTrue, Idle
<1>2. CASE Answer
      BY <1>1, <1>2 DEF Answer
<1>3. CASE WriteArrives
      BY <1>0, <1>3 DEF WriteArrives, Undisturbed, SeenTrue
<1>4. CASE Aside
      BY <1>1, <1>4, Asides
<1>5. CASE Pick \/ Choose \/ Settled
      BY <1>5 DEF Pick, Choose, Settled, Ends, Query, SeenTrue
<1>6. CASE Input
      BY <1>0, <1>6 DEF Input, Fails, Ends, Query, SeenTrue
<1>7. ASSUME NEW v \in Schedule, Accepts(v)
      PROVE  SeenTrue'
      <2>1. /\ Accept(v) /\ stage \in Reads /\ UNCHANGED <<content, clean>>
            /\ v \in recent \/ NoLate'
            BY <1>7 DEF Accepts
      <2>2. CASE stage = "current"
            BY <1>0, <2>1, <2>2 DEF Accept, CurrentRead, Undisturbed, SeenTrue
      <2>3. CASE stage # "current"
            BY <2>1, <2>3
               DEF Accept, FreshRead, Verified, Write, Succeeds, Fails, Ends, Query, Reads,
                   Verifying, SeenTrue
      <2>. QED
            BY <2>2, <2>3
<1>8. CASE UNCHANGED vars
      BY <1>1, <1>8 DEF vars
<1>. QED
      BY Steps, <1>2, <1>3, <1>4, <1>5, <1>6, <1>7, <1>8

\* The second read before the write makes the write one upon what the device has.
LEMMA WriteStep == ASSUME MaxDelayed <= 1, IndInv, [Next]_vars PROVE WriteTrue'
<1> USE DEF Writing, Verifying, wire, user
<1>0. WriteTrue /\ Undisturbed /\ SeenTrue
      BY DEF IndInv
<1>1. CASE /\ UNCHANGED <<content, writes, current, desired, clean>>
           /\ recent' \in {recent, {}}
           /\ stage' = stage \/ stage' \in Idle \cup {"current", "first", "input", "fresh"}
              \/ stage \in Writing
      BY <1>0, <1>1 DEF WriteTrue, Idle
<1>2. CASE Answer
      BY <1>0, <1>2 DEF Answer, WriteTrue
<1>3. CASE WriteArrives
      BY <1>0, <1>3 DEF WriteArrives, WriteTrue
<1>4. CASE Aside
      BY <1>1, <1>4, Asides
<1>5. CASE Pick \/ Choose \/ Input
      BY <1>5 DEF Pick, Choose, Input, Fails, Ends, Query, WriteTrue
<1>6. CASE Settled
      BY <1>1, <1>6, Pauses DEF Settled
<1>7. ASSUME NEW v \in Schedule, Accepts(v)
      PROVE  WriteTrue'
      <2>1. /\ Accept(v) /\ stage \in Reads /\ UNCHANGED <<content, recent, clean>>
            /\ v \in recent \/ ~NoLate
            BY <1>7 DEF Accepts
      <2>2. CASE stage \in {"first", "current"}
            BY <2>1, <2>2 DEF Accept, CurrentRead, Ends, WriteTrue
      <2>3. CASE stage = "fresh" /\ v = current
            <3>1. Write
                  BY <2>1, <2>3 DEF Accept, FreshRead
            <3>2. clean => writes = {} /\ recent \subseteq {content}
                  BY <1>0, <2>3 DEF Undisturbed, Seen
            <3>3. clean => content = current
                  <4>1. CASE v \in recent
                        BY <2>3, <3>2, <4>1
                  <4>2. CASE ~NoLate
                        BY <1>0, <2>3, <4>2 DEF SeenTrue, Seen
                  <4>. QED
                        BY <2>1, <4>1, <4>2
            <3>. QED
                  BY <2>1, <3>1, <3>2, <3>3 DEF Write, WriteTrue
      <2>4. CASE stage = "fresh" /\ v # current
            BY <2>1, <2>4 DEF Accept, FreshRead, Fails, Ends, WriteTrue
      <2>5. CASE stage \in Verifying
            BY <1>1, <2>1, <2>5 DEF Accept, Verified, Reads
      <2>. QED
            BY <2>1, <2>2, <2>3, <2>4, <2>5 DEF Reads
<1>8. CASE UNCHANGED vars
      BY <1>1, <1>8 DEF vars
<1>. QED
      BY Steps, <1>2, <1>3, <1>4, <1>5, <1>6, <1>7, <1>8

\* A reply of the verifying queries that matches shows that the change is made.
LEMMA Confirms ==
    ASSUME IndInv, clean, stage \in Verifying, NEW v \in recent, Matches(v)
    PROVE  Made
<1>1. /\ op \in Operations /\ op.kind # "query" /\ Legal(current)
      /\ desired = Changed(current) /\ current \in Schedule
      BY DEF IndInv, OperationShape, TypeOK, Writing
<1>2. content \in {current, desired} /\ v \in {current, content}
      BY DEF IndInv, WriteTrue, Writing
<1>3. CASE content = current
      BY <1>1, <1>2, <1>3, MatchesUnchanged DEF Made
<1>. QED
      BY <1>2, <1>3 DEF Made

\* A clear empties the device, whenever it arrives.
LEMMA ClearEmpties ==
    ASSUME IndInv, stage \in Writing, op.kind = "clear"
    PROVE  \A s \in Slots : Empty(desired[s])
BY ChangedSchedule DEF IndInv, OperationShape, TypeOK

\* The first confirmation is true, or was the one late reply.
LEMMA OnceStep == ASSUME MaxDelayed <= 1, IndInv, [Next]_vars PROVE OnceTrue'
<1> USE DEF Verifying, wire, user
<1>0. OnceTrue /\ (NoLate => NoLate')
      BY LateOver DEF IndInv
<1>1. CASE UNCHANGED <<content, desired, op, clean>> /\ (stage' = stage \/ stage' # "verify2")
      BY <1>0, <1>1 DEF OnceTrue, Made
<1>2. CASE Answer
      BY <1>1, <1>2 DEF Answer
<1>3. CASE WriteArrives
      <2>1. /\ content' \in writes \cup {content}
            /\ UNCHANGED <<desired, op, stage, clean>>
            BY <1>3 DEF WriteArrives
      <2>2. clean /\ stage = "verify2" => writes \subseteq {desired}
            BY DEF IndInv, WriteTrue, Writing
      <2>. QED
            BY <1>0, <2>1, <2>2 DEF OnceTrue, Made
<1>4. CASE Aside
      BY <1>1, <1>4, Asides DEF Idle
<1>5. CASE Pick \/ Choose \/ Input \/ Settled
      BY <1>5 DEF Pick, Choose, Input, Settled, Fails, Ends, Query, OnceTrue
<1>6. ASSUME NEW v \in Schedule, Accepts(v)
      PROVE  OnceTrue'
      <2>1. /\ Accept(v) /\ stage \in Reads /\ UNCHANGED <<content, op, clean>>
            /\ v \in recent \/ NoLate'
            BY <1>6 DEF Accepts
      <2>2. CASE stage \notin Verifying
            BY <2>1, <2>2 DEF Accept, CurrentRead, FreshRead, Write, Fails, Ends, Reads, OnceTrue
      <2>3. CASE stage \in Verifying
            <3>1. Verified(v)
                  BY <2>1, <2>3 DEF Accept
            <3>2. CASE stage' # "verify2"
                  BY <3>2 DEF OnceTrue
            <3>3. CASE stage' = "verify2"
                  <4>1. Matches(v) /\ desired' = desired
                        BY <3>1, <3>3 DEF Verified, Fails, Ends
                  <4>2. clean /\ v \in recent => Made
                        BY <2>3, <4>1, Confirms
                  <4>3. Made => Made'
                        BY <2>1, <4>1 DEF Made
                  <4>. QED
                        BY <2>1, <4>2, <4>3 DEF OnceTrue
            <3>. QED
                  BY <3>2, <3>3
      <2>. QED
            BY <2>2, <2>3
<1>7. CASE UNCHANGED vars
      BY <1>1, <1>7 DEF vars
<1>. QED
      BY Steps, <1>2, <1>3, <1>4, <1>5, <1>6, <1>7

\* The second confirmation makes the report true.
LEMMA OkStep == ASSUME MaxDelayed <= 1, IndInv, [Next]_vars PROVE OkStays'
<1> USE DEF wire, user
<1>0. OkStays
      BY DEF IndInv
<1>1. CASE outcome' # "ok"
      BY <1>1 DEF OkStays
<1>2. CASE /\ UNCHANGED <<content, writes, desired, op, clean>>
           /\ outcome' = "ok" => outcome = "ok" /\ stage' \in {"menu", "ended"}
      BY <1>0, <1>2 DEF OkStays, Made
<1>3. CASE Answer
      BY <1>0, <1>2, <1>3 DEF Answer, OkStays
<1>4. CASE WriteArrives
      <2>1. /\ content' \in writes \cup {content} /\ writes' \subseteq writes
            /\ UNCHANGED <<desired, op, stage, clean, outcome>>
            BY <1>4 DEF WriteArrives
      <2>. QED
            BY <1>0, <2>1 DEF OkStays, Made
<1>5. CASE Aside
      BY <1>2, <1>5, Asides
<1>6. CASE Pick \/ Input \/ Settled
      BY <1>0, <1>1, <1>6 DEF Pick, Input, Settled, Fails, OkStays
<1>7. CASE Choose
      BY <1>1, <1>7 DEF Choose
<1>8. ASSUME NEW v \in Schedule, Accepts(v)
      PROVE  OkStays'
      <2>1. /\ Accept(v) /\ stage \in Reads /\ UNCHANGED <<content, op, clean>>
            /\ v \in recent \/ ~NoLate
            /\ outcome # "ok"
            BY <1>0, <1>8 DEF Accepts, OkStays, Reads
      <2>2. CASE stage \in {"first", "current", "fresh"}
            BY <1>0, <1>1, <2>1, <2>2
               DEF Accept, CurrentRead, FreshRead, Write, Fails, OkStays, Verifying
      <2>3. CASE stage \in Verifying
            <3>1. Verified(v) /\ UNCHANGED <<desired, writes>>
                  BY <2>1, <2>3 DEF Accept, Verified, Verifying
            <3>2. CASE ~(Matches(v) /\ stage = "verify2")
                  BY <1>0, <1>1, <2>1, <2>3, <3>1, <3>2
                     DEF Verified, Fails, OkStays, Verifying
            <3>3. CASE Matches(v) /\ stage = "verify2"
                  <4>1. stage' \in {"menu", "ended"}
                        BY <3>1, <3>3 DEF Verified, Succeeds, Ends
                  <4>2. clean => Made
                        <5>1. CASE v \in recent
                              BY <2>3, <3>3, <5>1, Confirms
                        <5>2. CASE ~NoLate
                              BY <3>3, <5>2 DEF IndInv, OnceTrue
                        <5>. QED
                              BY <2>1, <5>1, <5>2
                  <4>3. clean => writes \subseteq {desired}
                        BY <2>3 DEF IndInv, WriteTrue, Writing
                  <4>4. op.kind = "clear" => \A s \in Slots : Empty(desired[s])
                        BY <2>3, ClearEmpties DEF Writing
                  <4>. QED
                        BY <2>1, <3>1, <4>1, <4>2, <4>3, <4>4 DEF OkStays, Made
            <3>. QED
                  BY <3>2, <3>3
      <2>. QED
            BY <2>1, <2>2, <2>3 DEF Reads, Verifying
<1>9. CASE UNCHANGED vars
      BY <1>0, <1>2, <1>9 DEF vars, OkStays
<1>. QED
      BY Steps, <1>3, <1>4, <1>5, <1>6, <1>7, <1>8, <1>9

LEMMA StepInv == ASSUME MaxDelayed <= 1 PROVE IndInv /\ [Next]_vars => IndInv'
BY TypeStep, OperationStep, CommandStep, LateStep, UndisturbedStep, SeenStep, WriteStep,
   OnceStep, OkStep
   DEF IndInv

LEMMA Invariance == ASSUME MaxDelayed <= 1 PROVE Spec => []IndInv
BY InitInv, StepInv, PTL DEF Spec

-----------------------------------------------------------------------------
(* Theorems                                                                *)

\* A change writes all slots, and keeps those it does not name as the device has
\* them, though one of the replies it was made upon may be a late one
\* (352air_schedule_manager.py, write_and_verify).
THEOREM OtherSlotsKept == ASSUME MaxDelayed <= 1 PROVE Spec => []OthersKept
<1>1. IndInv => OthersKept
      <2> SUFFICES ASSUME IndInv, stage \in Writing, clean, op.kind # "clear",
                          NEW s \in Slots \ {op.slot}
                   PROVE  desired[s] = content[s]
          BY DEF OthersKept, Writing
      <2>1. /\ op \in Operations /\ op.kind # "query" /\ Legal(current)
            /\ desired = Changed(current) /\ current \in Schedule
            BY DEF IndInv, OperationShape, TypeOK
      <2>2. desired[s] = current[s]
            BY <2>1, ChangedSchedule
      <2>. QED
            BY <2>2 DEF IndInv, WriteTrue
<1>. QED
      BY <1>1, Invariance, PTL

\* A change that is reported as made is in the device and stays there, though one
\* of the two confirmations may be a late reply (352air_schedule_manager.py,
\* write_and_verify).
THEOREM ReportConfirmed == ASSUME MaxDelayed <= 1 PROVE Spec => []ConfirmedIsTrue
<1>1. IndInv => ConfirmedIsTrue
      BY DEF IndInv, OkStays, ConfirmedIsTrue, Made
<1>. QED
      BY <1>1, Invariance, PTL
=============================================================================
