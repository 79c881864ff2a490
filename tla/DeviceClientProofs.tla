------------------------- MODULE DeviceClientProofs -------------------------
(* Proofs about DeviceClient, for any sets of callers, closers, commands and *)
(* states and any numbers of attempts: its invariants, its silence after     *)
(* close, and that it implements CommandService.                             *)
EXTENDS ClientRefinement, SequenceTheorems, FiniteSetTheorems,
        WellFoundedInduction, TLAPS

-----------------------------------------------------------------------------
(* Types of the values and operators                                       *)

LEMMA ExchangeValues ==
    /\ NoExchange \in Exchanges
    /\ \A x \in Exchanges, s \in States :
        [x EXCEPT !.future = Answer(s)] \in Exchanges
    /\ \A x \in Exchanges, ph \in {"none", "gap", "wait", "expired"} :
        [x EXCEPT !.phase = ph] \in Exchanges
    /\ \A x \in Exchanges : [x EXCEPT !.attempt = @ + 1] \in Exchanges
    /\ \A r \in Requests, ph \in {"gap", "wait"} :
        [phase |-> ph, request |-> r, attempt |-> 1, future |-> Open,
         listed |-> TRUE] \in Exchanges
BY DEF NoExchange, Exchanges, Futures, Open, Answer, Requests

LEMMA OutcomeValues ==
    /\ \A k \in {"timeout", "closed", "invalid", "unavailable", "cancelled"} :
        Failure(k) \in Outcomes
    /\ \A r \in Requests, s \in States \cup {NoState} : Success(r, s) \in Outcomes
    /\ \A x \in Exchanges : Verdict(x) \in Outcomes
BY DEF Failure, Success, Verdict, Outcomes, Requests, Exchanges, Futures

LEMMA TasksFacts ==
    /\ Worker \in Tasks
    /\ Callers \subseteq Tasks
    /\ \A c \in Callers : c # Worker
    /\ \A p \in Tasks : p # Worker => p \in Callers
BY ClientAssumption DEF Tasks

\* Finish and Settle keep the types of pc and outcome.
LEMMA FinishTypes ==
    ASSUME TypeOK, NEW c \in Callers, NEW o \in Outcomes, Finish(c, o)
    PROVE  /\ pc' \in [Callers -> Positions]
           /\ outcome' \in [Callers -> Outcomes]
BY DEF TypeOK, Positions, Awaits, Finish

LEMMA SettleTypes ==
    ASSUME TypeOK, NEW w, NEW o \in Outcomes, Settle(w, o)
    PROVE  /\ pc' \in [Callers -> Positions]
           /\ outcome' \in [Callers -> Outcomes]
<1> DEFINE ws == {c \in Members(w) : pc[c] = "waiting"}
<1>1. /\ pc' = [c \in Callers |-> IF c \in ws THEN "done" ELSE pc[c]]
      /\ outcome' = [c \in Callers |-> IF c \in ws THEN o ELSE outcome[c]]
    BY DEF Settle
<1> HIDE DEF ws
<1>2. QED
    BY <1>1 DEF TypeOK, Positions, Awaits

LEMMA ConcludeTypes ==
    ASSUME TypeOK, NEW p \in Tasks, NEW o \in Outcomes, Conclude(p, o)
    PROVE  /\ pc' \in [Callers -> Positions]
           /\ outcome' \in [Callers -> Outcomes]
           /\ exchange' \in [Tasks -> Exchanges]
           /\ worker' \in {"none", "new", "fetch", "exchange", "settle",
                           "exit", "done"}
<1>1. exchange' \in [Tasks -> Exchanges]
    BY ExchangeValues DEF Conclude, TypeOK
<1>2. CASE p = Worker
    BY <1>1, <1>2, SettleTypes, TasksFacts DEF Conclude, TypeOK
<1>3. CASE p # Worker
    BY <1>1, <1>3, FinishTypes, TasksFacts DEF Conclude, TypeOK
<1>4. QED
    BY <1>2, <1>3

LEMMA AwaitAnswerTypes ==
    ASSUME TypeOK, NEW p \in Tasks, NEW x \in Exchanges, AwaitAnswer(p, x)
    PROVE  /\ pc' \in [Callers -> Positions]
           /\ outcome' \in [Callers -> Outcomes]
           /\ exchange' \in [Tasks -> Exchanges]
           /\ worker' \in {"none", "new", "fetch", "exchange", "settle",
                           "exit", "done"}
<1>1. CASE x.future = Open
    <2>1. [x EXCEPT !.phase = "wait"] \in Exchanges
        BY ExchangeValues
    <2>2. CASE exchange' = [exchange EXCEPT ![p] = [x EXCEPT !.phase = "wait"]]
               /\ UNCHANGED <<pc, outcome, worker>>
        BY <2>1, <2>2 DEF TypeOK
    <2>3. QED
        BY <1>1, <2>2 DEF AwaitAnswer
<1>2. CASE x.future # Open
    BY <1>2, ConcludeTypes, OutcomeValues DEF AwaitAnswer
<1>3. QED
    BY <1>1, <1>2

\* Coalescing keeps the entry's shape and only adds a waiter.
LEMMA QueueTypes ==
    ASSUME TypeOK, NEW c \in Callers, request[c] \in Commands
    PROVE  /\ Append(queue, [command |-> request[c], waiters |-> <<c>>])
                  \in Seq(Entries)
           /\ queue # <<>> => Coalesce(c) \in Seq(Entries)
<1>1. queue \in Seq(Entries)
    BY DEF TypeOK
<1>2. <<c>> \in Seq(Callers)
    OBVIOUS
<1>3. [command |-> request[c], waiters |-> <<c>>] \in Entries
    BY <1>2 DEF Entries
<1>4. Append(queue, [command |-> request[c], waiters |-> <<c>>]) \in Seq(Entries)
    BY <1>1, <1>3, AppendProperties
<1>5. ASSUME queue # <<>>
      PROVE  Coalesce(c) \in Seq(Entries)
    <2>1. Len(queue) \in 1..Len(queue)
        BY <1>1, <1>5, LenProperties, EmptySeq
    <2>2. queue[Len(queue)] \in Entries
        BY <1>1, <2>1, ElementOfSeq
    <2>3. Append(queue[Len(queue)].waiters, c) \in Seq(Callers)
        BY <2>2, AppendProperties DEF Entries
    <2>4. [command |-> request[c],
           waiters |-> Append(queue[Len(queue)].waiters, c)] \in Entries
        BY <2>3 DEF Entries
    <2>5. QED
        BY <1>1, <2>1, <2>4, ExceptSeq DEF Coalesce
<1>6. QED
    BY <1>4, <1>5

-----------------------------------------------------------------------------
(* Type correctness, one lemma per group of actions                        *)

LEMMA BeginRefreshTypes ==
    ASSUME TypeOK, NEW c \in Callers, BeginRefresh(c)
    PROVE  /\ pc' \in [Callers -> Positions]
           /\ outcome' \in [Callers -> Outcomes]
           /\ exchange' \in [Tasks -> Exchanges]
<1> DEFINE x == [phase |-> "wait", request |-> request[c], attempt |-> 1,
                 future |-> Open, listed |-> TRUE]
<1>1. CASE /\ exchange' = [exchange EXCEPT ![c] = x]
           /\ pc' = [pc EXCEPT ![c] = "refresh"]
           /\ UNCHANGED outcome
    <2>1. x \in Exchanges /\ c \in Tasks
        BY ExchangeValues, TasksFacts DEF TypeOK
    <2>2. QED
        BY <1>1, <2>1 DEF TypeOK, Positions, Awaits
<1>2. CASE Finish(c, Failure("unavailable")) /\ UNCHANGED exchange
    BY <1>2, FinishTypes, OutcomeValues DEF TypeOK
<1>3. QED
    BY <1>1, <1>2 DEF BeginRefresh

LEMMA ProceedTypes ==
    ASSUME TypeOK, NEW c \in Callers, Proceed(c)
    PROVE  /\ pc' \in [Callers -> Positions]
           /\ outcome' \in [Callers -> Outcomes]
           /\ exchange' \in [Tasks -> Exchanges]
<1>1. CASE /\ pc' \in {[pc EXCEPT ![c] = "enqueue"], [pc EXCEPT ![c] = "restart"]}
           /\ UNCHANGED <<outcome, exchange>>
    BY <1>1 DEF TypeOK, Positions, Awaits
<1>2. CASE BeginRefresh(c)
    BY <1>2, BeginRefreshTypes
<1>3. CASE Finish(c, Success(Poll, state)) /\ UNCHANGED exchange
    <2>1. Success(Poll, state) \in Outcomes
        BY OutcomeValues DEF TypeOK, Requests
    <2>2. QED
        BY <1>3, <2>1, FinishTypes DEF TypeOK
<1>4. QED
    BY <1>1, <1>2, <1>3 DEF Proceed

LEMMA CallerTypes ==
    ASSUME TypeOK, RequestPlaces, NEW c \in Callers,
           \/ \E r \in Offered : Call(c, r)
           \/ CallerStep(c)
           \/ Cancel(c)
    PROVE  TypeOK'
<1> USE DEF lifecycleVars, callerVars, workerVars, deviceVars
<1>1. CASE \E r \in Offered : Call(c, r)
    BY <1>1, ClientAssumption DEF Call, TypeOK, Positions, Awaits
<1>2. CASE Start(c)
    <2>1. CASE StartClosed(c)
        BY <1>2, <2>1, FinishTypes, OutcomeValues DEF Start, StartClosed, TypeOK
    <2>2. CASE StartAgain(c)
        BY <1>2, <2>2, ProceedTypes DEF Start, StartAgain, TypeOK
    <2>3. CASE StartBinding(c)
        BY <1>2, <2>3 DEF Start, StartBinding, TypeOK, Positions, Awaits
    <2>4. QED
        BY <1>2, <2>1, <2>2, <2>3 DEF Start
<1>3. CASE BindDone(c)
    BY <1>3, ProceedTypes DEF BindDone, TypeOK
<1>4. CASE BindFails(c)
    BY <1>4, FinishTypes, OutcomeValues DEF BindFails, TypeOK
<1>5. CASE Enqueue(c)
    <2>1. CASE closed
        BY <1>5, <2>1, FinishTypes, OutcomeValues DEF Enqueue, TypeOK
    <2>2. CASE ~closed
        <3>1. request[c] \in Commands
            BY <1>5 DEF Enqueue, RequestPlaces
        <3>2. queue' \in Seq(Entries)
            BY <1>5, <2>2, <3>1, QueueTypes DEF Enqueue, CanCoalesce
        <3>3. QED
            BY <1>5, <2>2, <3>2, ZenonT(60) DEF Enqueue, TypeOK, Positions, Awaits
    <2>3. QED
        BY <2>1, <2>2
<1>6. CASE Restart(c)
    BY <1>6, BeginRefreshTypes, FinishTypes, OutcomeValues DEF Restart, TypeOK
<1>7. CASE Cancel(c)
    BY <1>7, FinishTypes, OutcomeValues, ExchangeValues, TasksFacts, SMTT(60)
    DEF Cancel, TypeOK
<1>8. QED
    BY <1>1, <1>2, <1>3, <1>4, <1>5, <1>6, <1>7 DEF CallerStep

LEMMA ExchangeStepTypes ==
    ASSUME TypeOK, NEW p \in Tasks, ExchangeStep(p) \/ Expire(p)
    PROVE  TypeOK'
<1> USE DEF exchangeFrame, lifecycleVars, callerVars, deviceVars
<1>0. /\ exchange[p] \in Exchanges
      /\ Verdict(exchange[p]) \in Outcomes
      /\ [exchange[p] EXCEPT !.attempt = @ + 1] \in Exchanges
    BY ExchangeValues, OutcomeValues DEF TypeOK
<1>1. CASE SendQuery(p)
    BY <1>0, <1>1, ConcludeTypes, AwaitAnswerTypes, OutcomeValues
    DEF SendQuery, TypeOK
<1>2. CASE Resume(p)
    BY <1>0, <1>2, ConcludeTypes DEF Resume, TypeOK
<1>3. CASE Retry(p)
    <2> DEFINE again == [exchange[p] EXCEPT !.attempt = @ + 1]
    <2>1. [again EXCEPT !.phase = "gap"] \in Exchanges
        BY <1>0, ExchangeValues
    <2>2. CASE Conclude(p, Failure("closed")) \/ Conclude(p, Failure("unavailable"))
        BY <1>3, <2>2, ConcludeTypes, OutcomeValues DEF Retry, TypeOK
    <2>3. CASE /\ exchange' = [exchange EXCEPT ![p] = [again EXCEPT !.phase = "gap"]]
               /\ UNCHANGED <<pc, outcome, worker>>
        BY <1>3, <2>1, <2>3 DEF Retry, TypeOK
    <2>4. CASE AwaitAnswer(p, again)
        BY <1>0, <1>3, <2>4, AwaitAnswerTypes DEF Retry, TypeOK
    <2>5. QED
        BY <1>3, <2>2, <2>3, <2>4 DEF Retry
<1>4. CASE GiveUp(p)
    BY <1>4, ConcludeTypes, OutcomeValues DEF GiveUp, TypeOK
<1>5. CASE Expire(p)
    <2>1. [exchange[p] EXCEPT !.phase = "expired"] \in Exchanges
        BY <1>0, ExchangeValues
    <2>2. QED
        BY <1>5, <2>1 DEF Expire, TypeOK
<1>6. QED
    BY <1>1, <1>2, <1>3, <1>4, <1>5 DEF ExchangeStep

LEMMA WorkerTypes ==
    ASSUME TypeOK, WorkerStep
    PROVE  TypeOK'
<1> USE DEF lifecycleVars, callerVars, deviceVars
<1>1. CASE WorkerStart \/ WorkerSettle \/ WorkerExit
    BY <1>1, EmptySeq DEF WorkerStart, WorkerSettle, WorkerExit, TypeOK
<1>2. CASE WorkerFetch
    <2>1. CASE queue = <<>>
        BY <1>2, <2>1 DEF WorkerFetch, TypeOK
    <2>2. CASE queue # <<>>
        <3>1. Tail(queue) \in Seq(Entries) /\ Head(queue) \in Entries
            BY <2>2, HeadTailProperties DEF TypeOK
        <3>2. /\ Head(queue).waiters \in Seq(Callers)
              /\ Head(queue).command \in Requests
            BY <3>1 DEF Entries, Requests
        <3>3. /\ pc' \in [Callers -> Positions]
              /\ outcome' \in [Callers -> Outcomes]
              /\ exchange' \in [Tasks -> Exchanges]
              /\ worker' \in {"settle", "exchange"}
            <4>1. Execute(Head(queue))
                BY <1>2, <2>2 DEF WorkerFetch
            <4>2. CASE /\ \E o \in Outcomes : Settle(Head(queue).waiters, o)
                       /\ worker' = "settle"
                       /\ UNCHANGED exchange
                BY <4>2, SettleTypes DEF TypeOK
            <4>3. CASE /\ exchange' = [exchange EXCEPT ![Worker] =
                             [phase |-> "gap", request |-> Head(queue).command,
                              attempt |-> 1, future |-> Open, listed |-> TRUE]]
                       /\ worker' = "exchange"
                       /\ UNCHANGED <<pc, outcome>>
                <5>1. [phase |-> "gap", request |-> Head(queue).command,
                       attempt |-> 1, future |-> Open, listed |-> TRUE]
                           \in Exchanges
                    BY <3>2, ExchangeValues
                <5>2. QED
                    BY <4>3, <5>1, TasksFacts DEF TypeOK
            <4>4. QED
                BY <4>1, <4>2, <4>3, OutcomeValues DEF Execute
        <3>4. QED
            BY <1>2, <2>2, <3>1, <3>2, <3>3 DEF WorkerFetch, TypeOK
    <2>3. QED
        BY <2>1, <2>2
<1>3. CASE WorkerCancelled
    <2>1. CASE worker = "exchange"
        BY <1>3, <2>1, ConcludeTypes, OutcomeValues, TasksFacts
        DEF WorkerCancelled, TypeOK
    <2>2. CASE worker # "exchange"
        BY <1>3, <2>2, EmptySeq DEF WorkerCancelled, TypeOK
    <2>3. QED
        BY <2>1, <2>2
<1>4. QED
    BY <1>1, <1>2, <1>3 DEF WorkerStep

LEMMA ReceiveTypes ==
    ASSUME TypeOK, NEW s \in States, NEW kind, NEW matched,
           Receive(s, kind, matched)
    PROVE  TypeOK'
<1>1. exchange' \in [Tasks -> Exchanges]
    BY ExchangeValues DEF Receive, TypeOK
<1>2. QED
    BY <1>1
    DEF Receive, TypeOK, lifecycleVars, callerVars, workerVars

LEMMA CloseTypes ==
    ASSUME TypeOK, NEW k \in Closers, CloseCall(k) \/ CloseStep(k)
    PROVE  TypeOK'
<1> USE DEF callerVars, workerVars, deviceVars
<1>1. CASE CloseCall(k)
    BY <1>1 DEF CloseCall, TypeOK
<1>2. CASE CloseBegin(k)
    <2>1. \A x \in Exchanges, f \in Futures :
            [x EXCEPT !.listed = FALSE, !.future = f] \in Exchanges
        BY DEF Exchanges
    <2>2. \A p \in Tasks :
            exchange[p].future \in Futures /\ Failed \in Futures
        BY DEF TypeOK, Exchanges, Futures, Failed
    <2>3. ASSUME FailPending
          PROVE  exchange' \in [Tasks -> Exchanges]
        <3>1. ASSUME NEW p \in Tasks
              PROVE  [exchange[p] EXCEPT
                        !.listed = FALSE,
                        !.future = IF exchange[p].listed /\ exchange[p].future = Open
                                   THEN Failed ELSE exchange[p].future] \in Exchanges
            <4>1. exchange[p] \in Exchanges
                BY DEF TypeOK
            <4>2. (IF exchange[p].listed /\ exchange[p].future = Open
                   THEN Failed ELSE exchange[p].future) \in Futures
                BY <2>2
            <4>3. QED
                BY <2>1, <4>1, <4>2
        <3>2. QED
            BY <2>3, <3>1 DEF FailPending
    <2>4. QED
        BY <1>2, <2>3 DEF CloseBegin, TypeOK
<1>3. CASE CloseDrain(k)
    <2>1. \E failing : pc' = [c \in Callers |-> IF c \in failing THEN "done" ELSE pc[c]]
        BY <1>3 DEF CloseDrain
    <2>2. pc' \in [Callers -> Positions]
        BY <2>1 DEF TypeOK, Positions, Awaits
    <2>3. \E failing : outcome' = [c \in Callers |->
                IF c \in failing THEN Failure("closed") ELSE outcome[c]]
        BY <1>3 DEF CloseDrain
    <2>4. outcome' \in [Callers -> Outcomes]
        BY <2>3, OutcomeValues DEF TypeOK
    <2>5. queue' \in Seq(Entries)
        BY <1>3, EmptySeq DEF CloseDrain
    <2>6. QED
        BY <1>3, <2>2, <2>4, <2>5 DEF CloseDrain, TypeOK
<1>4. CASE CloseRelease(k)
    BY <1>4 DEF CloseRelease, TypeOK
<1>5. CASE CloseJoin(k)
    BY <1>5 DEF CloseJoin, TypeOK
<1>6. QED
    BY <1>1, <1>2, <1>3, <1>4, <1>5 DEF CloseStep

LEMMA TypeStep ==
    TypeOK /\ RequestPlaces /\ [Next]_vars => TypeOK'
<1> SUFFICES ASSUME TypeOK, RequestPlaces, [Next]_vars PROVE TypeOK'
    OBVIOUS
<1>1. CASE UNCHANGED vars
    BY <1>1 DEF vars, lifecycleVars, callerVars, workerVars, deviceVars, TypeOK
<1>2. QED
    BY <1>1, CallerTypes, ExchangeStepTypes, WorkerTypes, ReceiveTypes, CloseTypes
    DEF Next

-----------------------------------------------------------------------------
(* How the waits of commands move: the queue                                *)

\* A step that leaves requests alone and only ends calls keeps every other
\* call where it was.
OnlyEnds == /\ request' = request
            /\ \A d \in Callers : pc'[d] \in {pc[d], "done"}

LEMMA FinishEnds ==
    ASSUME TypeOK, NEW c \in Callers, NEW o, Finish(c, o)
    PROVE  /\ \A d \in Callers : pc'[d] \in {pc[d], "done"}
           /\ \A d \in Callers : d # c => pc'[d] = pc[d] /\ outcome'[d] = outcome[d]
           /\ pc'[c] = "done" /\ outcome'[c] = o
BY DEF Finish, TypeOK

LEMMA SettleEnds ==
    ASSUME TypeOK, NEW w, NEW o, Settle(w, o)
    PROVE  /\ \A d \in Callers : pc'[d] \in {pc[d], "done"}
           /\ \A d \in Callers : pc'[d] = "waiting" => d \notin Members(w)
           /\ \A d \in Callers :
                outcome'[d] # outcome[d] => d \in Members(w) /\ outcome'[d] = o
<1> DEFINE ws == {c \in Members(w) : pc[c] = "waiting"}
<1>1. /\ pc' = [c \in Callers |-> IF c \in ws THEN "done" ELSE pc[c]]
      /\ outcome' = [c \in Callers |-> IF c \in ws THEN o ELSE outcome[c]]
    BY DEF Settle
<1>2. \A d \in Callers : d \in ws <=> d \in Members(w) /\ pc[d] = "waiting"
    OBVIOUS
<1> HIDE DEF ws
<1>3. QED
    BY <1>1, <1>2

LEMMA ConcludeEnds ==
    ASSUME TypeOK, NEW p \in Tasks, NEW o, Conclude(p, o)
    PROVE  /\ \A d \in Callers : pc'[d] \in {pc[d], "done"}
           /\ p = Worker =>
                /\ worker' = "settle"
                /\ \A d \in Callers : pc'[d] = "waiting" => d \notin Members(current)
           /\ p # Worker => worker' = worker
<1>1. CASE p = Worker
    BY <1>1, SettleEnds, TasksFacts DEF Conclude
<1>2. CASE p # Worker
    BY <1>2, FinishEnds, TasksFacts DEF Conclude
<1>3. QED
    BY <1>1, <1>2

LEMMA ExchangeEnds ==
    ASSUME TypeOK, NEW p \in Tasks, ExchangeStep(p) \/ Expire(p)
    PROVE  /\ OnlyEnds
           /\ \/ worker' = worker
              \/ /\ worker' = "settle"
                 /\ \A d \in Callers : pc'[d] = "waiting" => d \notin Members(current)
           /\ UNCHANGED exchangeFrame
<1>1. UNCHANGED exchangeFrame /\ request' = request
    BY DEF ExchangeStep, SendQuery, Resume, Retry, GiveUp, Expire, exchangeFrame
<1>2. CASE UNCHANGED <<pc, outcome, worker>>
    BY <1>1, <1>2 DEF OnlyEnds
<1>3. CASE \E o : Conclude(p, o)
    BY <1>1, <1>3, ConcludeEnds DEF OnlyEnds
<1>4. UNCHANGED <<pc, outcome, worker>> \/ \E o : Conclude(p, o)
    BY DEF ExchangeStep, SendQuery, Resume, Retry, GiveUp, Expire, AwaitAnswer,
           callerVars
<1>5. QED
    BY <1>1, <1>2, <1>3, <1>4

LEMMA DrainEnds ==
    ASSUME TypeOK, NEW k \in Closers, CloseDrain(k)
    PROVE  /\ OnlyEnds
           /\ \A d \in Callers : pc'[d] = "waiting" => ~Queued(d)
           /\ \A d \in Callers :
                outcome'[d] # outcome[d] => outcome'[d] = Failure("closed")
<1> DEFINE doomed == (UNION {Members(queue[i].waiters) : i \in 1..Len(queue)})
                     \cup Members(active)
           failing == {c \in doomed : pc[c] = "waiting"}
<1>1. /\ pc' = [c \in Callers |-> IF c \in failing THEN "done" ELSE pc[c]]
      /\ outcome' = [c \in Callers |->
                IF c \in failing THEN Failure("closed") ELSE outcome[c]]
      /\ request' = request
    BY DEF CloseDrain
<1>2. \A d \in Callers : Queued(d) /\ pc[d] = "waiting" => d \in failing
    BY DEF Queued
<1> HIDE DEF failing
<1>3. QED
    BY <1>1, <1>2 DEF OnlyEnds

\* Where the waiters of the queue are after each of its updates.
LEMMA AppendMembers ==
    ASSUME NEW S, NEW s \in Seq(S), NEW e \in S
    PROVE  /\ \A i \in 1..Len(s) : i \in 1..Len(Append(s, e)) /\ Append(s, e)[i] = s[i]
           /\ Len(s) + 1 \in 1..Len(Append(s, e))
           /\ Append(s, e)[Len(s) + 1] = e
           /\ \A i \in 1..Len(Append(s, e)) : i \in 1..Len(s) \/ i = Len(s) + 1
           /\ Members(Append(s, e)) = Members(s) \cup {e}
<1>1. /\ \A i \in 1..Len(s) : i \in 1..Len(Append(s, e)) /\ Append(s, e)[i] = s[i]
      /\ Len(s) + 1 \in 1..Len(Append(s, e))
      /\ Append(s, e)[Len(s) + 1] = e
      /\ \A i \in 1..Len(Append(s, e)) : i \in 1..Len(s) \/ i = Len(s) + 1
    BY AppendProperties, LenProperties
<1>2. QED
    BY <1>1 DEF Members

LEMMA EnqueueKeepsQueued ==
    ASSUME TypeOK, NEW c \in Callers, request[c] \in Commands,
           queue' = IF CanCoalesce(c)
                    THEN Coalesce(c)
                    ELSE Append(queue, [command |-> request[c], waiters |-> <<c>>])
    PROVE  \A d \in Callers : Queued(d) \/ d = c => Queued(d)'
<1>1. queue \in Seq(Entries)
    BY DEF TypeOK
<1>2. CASE CanCoalesce(c)
    <2>1. queue # <<>> /\ queue' = Coalesce(c)
        BY <1>2 DEF CanCoalesce
    <2> DEFINE n == Len(queue)
               last == [command |-> request[c],
                        waiters |-> Append(queue[n].waiters, c)]
    <2>2. n \in 1..n
        BY <1>1, <2>1, LenProperties, EmptySeq
    <2>3. queue[n] \in Entries
        BY <1>1, <2>2, ElementOfSeq
    <2>4. Members(last.waiters) = Members(queue[n].waiters) \cup {c}
        BY <2>3, AppendMembers DEF Entries
    <2>5. /\ Len(queue') = n
          /\ \A i \in 1..n : queue'[i] = IF i = n THEN last ELSE queue[i]
        BY <1>1, <2>1, <2>2, LenProperties DEF Coalesce
    <2> HIDE DEF n, last
    <2>6. \A i \in 1..n : Members(queue[i].waiters) \subseteq Members(queue'[i].waiters)
        BY <2>4, <2>5
    <2>7. c \in Members(queue'[n].waiters)
        BY <2>2, <2>4, <2>5
    <2>8. QED
        BY <2>2, <2>5, <2>6, <2>7 DEF Queued, n
<1>3. CASE ~CanCoalesce(c)
    <2> DEFINE e == [command |-> request[c], waiters |-> <<c>>]
    <2>1. e \in Entries /\ queue' = Append(queue, e)
        BY <1>3 DEF Entries
    <2>2. c \in Members(e.waiters)
        BY DEF Members
    <2> HIDE DEF e
    <2>3. /\ \A i \in 1..Len(queue) : i \in 1..Len(queue') /\ queue'[i] = queue[i]
          /\ Len(queue) + 1 \in 1..Len(queue')
          /\ queue'[Len(queue) + 1] = e
        BY <1>1, <2>1, AppendMembers
    <2>4. QED
        BY <2>2, <2>3 DEF Queued
<1>4. QED
    BY <1>2, <1>3

LEMMA FetchKeepsQueued ==
    ASSUME TypeOK, queue # <<>>, queue' = Tail(queue)
    PROVE  \A d \in Callers :
                Queued(d) => d \in Members(Head(queue).waiters) \/ Queued(d)'
<1>1. queue \in Seq(Entries)
    BY DEF TypeOK
<1>2. /\ Len(queue') = Len(queue) - 1
      /\ \A i \in 1..Len(queue) : i # 1 =>
            i - 1 \in 1..Len(queue') /\ queue'[i - 1] = queue[i]
      /\ Head(queue) = queue[1]
    BY <1>1, LenProperties
<1>3. QED
    BY <1>2 DEF Queued

\* Nobody is queued in an empty queue.
LEMMA NobodyQueued ==
    ASSUME queue = <<>>, NEW d
    PROVE  ~Queued(d)
BY DEF Queued

-----------------------------------------------------------------------------
(* The invariant of the queue                                              *)

LEMMA CallerRequests ==
    ASSUME TypeOK, RequestPlaces, NEW c \in Callers,
           (\E r \in Offered : Call(c, r)) \/ CallerStep(c) \/ Cancel(c)
    PROVE  RequestPlaces'
<1> USE DEF lifecycleVars, callerVars, workerVars, deviceVars
<1>1. CASE \E r \in Offered : Call(c, r)
    BY <1>1 DEF Call, TypeOK, RequestPlaces
<1>2. CASE Finish(c, outcome'[c]) /\ request' = request
    BY <1>2, FinishEnds DEF RequestPlaces
<1>3. CASE Proceed(c) /\ request' = request
    BY <1>3 DEF Proceed, BeginRefresh, Finish, TypeOK, RequestPlaces
<1>4. CASE pc' = [pc EXCEPT ![c] = "bind"] /\ request' = request
    BY <1>4 DEF TypeOK, RequestPlaces
<1>5. CASE pc[c] = "enqueue" /\ pc' = [pc EXCEPT ![c] = "waiting"] /\ request' = request
    BY <1>5 DEF TypeOK, RequestPlaces
<1>6. ASSUME NEW o, Finish(c, o) PROVE Finish(c, outcome'[c])
    BY <1>6, FinishEnds DEF Finish, TypeOK
<1>7. CASE Start(c)
    BY <1>2, <1>3, <1>4, <1>6, <1>7
    DEF Start, StartClosed, StartAgain, StartBinding
<1>8. CASE BindDone(c) \/ BindFails(c) \/ Restart(c)
    <2>1. CASE BeginRefresh(c) /\ pc[c] = "restart" /\ request' = request
        BY <2>1 DEF BeginRefresh, Finish, TypeOK, RequestPlaces
    <2>2. QED
        BY <1>2, <1>3, <1>6, <1>8, <2>1 DEF BindDone, BindFails, Restart
<1>9. CASE Enqueue(c) \/ Cancel(c)
    BY <1>2, <1>5, <1>6, <1>9 DEF Enqueue, Cancel
<1>10. QED
    BY <1>1, <1>7, <1>8, <1>9 DEF CallerStep

LEMMA EndsKeepRequests ==
    TypeOK /\ RequestPlaces /\ OnlyEnds => RequestPlaces'
BY DEF TypeOK, RequestPlaces, OnlyEnds

LEMMA WorkerEnds ==
    ASSUME TypeOK, WorkerStep
    PROVE  OnlyEnds
<1> USE DEF lifecycleVars, callerVars, deviceVars, OnlyEnds
<1>1. CASE WorkerStart \/ WorkerSettle \/ WorkerExit
    BY <1>1 DEF WorkerStart, WorkerSettle, WorkerExit
<1>2. CASE WorkerFetch
    <2>1. CASE \E w, o : Settle(w, o)
        BY <1>2, <2>1, SettleEnds DEF WorkerFetch
    <2>2. CASE pc' = pc
        BY <1>2, <2>2 DEF WorkerFetch
    <2>3. QED
        BY <1>2, <2>1, <2>2 DEF WorkerFetch, Execute
<1>3. CASE WorkerCancelled
    BY <1>3, ConcludeEnds, TasksFacts DEF WorkerCancelled
<1>4. QED
    BY <1>1, <1>2, <1>3 DEF WorkerStep

LEMMA ReceiveEnds ==
    ASSUME NEW s, NEW kind, NEW matched, Receive(s, kind, matched)
    PROVE  OnlyEnds /\ UNCHANGED <<lifecycleVars, callerVars, workerVars>>
BY DEF Receive, lifecycleVars, callerVars, workerVars, OnlyEnds

LEMMA CloseEnds ==
    ASSUME TypeOK, NEW k \in Closers, CloseCall(k) \/ CloseStep(k)
    PROVE  OnlyEnds
<1>1. CASE CloseDrain(k)
    BY <1>1, DrainEnds
<1>2. CASE callerVars' = callerVars
    BY <1>2 DEF callerVars, OnlyEnds
<1>3. QED
    BY <1>1, <1>2
    DEF CloseStep, CloseCall, CloseBegin, CloseRelease, CloseJoin, callerVars

LEMMA RequestPlacesStep ==
    TypeOK /\ RequestPlaces /\ [Next]_vars => RequestPlaces'
<1> SUFFICES ASSUME TypeOK, RequestPlaces, [Next]_vars PROVE RequestPlaces'
    OBVIOUS
<1>1. CASE UNCHANGED vars
    BY <1>1 DEF vars, callerVars, RequestPlaces
<1>2. QED
    BY <1>1, CallerRequests, ExchangeEnds, WorkerEnds, ReceiveEnds, CloseEnds,
       EndsKeepRequests
    DEF Next

LEMMA ClosedQueueStep ==
    TypeOK /\ ClosedQueue /\ [Next]_vars => ClosedQueue'
<1> SUFFICES ASSUME TypeOK, ClosedQueue, [Next]_vars PROVE ClosedQueue'
    OBVIOUS
<1> USE DEF lifecycleVars, callerVars, workerVars, deviceVars
<1>1. CASE UNCHANGED <<closed, closing, queue, cancelled>>
    BY <1>1 DEF ClosedQueue
<1>2. ASSUME NEW c \in Callers, Enqueue(c)
      PROVE  ClosedQueue'
    BY <1>2 DEF Enqueue, ClosedQueue
<1>3. ASSUME NEW c \in Callers, (\E r \in Offered : Call(c, r)) \/ CallerStep(c) \/ Cancel(c)
      PROVE  ClosedQueue'
    BY <1>1, <1>2, <1>3
    DEF CallerStep, Call, Start, Restart, BindDone, BindFails, Cancel
<1>4. ASSUME NEW p \in Tasks, ExchangeStep(p) \/ Expire(p)
      PROVE  ClosedQueue'
    BY <1>1, <1>4, ExchangeEnds DEF exchangeFrame
<1>5. CASE WorkerStep
    <2>1. CASE WorkerFetch
        <3>1. closed' = closed /\ closing' = closing /\ cancelled' = cancelled
            BY <2>1 DEF WorkerFetch
        <3>2. queue' # <<>> => queue # <<>>
            BY <2>1 DEF WorkerFetch
        <3>3. QED
            BY <3>1, <3>2 DEF ClosedQueue
    <2>2. CASE WorkerCancelled
        BY <2>2 DEF WorkerCancelled, ClosedQueue
    <2>3. QED
        BY <1>1, <1>5, <2>1, <2>2 DEF WorkerStep, WorkerStart, WorkerSettle, WorkerExit
<1>6. ASSUME NEW s, NEW kind, NEW matched, Receive(s, kind, matched)
      PROVE  ClosedQueue'
    BY <1>1, <1>6, ReceiveEnds
<1>7. ASSUME NEW k \in Closers, CloseCall(k) \/ CloseStep(k)
      PROVE  ClosedQueue'
    <2>1. CASE CloseDrain(k)
        BY <2>1 DEF CloseDrain, ClosedQueue, TypeOK
    <2>2. CASE CloseBegin(k)
        BY <2>2 DEF CloseBegin, ClosedQueue, TypeOK
    <2>3. CASE CloseCall(k) \/ CloseRelease(k) \/ CloseJoin(k)
        <3>1. PICK x \in {"lock", "join", "done"} :
                closing' = [closing EXCEPT ![k] = x] /\ closing[k] # "drain"
            BY <2>3 DEF CloseCall, CloseRelease, CloseJoin
        <3>2. \A j \in Closers : closing'[j] = "drain" <=> closing[j] = "drain"
            BY <3>1 DEF TypeOK
        <3>3. UNCHANGED <<closed, queue, cancelled>>
            BY <2>3 DEF CloseCall, CloseRelease, CloseJoin
        <3>4. QED
            BY <3>2, <3>3 DEF ClosedQueue
    <2>4. QED
        BY <1>7, <2>1, <2>2, <2>3 DEF CloseStep
<1>8. QED
    BY <1>1, <1>3, <1>4, <1>5, <1>6, <1>7 DEF Next, vars

\* As long as calls only end and the queue's keepers stay, waiters keep theirs.
LEMMA WaitersKept ==
    ASSUME TypeOK, NoOrphanWaiter, OnlyEnds,
           UNCHANGED <<queue, current, cancelled, closing>>,
           \/ worker' = worker
           \/ /\ worker' = "settle"
              /\ \A d \in Callers : pc'[d] = "waiting" => d \notin Members(current)
    PROVE  NoOrphanWaiter'
<1>1. \A d \in Callers : pc'[d] = "waiting" => pc[d] = "waiting"
    BY DEF OnlyEnds
<1>2. \A d \in Callers : Queued(d)' <=> Queued(d)
    BY DEF Queued
<1>3. WorkerLive => WorkerLive'
    BY DEF WorkerLive
<1>4. QED
    BY <1>1, <1>2, <1>3 DEF NoOrphanWaiter

LEMMA CallerWaiters ==
    ASSUME QueueInv, NEW c \in Callers,
           (\E r \in Offered : Call(c, r)) \/ CallerStep(c) \/ Cancel(c)
    PROVE  NoOrphanWaiter'
<1> USE DEF lifecycleVars, callerVars, workerVars, deviceVars, QueueInv
<1>1. CASE Enqueue(c) /\ ~closed
    <2>1. request[c] \in Commands
        BY <1>1 DEF Enqueue, RequestPlaces
    <2>2. \A d \in Callers : Queued(d) \/ d = c => Queued(d)'
        BY <1>1, <2>1, EnqueueKeepsQueued DEF Enqueue
    <2>3. WorkerLive'
        BY <1>1 DEF Enqueue, ClosedQueue, WorkerLive
    <2>4. /\ \A d \in Callers : pc'[d] = "waiting" => pc[d] = "waiting" \/ d = c
          /\ worker = "exchange" => worker' = "exchange"
          /\ current' = current
        BY <1>1 DEF Enqueue, TypeOK
    <2>5. QED
        BY <2>2, <2>3, <2>4 DEF NoOrphanWaiter
<1>2. ASSUME UNCHANGED <<queue, worker, current, cancelled, closing>>,
             \A d \in Callers : pc'[d] = "waiting" => pc[d] = "waiting"
      PROVE  NoOrphanWaiter'
    BY <1>2 DEF NoOrphanWaiter, Queued, WorkerLive
<1>3. ASSUME NEW o, Finish(c, o)
      PROVE  \A d \in Callers : pc'[d] = "waiting" => pc[d] = "waiting"
    BY <1>3, FinishEnds
<1>4. ASSUME NEW x \in {"start", "bind", "restart", "enqueue", "refresh"}, pc' = [pc EXCEPT ![c] = x]
      PROVE  \A d \in Callers : pc'[d] = "waiting" => pc[d] = "waiting"
    BY <1>4 DEF TypeOK
<1>5. Proceed(c) => \A d \in Callers : pc'[d] = "waiting" => pc[d] = "waiting"
    BY <1>3, <1>4 DEF Proceed, BeginRefresh
<1>6. CASE \E r \in Offered : Call(c, r)
    BY <1>2, <1>4, <1>6 DEF Call
<1>7. CASE Start(c)
    BY <1>2, <1>3, <1>4, <1>5, <1>7 DEF Start, StartClosed, StartAgain, StartBinding
<1>8. CASE BindDone(c) \/ BindFails(c) \/ Cancel(c) \/ Restart(c)
    BY <1>2, <1>3, <1>4, <1>5, <1>8
    DEF BindDone, BindFails, Cancel, Restart, BeginRefresh
<1>9. CASE Enqueue(c) /\ closed
    BY <1>2, <1>3, <1>9 DEF Enqueue
<1>10. QED
    BY <1>1, <1>6, <1>7, <1>8, <1>9 DEF CallerStep

LEMMA WorkerWaiters ==
    ASSUME QueueInv, WorkerStep
    PROVE  NoOrphanWaiter'
<1> USE DEF lifecycleVars, callerVars, deviceVars, QueueInv
<1>1. \A d \in Callers : pc'[d] = "waiting" => pc[d] = "waiting"
    BY WorkerEnds DEF OnlyEnds
<1>2. \A d \in Callers : Queued(d) => queue # <<>>
    BY NobodyQueued
<1>3. CASE WorkerStart \/ WorkerSettle
    <2>1. \A d \in Callers : Queued(d)' <=> Queued(d)
        BY <1>3 DEF WorkerStart, WorkerSettle, Queued
    <2>2. worker # "exchange" /\ WorkerLive'
        BY <1>3 DEF WorkerStart, WorkerSettle, WorkerLive
    <2>3. QED
        BY <1>1, <2>1, <2>2 DEF NoOrphanWaiter
<1>4. CASE WorkerExit
    <2>1. \A d \in Callers : Queued(d)' <=> Queued(d)
        BY <1>4 DEF WorkerExit, Queued
    <2>2. worker # "exchange" /\ closing' = closing
        BY <1>4 DEF WorkerExit
    <2>3. CASE queue # <<>> /\ ~closed
        BY <1>1, <1>4, <2>1, <2>2, <2>3 DEF WorkerExit, WorkerLive, NoOrphanWaiter
    <2>4. CASE queue # <<>> /\ closed
        BY <1>1, <2>1, <2>2, <2>4 DEF ClosedQueue, NoOrphanWaiter
    <2>5. QED
        BY <1>1, <1>2, <2>2, <2>3, <2>4 DEF NoOrphanWaiter
<1>5. CASE WorkerFetch
    <2>1. worker # "exchange" /\ ~cancelled'
        BY <1>5 DEF WorkerFetch
    <2>2. CASE queue = <<>>
        BY <1>1, <1>2, <2>1, <2>2 DEF NoOrphanWaiter
    <2>3. CASE queue # <<>>
        <3>1. \A d \in Callers :
                Queued(d) => d \in Members(Head(queue).waiters) \/ Queued(d)'
            BY <1>5, <2>3, FetchKeepsQueued DEF WorkerFetch
        <3>2. Execute(Head(queue)) /\ current' = Head(queue).waiters
            BY <1>5, <2>3 DEF WorkerFetch
        <3>3. \/ worker' = "exchange"
              \/ /\ worker' = "settle"
                 /\ \A d \in Callers :
                        pc'[d] = "waiting" => d \notin Members(Head(queue).waiters)
            BY <3>2, SettleEnds DEF Execute
        <3>4. WorkerLive'
            BY <2>1, <3>3 DEF WorkerLive
        <3>5. QED
            BY <1>1, <2>1, <3>1, <3>2, <3>3, <3>4 DEF NoOrphanWaiter
    <2>4. QED
        BY <2>2, <2>3
<1>6. CASE WorkerCancelled
    <2>1. \A d \in Callers : Queued(d)' <=> Queued(d)
        BY <1>6 DEF WorkerCancelled, Queued
    <2>2. \A d \in Callers : Queued(d) => \E k \in Closers : closing'[k] = "drain"
        BY <1>2, <1>6 DEF WorkerCancelled, ClosedQueue
    <2>3. CASE worker # "exchange"
        BY <1>1, <2>1, <2>2, <2>3 DEF NoOrphanWaiter
    <2>4. CASE worker = "exchange"
        <3>1. \A d \in Callers : pc'[d] = "waiting" => d \notin Members(current)
            BY <1>6, <2>4, ConcludeEnds, TasksFacts DEF WorkerCancelled
        <3>2. QED
            BY <1>1, <2>1, <2>2, <3>1 DEF NoOrphanWaiter
    <2>5. QED
        BY <2>3, <2>4
<1>7. QED
    BY <1>3, <1>4, <1>5, <1>6 DEF WorkerStep

LEMMA CloseWaiters ==
    ASSUME QueueInv, NEW k \in Closers, CloseCall(k) \/ CloseStep(k)
    PROVE  NoOrphanWaiter'
<1> USE DEF callerVars, workerVars, deviceVars, QueueInv
<1>1. CASE CloseDrain(k)
    <2>1. \A d \in Callers :
            pc'[d] = "waiting" => pc[d] = "waiting" /\ ~Queued(d)
        BY <1>1, DrainEnds DEF OnlyEnds
    <2>2. worker' = worker /\ current' = current
        BY <1>1 DEF CloseDrain
    <2>3. QED
        BY <2>1, <2>2 DEF NoOrphanWaiter
<1>2. CASE ~CloseDrain(k)
    <2>1. /\ UNCHANGED <<pc, queue, worker, current, cancelled>>
          /\ \A j \in Closers : closing[j] = "drain" => closing'[j] = "drain"
        BY <1>2
        DEF CloseStep, CloseCall, CloseBegin, CloseRelease, CloseJoin, TypeOK
    <2>2. (\E j \in Closers : closing[j] = "drain")
            => \E j \in Closers : closing'[j] = "drain"
        BY <2>1
    <2>3. \A d \in Callers : Queued(d)' <=> Queued(d)
        BY <2>1 DEF Queued
    <2>4. WorkerLive' <=> WorkerLive
        BY <2>1 DEF WorkerLive
    <2>5. QED
        BY <2>1, <2>2, <2>3, <2>4 DEF NoOrphanWaiter
<1>3. QED
    BY <1>1, <1>2

LEMMA QueueStep == QueueInv /\ [Next]_vars => QueueInv'
<1> SUFFICES ASSUME QueueInv, [Next]_vars PROVE NoOrphanWaiter'
    BY TypeStep, RequestPlacesStep, ClosedQueueStep DEF QueueInv
<1>1. CASE UNCHANGED vars
    BY <1>1
    DEF vars, lifecycleVars, callerVars, workerVars, QueueInv, NoOrphanWaiter,
        Queued, WorkerLive
<1>2. ASSUME NEW p \in Tasks, ExchangeStep(p) \/ Expire(p)
      PROVE  NoOrphanWaiter'
    BY <1>2, ExchangeEnds, WaitersKept DEF QueueInv, exchangeFrame, lifecycleVars
<1>3. ASSUME NEW s, NEW kind, NEW matched, Receive(s, kind, matched)
      PROVE  NoOrphanWaiter'
    BY <1>3, ReceiveEnds, WaitersKept DEF QueueInv, lifecycleVars, workerVars
<1>4. QED
    BY <1>1, <1>2, <1>3, CallerWaiters, WorkerWaiters, CloseWaiters DEF Next

LEMMA QueueInit == Init => QueueInv
<1> SUFFICES ASSUME Init PROVE QueueInv
    OBVIOUS
<1>1. TypeOK
    BY ExchangeValues, ClientAssumption, EmptySeq
    DEF Init, TypeOK, Positions, Outcomes, Unsettled, Requests
<1>2. RequestPlaces /\ ClosedQueue /\ NoOrphanWaiter
    BY DEF Init, RequestPlaces, ClosedQueue, NoOrphanWaiter
<1>3. QED
    BY <1>1, <1>2 DEF QueueInv

LEMMA QueueInvariance == Spec => []QueueInv
BY QueueInit, QueueStep, PTL DEF Spec

\* The state keeps its types, whatever the callers, closers, commands and
\* numbers of attempts are.
THEOREM TypeCorrect == Spec => []TypeOK
<1>1. QueueInv => TypeOK
    BY DEF QueueInv
<1>2. QED
    BY <1>1, QueueInvariance, PTL

\* command() leaves no caller behind: an open future is always in the hands of
\* a worker that will run or of a close that will fail it (transport.py:296-333).
THEOREM NoCallerLeftBehind == Spec => []NoOrphanWaiter
<1>1. QueueInv => NoOrphanWaiter
    BY DEF QueueInv
<1>2. QED
    BY <1>1, QueueInvariance, PTL

-----------------------------------------------------------------------------
(* Lifecycle: one bind at a time, and silence after close()                *)

\* A step that leaves the lifecycle alone and starts no bind keeps both parts.
LEMMA LifecycleKept ==
    ASSUME Binders, HeldEndpoint, UNCHANGED lifecycleVars,
           \A d \in Callers : pc'[d] = "bind" => pc[d] = "bind"
    PROVE  Binders' /\ HeldEndpoint'
BY DEF lifecycleVars, Binders, HeldEndpoint

LEMMA CallerLifecycle ==
    ASSUME LifecycleInv, NEW c \in Callers,
           (\E r \in Offered : Call(c, r)) \/ CallerStep(c) \/ Cancel(c)
    PROVE  Binders' /\ HeldEndpoint'
<1> USE DEF LifecycleInv, QueueInv
<1>1. ASSUME NEW o, Finish(c, o)
      PROVE  \A d \in Callers : pc'[d] = "bind" => pc[d] = "bind"
    BY <1>1, FinishEnds
<1>2. ASSUME NEW x \in {"start", "restart", "enqueue", "waiting", "refresh"},
             pc' = [pc EXCEPT ![c] = x]
      PROVE  \A d \in Callers : pc'[d] = "bind" => pc[d] = "bind" /\ d # c
    BY <1>2 DEF TypeOK
<1>3. Proceed(c) => \A d \in Callers : pc'[d] = "bind" => pc[d] = "bind" /\ d # c
    <2>1. ASSUME NEW o, Finish(c, o)
          PROVE  \A d \in Callers : pc'[d] = "bind" => pc[d] = "bind" /\ d # c
        BY <2>1, FinishEnds
    <2>2. QED
        BY <1>2, <2>1 DEF Proceed, BeginRefresh
<1>4. CASE \E r \in Offered : Call(c, r)
    BY <1>2, <1>4, LifecycleKept DEF Call
<1>5. CASE Start(c)
    <2>1. CASE StartBinding(c)
        <3>1. /\ lifecycle = Nobody /\ lifecycle' = c /\ ~closed /\ ~started
              /\ \A d \in Callers : pc'[d] = "bind" => pc[d] = "bind" \/ d = c
              /\ UNCHANGED <<started, closed, endpoint, subscribed, closing>>
            BY <1>5, <2>1 DEF Start, StartBinding, TypeOK
        <3>2. QED
            BY <3>1, ClientAssumption DEF Binders, HeldEndpoint
    <2>2. CASE StartClosed(c) \/ StartAgain(c)
        BY <1>1, <1>3, <1>5, <2>2, LifecycleKept
        DEF Start, StartClosed, StartAgain, lifecycleVars
    <2>3. QED
        BY <1>5, <2>1, <2>2 DEF Start
<1>6. CASE Restart(c)
    BY <1>1, <1>2, <1>6, LifecycleKept DEF Restart, BeginRefresh
<1>7. CASE BindDone(c)
    <2>1. /\ pc[c] = "bind" /\ started' /\ endpoint' /\ subscribed'
          /\ closed' = closed /\ closing' = closing
          /\ \A d \in Callers : pc'[d] = "bind" => pc[d] = "bind" /\ d # c
        BY <1>3, <1>7 DEF BindDone
    <2>2. QED
        BY <2>1 DEF Binders, HeldEndpoint
<1>8. CASE BindFails(c) \/ (Cancel(c) /\ pc[c] = "bind")
    <2>1. /\ pc[c] = "bind"
          /\ \A d \in Callers : pc'[d] = "bind" => pc[d] = "bind" /\ d # c
          /\ UNCHANGED <<started, closed, endpoint, subscribed, closing>>
        BY <1>8, FinishEnds DEF BindFails, Cancel
    <2>2. QED
        BY <2>1 DEF Binders, HeldEndpoint
<1>9. CASE Cancel(c) /\ pc[c] # "bind"
    BY <1>1, <1>9, LifecycleKept DEF Cancel, lifecycleVars
<1>10. CASE Enqueue(c)
    BY <1>1, <1>2, <1>10, LifecycleKept DEF Enqueue
<1>11. QED
    BY <1>4, <1>5, <1>6, <1>7, <1>8, <1>9, <1>10 DEF CallerStep

LEMMA CloseLifecycle ==
    ASSUME LifecycleInv, NEW k \in Closers, CloseCall(k) \/ CloseStep(k)
    PROVE  Binders' /\ HeldEndpoint'
<1> USE DEF LifecycleInv, QueueInv, callerVars
<1>1. \A d \in Callers : pc'[d] = "bind" => pc[d] = "bind"
    BY CloseEnds DEF OnlyEnds
<1>2. CASE CloseCall(k) \/ CloseJoin(k)
    BY <1>1, <1>2 DEF CloseCall, CloseJoin, Binders, HeldEndpoint, TypeOK
<1>3. CASE CloseBegin(k)
    <2>1. CASE closed
        BY <1>1, <1>3, <2>1 DEF CloseBegin, Binders, HeldEndpoint, TypeOK
    <2>2. CASE ~closed
        BY <1>1, <1>3, <2>2, ClientAssumption
        DEF CloseBegin, Binders, HeldEndpoint, TypeOK
    <2>3. QED
        BY <2>1, <2>2
<1>4. CASE CloseDrain(k)
    <2>1. closed /\ closed' /\ ~endpoint'
        BY <1>4 DEF CloseDrain, ClosedQueue
    <2>2. QED
        BY <1>1, <2>1 DEF Binders, HeldEndpoint
<1>5. CASE CloseRelease(k)
    BY <1>1, <1>5 DEF CloseRelease, Binders, HeldEndpoint, TypeOK
<1>6. QED
    BY <1>2, <1>3, <1>4, <1>5 DEF CloseStep

LEMMA LifecycleStep == LifecycleInv /\ [Next]_vars => LifecycleInv'
<1> SUFFICES ASSUME LifecycleInv, [Next]_vars PROVE Binders' /\ HeldEndpoint'
    BY QueueStep DEF LifecycleInv
<1>1. ASSUME OnlyEnds, UNCHANGED lifecycleVars
      PROVE  Binders' /\ HeldEndpoint'
    BY <1>1, LifecycleKept DEF LifecycleInv, OnlyEnds
<1>2. CASE UNCHANGED vars
    BY <1>1, <1>2 DEF vars, callerVars, OnlyEnds
<1>3. ASSUME NEW p \in Tasks, ExchangeStep(p) \/ Expire(p)
      PROVE  Binders' /\ HeldEndpoint'
    BY <1>1, <1>3, ExchangeEnds DEF LifecycleInv, QueueInv, exchangeFrame
<1>4. CASE WorkerStep
    <2>1. UNCHANGED lifecycleVars
        BY <1>4 DEF WorkerStep, WorkerStart, WorkerFetch, WorkerSettle, WorkerExit,
                    WorkerCancelled
    <2>2. QED
        BY <1>1, <1>4, <2>1, WorkerEnds DEF LifecycleInv, QueueInv
<1>5. ASSUME NEW s, NEW kind, NEW matched, Receive(s, kind, matched)
      PROVE  Binders' /\ HeldEndpoint'
    BY <1>1, <1>5, ReceiveEnds
<1>6. QED
    BY <1>2, <1>3, <1>4, <1>5, CallerLifecycle, CloseLifecycle DEF Next

LEMMA LifecycleInvariance == Spec => []LifecycleInv
<1>1. Init => LifecycleInv
    BY QueueInit DEF Init, LifecycleInv, Binders, HeldEndpoint
<1>2. QED
    BY <1>1, LifecycleStep, PTL DEF Spec

\* Concurrent first calls bind once: start() holds the lifecycle lock from its
\* check of _started to the assignment of _endpoint (transport.py:157-173), so
\* nobody binds while a reference is held and no second bind overwrites one.
THEOREM BindsOnce == Spec => []OneSubscription
<1>1. LifecycleInv => OneSubscription
    <2> SUFFICES ASSUME LifecycleInv PROVE OneSubscription
        OBVIOUS
    <2> DEFINE B == {c \in Callers : pc[c] = "bind"}
    <2>1. B \subseteq {lifecycle}
        BY DEF LifecycleInv, Binders
    <2>2. IsFiniteSet({lifecycle}) /\ Cardinality({lifecycle}) = 1
        BY FS_Singleton
    <2>3. IsFiniteSet(B) /\ Cardinality(B) <= Cardinality({lifecycle})
        BY <2>1, <2>2, FS_Subset
    <2>4. Cardinality(B) <= 1
        BY <2>2, <2>3
    <2>5. QED
        BY <2>4 DEF LifecycleInv, Binders, HeldEndpoint, OneSubscription
<1>2. QED
    BY <1>1, LifecycleInvariance, PTL

\* What a step does to an exchange once close() has begun.
EndsOnly(p) ==
    /\ exchange'[p].attempt \in {exchange[p].attempt, 0}
    /\ exchange'[p].phase \in {exchange[p].phase, "expired", "none"}

Silent ==
    closed =>
        /\ state' = state
        /\ closed'
        /\ \A p \in Tasks :
            /\ exchange'[p].attempt \in {exchange[p].attempt, 0}
            /\ exchange'[p].phase \in {exchange[p].phase, "expired", "none"}

LEMMA UntouchedEnds ==
    ASSUME exchange' = exchange
    PROVE  \A p \in Tasks : EndsOnly(p)
BY DEF EndsOnly

LEMMA GoneEnds ==
    ASSUME TypeOK, NEW q \in Tasks,
           exchange' = [exchange EXCEPT ![q] = NoExchange]
    PROVE  \A p \in Tasks : EndsOnly(p)
BY DEF TypeOK, NoExchange, EndsOnly

LEMMA CallerSilence ==
    ASSUME LifecycleInv, closed, NEW c \in Callers,
           (\E r \in Offered : Call(c, r)) \/ CallerStep(c) \/ Cancel(c)
    PROVE  state' = state /\ closed' /\ \A p \in Tasks : EndsOnly(p)
<1> USE DEF lifecycleVars, deviceVars
<1>1. ~BindDone(c)
    BY DEF LifecycleInv, Binders, BindDone
<1>2. CASE Cancel(c)
    BY <1>2, GoneEnds, TasksFacts DEF Cancel, LifecycleInv, QueueInv
<1>3. CASE Start(c)
    BY <1>3, UntouchedEnds DEF Start, StartClosed, StartAgain, StartBinding
<1>4. CASE ~Cancel(c) /\ ~Start(c)
    BY <1>1, <1>4, UntouchedEnds DEF CallerStep, Call, Restart, BindFails, Enqueue
<1>5. QED
    BY <1>2, <1>3, <1>4

LEMMA ExchangeSilence ==
    ASSUME TypeOK, closed, NEW q \in Tasks, ExchangeStep(q) \/ Expire(q)
    PROVE  state' = state /\ closed' /\ \A p \in Tasks : EndsOnly(p)
<1>1. state' = state /\ closed'
    BY DEF ExchangeStep, SendQuery, Resume, Retry, GiveUp, Expire, exchangeFrame,
           lifecycleVars, deviceVars
<1>2. CASE Expire(q)
    BY <1>1, <1>2 DEF Expire, EndsOnly, TypeOK, Exchanges
<1>3. CASE ExchangeStep(q)
    <2>1. \E o : Conclude(q, o)
        BY <1>3 DEF ExchangeStep, SendQuery, Resume, Retry, GiveUp
    <2>2. QED
        BY <1>1, <2>1, GoneEnds DEF Conclude
<1>4. QED
    BY <1>2, <1>3

LEMMA WorkerSilence ==
    ASSUME TypeOK, closed, WorkerStep
    PROVE  state' = state /\ closed' /\ \A p \in Tasks : EndsOnly(p)
<1>1. state' = state /\ closed'
    BY DEF WorkerStep, WorkerStart, WorkerFetch, WorkerSettle, WorkerExit,
           WorkerCancelled, lifecycleVars, deviceVars
<1>2. exchange' = exchange \/ \E o : Conclude(Worker, o)
    BY DEF WorkerStep, WorkerStart, WorkerFetch, Execute, WorkerSettle, WorkerExit,
           WorkerCancelled
<1>3. QED
    BY <1>1, <1>2, UntouchedEnds, GoneEnds, TasksFacts DEF Conclude

LEMMA CloseSilence ==
    ASSUME closed, NEW k \in Closers, CloseCall(k) \/ CloseStep(k)
    PROVE  state' = state /\ closed' /\ \A p \in Tasks : EndsOnly(p)
BY UntouchedEnds
DEF CloseStep, CloseCall, CloseBegin, CloseDrain, CloseRelease, CloseJoin,
    deviceVars

LEMMA SilentStep == LifecycleInv /\ [Next]_vars => Silent
<1> SUFFICES ASSUME LifecycleInv, closed, [Next]_vars
             PROVE  state' = state /\ closed' /\ \A p \in Tasks : EndsOnly(p)
    BY DEF Silent, EndsOnly
<1>1. TypeOK
    BY DEF LifecycleInv, QueueInv
<1>2. CASE UNCHANGED vars
    BY <1>2, UntouchedEnds DEF vars, lifecycleVars, deviceVars
<1>3. ASSUME NEW s, NEW kind, NEW matched
      PROVE  ~Receive(s, kind, matched)
    BY DEF Receive
<1>4. QED
    BY <1>1, <1>2, <1>3, CallerSilence, ExchangeSilence, WorkerSilence, CloseSilence
    DEF Next

\* close() silences the client: after _closed is set no step opens or repeats an
\* exchange and no datagram changes the state, although callers, the worker and
\* timers still run (transport.py:175-209, 376, 412, 421).
THEOREM ClosedIsSilent == Spec => SilentAfterClose
<1>1. LifecycleInv /\ [Next]_vars => [Silent]_vars
    BY SilentStep
<1>2. Spec => [][Silent]_vars
    BY <1>1, LifecycleInvariance, PTL DEF Spec
<1>3. QED
    BY <1>2 DEF SilentAfterClose, Silent

-----------------------------------------------------------------------------
(* Success: what a caller is told has been confirmed                       *)

\* An exchange of task p for request r that has just begun.
Opened(p, r) ==
    /\ exchange'[p].phase # "none"
    /\ exchange'[p].request = r
    /\ exchange'[p].future = Open

\* A step of a caller concerns nobody else.  It is not told of a success,
\* unless it polled, and it opens an exchange only to wait for it.
CallerMove(c) ==
    /\ \A d \in Callers : d # c => /\ pc'[d] = pc[d]
                                 /\ outcome'[d] = outcome[d]
                                 /\ request'[d] = request[d]
    /\ \A p \in Tasks : p # c => exchange'[p] = exchange[p]
    /\ pc[c] # "done" /\ pc'[c] # "idle"
    /\ pc[c] # "idle" => request'[c] = request[c]
    /\ \/ outcome'[c] = outcome[c]
       \/ /\ pc'[c] = "done" /\ request'[c] = request[c]
          /\ outcome'[c].kind = "ok" => request[c] = Poll
    /\ \/ exchange'[c] = exchange[c] /\ pc[c] # "refresh"
       \/ exchange'[c] = NoExchange
       \/ Opened(c, request'[c]) /\ pc'[c] = "refresh"
    /\ current' = current
    /\ worker' = worker \/ (worker \in {"none", "done"} /\ worker' = "new")

LEMMA FinishMove ==
    ASSUME TypeOK, NEW c \in Callers, NEW o, Finish(c, o),
           exchange' = exchange, pc[c] \notin {"idle", "done", "refresh"},
           UNCHANGED <<request, current, worker>>,
           o.kind = "ok" => request[c] = Poll
    PROVE  CallerMove(c)
<1>1. /\ \A d \in Callers : d # c => pc'[d] = pc[d] /\ outcome'[d] = outcome[d]
      /\ pc'[c] = "done" /\ outcome'[c] = o
    BY FinishEnds
<1>2. /\ \A p \in Tasks : p # c => exchange'[p] = exchange[p]
      /\ \/ exchange'[c] = exchange[c] /\ pc[c] # "refresh"
         \/ exchange'[c] = NoExchange
    BY TasksFacts DEF TypeOK
<1>3. QED
    BY <1>1, <1>2 DEF CallerMove

\* A caller that moves on to another await, its exchange untouched.
LEMMA AwaitMove ==
    ASSUME TypeOK, NEW c \in Callers, NEW x \in Awaits,
           pc' = [pc EXCEPT ![c] = x],
           pc[c] \notin {"done", "refresh"},
           \A d \in Callers : d # c \/ pc[c] # "idle" => request'[d] = request[d],
           UNCHANGED <<outcome, exchange, current>>,
           worker' = worker \/ (worker \in {"none", "done"} /\ worker' = "new")
    PROVE  CallerMove(c)
BY DEF TypeOK, Awaits, CallerMove

LEMMA BeginMove ==
    ASSUME TypeOK, NEW c \in Callers, BeginRefresh(c),
           pc[c] \in {"start", "bind", "restart"},
           UNCHANGED <<request, current, worker>>
    PROVE  CallerMove(c)
<1>1. CASE Finish(c, Failure("unavailable")) /\ UNCHANGED exchange
    BY <1>1, FinishMove DEF Failure
<1>2. CASE /\ exchange' = [exchange EXCEPT ![c] =
                  [phase |-> "wait", request |-> request[c], attempt |-> 1,
                   future |-> Open, listed |-> TRUE]]
           /\ pc' = [pc EXCEPT ![c] = "refresh"]
           /\ UNCHANGED outcome
    <2>1. Opened(c, request'[c]) /\ \A p \in Tasks : p # c => exchange'[p] = exchange[p]
        BY <1>2, TasksFacts DEF TypeOK, Opened
    <2>2. pc'[c] = "refresh" /\ \A d \in Callers : d # c => pc'[d] = pc[d]
        BY <1>2 DEF TypeOK
    <2>3. QED
        BY <1>2, <2>1, <2>2 DEF CallerMove
<1>3. QED
    BY <1>1, <1>2 DEF BeginRefresh

LEMMA CallerMoves ==
    ASSUME TypeOK, NEW c \in Callers,
           (\E r \in Offered : Call(c, r)) \/ CallerStep(c) \/ Cancel(c)
    PROVE  CallerMove(c)
<1> USE DEF lifecycleVars, workerVars, deviceVars
<1>1. Failure("closed").kind # "ok" /\ Failure("unavailable").kind # "ok"
      /\ Failure("cancelled").kind # "ok"
    BY DEF Failure
<1>2. ASSUME Proceed(c), pc[c] \in {"start", "bind"},
             UNCHANGED <<request, current, worker>>
      PROVE  CallerMove(c)
    <2>1. CASE /\ pc' \in {[pc EXCEPT ![c] = "enqueue"], [pc EXCEPT ![c] = "restart"]}
               /\ UNCHANGED <<outcome, exchange>>
        BY <1>2, <2>1, AwaitMove DEF Awaits
    <2>2. CASE request[c] = Poll /\ Finish(c, Success(Poll, state)) /\ UNCHANGED exchange
        BY <1>2, <2>2, FinishMove
    <2>3. QED
        BY <1>2, <2>1, <2>2, BeginMove DEF Proceed
<1>3. CASE \E r \in Offered : Call(c, r)
    <2>1. PICK r \in Offered : Call(c, r)
        BY <1>3
    <2>2. \A d \in Callers : d # c => request'[d] = request[d]
        BY <2>1 DEF Call, TypeOK
    <2>3. QED
        BY <2>1, <2>2, AwaitMove DEF Call, Awaits
<1>4. CASE Start(c)
    BY <1>1, <1>2, <1>4, FinishMove, AwaitMove
    DEF Start, StartClosed, StartAgain, StartBinding, Awaits
<1>5. CASE Restart(c)
    BY <1>1, <1>5, FinishMove, BeginMove DEF Restart
<1>6. CASE BindDone(c)
    BY <1>2, <1>6 DEF BindDone
<1>7. CASE BindFails(c)
    BY <1>1, <1>7, FinishMove DEF BindFails
<1>8. CASE Enqueue(c)
    BY <1>1, <1>8, FinishMove, AwaitMove DEF Enqueue, Awaits
<1>9. CASE Cancel(c)
    <2>1. pc[c] \notin {"idle", "done"}
        BY <1>9 DEF Cancel, Awaits
    <2>2. /\ exchange'[c] = NoExchange
          /\ \A p \in Tasks : p # c => exchange'[p] = exchange[p]
        BY <1>9, TasksFacts DEF Cancel, TypeOK
    <2>3. /\ \A d \in Callers : d # c => pc'[d] = pc[d] /\ outcome'[d] = outcome[d]
          /\ pc'[c] = "done" /\ outcome'[c] = Failure("cancelled")
        BY <1>9, FinishEnds DEF Cancel
    <2>4. QED
        BY <1>1, <1>9, <2>1, <2>2, <2>3 DEF Cancel, CallerMove
<1>10. QED
    BY <1>3, <1>4, <1>5, <1>6, <1>7, <1>8, <1>9 DEF CallerStep

\* What an exchange may become when no exchange of its task begins: it ends or
\* stays, and an answer it gets is a state that confirms its request.
Kept(p) ==
    \/ exchange'[p] = NoExchange
    \/ /\ exchange'[p].request = exchange[p].request
       /\ exchange[p].phase = "none" => exchange'[p].phase = "none"
       /\ exchange'[p].future.kind = "answer" =>
            \/ exchange'[p].future = exchange[p].future
            \/ /\ exchange'[p].future.state \in States
               /\ Confirms(exchange[p].request, exchange'[p].future.state)

\* Only a call that waits for something is ended, and a caller is told of a
\* success only by what resolved its own exchange or that of its command.
Told(d) ==
    \/ outcome'[d] = outcome[d] /\ pc'[d] = pc[d]
    \/ /\ pc[d] \in {"waiting", "refresh"} /\ pc'[d] = "done"
       /\ pc[d] = "refresh" => exchange'[d] = NoExchange
       /\ outcome'[d].kind = "ok" =>
            \/ pc[d] = "refresh"
            \/ /\ d \in Members(current)
               /\ exchange[Worker].phase # "none"
               /\ exchange[Worker].future.kind = "answer"
               /\ outcome'[d] = Success(exchange[Worker].request,
                                       exchange[Worker].future.state)

LEMMA SettleTold ==
    ASSUME TypeOK, NEW w, NEW o, Settle(w, o), NEW d \in Callers
    PROVE  \/ outcome'[d] = outcome[d] /\ pc'[d] = pc[d]
           \/ d \in Members(w) /\ pc[d] = "waiting" /\ pc'[d] = "done" /\ outcome'[d] = o
<1> DEFINE ws == {c \in Members(w) : pc[c] = "waiting"}
<1>1. /\ pc' = [c \in Callers |-> IF c \in ws THEN "done" ELSE pc[c]]
      /\ outcome' = [c \in Callers |-> IF c \in ws THEN o ELSE outcome[c]]
    BY DEF Settle
<1>2. d \in ws <=> d \in Members(w) /\ pc[d] = "waiting"
    OBVIOUS
<1> HIDE DEF ws
<1>3. QED
    BY <1>1, <1>2

LEMMA ConcludeTold ==
    ASSUME TypeOK, NEW p \in Tasks, NEW o, Conclude(p, o),
           exchange[p].phase # "none",
           p # Worker => pc[p] = "refresh",
           o.kind = "ok" => o = Verdict(exchange[p])
    PROVE  /\ \A d \in Callers : Told(d)
           /\ \A q \in Tasks : Kept(q)
           /\ exchange'[p] = NoExchange
           /\ p = Worker => worker' = "settle"
           /\ p # Worker => worker' = worker /\ exchange'[Worker] = exchange[Worker]
<1>1. /\ exchange'[p] = NoExchange /\ \A q \in Tasks : Kept(q)
      /\ p # Worker => exchange'[Worker] = exchange[Worker]
    BY TasksFacts DEF Conclude, TypeOK, Kept
<1>2. o.kind = "ok" => /\ exchange[p].future.kind = "answer"
                       /\ o = Success(exchange[p].request, exchange[p].future.state)
    BY DEF Verdict, Failure
<1>3. CASE p = Worker
    <2>1. Settle(current, o) /\ worker' = "settle"
        BY <1>3, TasksFacts DEF Conclude
    <2>2. \A d \in Callers : Told(d)
        BY <1>2, <1>3, <2>1, SettleTold DEF Told
    <2>3. QED
        BY <1>1, <1>3, <2>1, <2>2
<1>4. CASE p # Worker
    <2>1. p \in Callers /\ Finish(p, o) /\ worker' = worker
        BY <1>4, TasksFacts DEF Conclude
    <2>2. \A d \in Callers : d # p => outcome'[d] = outcome[d] /\ pc'[d] = pc[d]
        BY <2>1, FinishEnds
    <2>3. pc[p] = "refresh" /\ pc'[p] = "done"
        BY <1>4, <2>1, FinishEnds
    <2>4. QED
        BY <1>1, <1>4, <2>1, <2>2, <2>3 DEF Told
<1>5. QED
    BY <1>3, <1>4

\* The worker goes on with the same request, or settles an ended exchange.
WorkerKept ==
    \/ worker' = worker /\ exchange'[Worker].request = exchange[Worker].request
    \/ worker' = "settle" /\ exchange'[Worker] = NoExchange

\* A step of an exchange ends it or keeps its request and future.
LEMMA ExchangeMoves ==
    ASSUME TypeOK, ExchangeOwners, NEW p \in Tasks, ExchangeStep(p) \/ Expire(p)
    PROVE  /\ UNCHANGED <<request, queue, current>>
           /\ \A d \in Callers : Told(d)
           /\ \A q \in Tasks : Kept(q)
           /\ WorkerKept
<1>1. UNCHANGED <<request, queue, current>>
    BY DEF ExchangeStep, SendQuery, Resume, Retry, GiveUp, Expire, exchangeFrame
<1>2. exchange[p].phase # "none"
    BY DEF ExchangeStep, SendQuery, Resume, Retry, GiveUp, Expire
<1>3. p # Worker => pc[p] = "refresh"
    BY <1>2, TasksFacts DEF ExchangeOwners
<1>4. ASSUME NEW o, Conclude(p, o), o.kind = "ok" => o = Verdict(exchange[p])
      PROVE  /\ \A d \in Callers : Told(d)
             /\ \A q \in Tasks : Kept(q)
             /\ WorkerKept
    BY <1>2, <1>3, <1>4, ConcludeTold DEF WorkerKept
<1>5. ASSUME NEW y, exchange' = [exchange EXCEPT ![p] = y],
             y.request = exchange[p].request, y.future = exchange[p].future,
             UNCHANGED <<pc, outcome, worker>>
      PROVE  /\ \A d \in Callers : Told(d)
             /\ \A q \in Tasks : Kept(q)
             /\ WorkerKept
    BY <1>2, <1>5, TasksFacts DEF TypeOK, Told, Kept, WorkerKept
<1>6. \A k \in {"closed", "unavailable", "timeout"} : Failure(k).kind # "ok"
    BY DEF Failure
<1> DEFINE again == [exchange[p] EXCEPT !.attempt = @ + 1]
<1>7. exchange[p] \in Exchanges
    BY DEF TypeOK
<1>8. /\ again \in Exchanges
      /\ again.request = exchange[p].request /\ again.future = exchange[p].future
      /\ Verdict(again) = Verdict(exchange[p])
    BY <1>7, ExchangeValues DEF Exchanges, Verdict
<1>9. \A x \in Exchanges, ph \in {"wait", "gap", "expired"} :
            /\ [x EXCEPT !.phase = ph].request = x.request
            /\ [x EXCEPT !.phase = ph].future = x.future
    BY DEF Exchanges
<1>10. ASSUME NEW x \in Exchanges, AwaitAnswer(p, x),
              x.request = exchange[p].request, x.future = exchange[p].future,
              Verdict(x) = Verdict(exchange[p])
       PROVE  /\ \A d \in Callers : Told(d)
              /\ \A q \in Tasks : Kept(q)
              /\ WorkerKept
    BY <1>4, <1>5, <1>9, <1>10 DEF AwaitAnswer
<1>11. CASE SendQuery(p)
    BY <1>1, <1>4, <1>6, <1>7, <1>10, <1>11 DEF SendQuery
<1>12. CASE Resume(p)
    BY <1>1, <1>4, <1>12 DEF Resume
<1>13. CASE Retry(p)
    <2>1. CASE \E k \in {"closed", "unavailable"} : Conclude(p, Failure(k))
        BY <1>1, <1>4, <1>6, <2>1
    <2>2. CASE /\ exchange' = [exchange EXCEPT ![p] = [again EXCEPT !.phase = "gap"]]
               /\ UNCHANGED <<pc, outcome, worker>>
        <3>1. /\ [again EXCEPT !.phase = "gap"].request = exchange[p].request
              /\ [again EXCEPT !.phase = "gap"].future = exchange[p].future
            BY <1>8, <1>9
        <3> HIDE DEF again
        <3>2. QED
            BY <1>1, <1>5, <2>2, <3>1
    <2>3. CASE AwaitAnswer(p, again)
        <3> HIDE DEF again
        <3>1. QED
            BY <1>1, <1>8, <1>10, <2>3
    <2>4. QED
        BY <1>13, <2>1, <2>2, <2>3 DEF Retry
<1>14. CASE GiveUp(p)
    BY <1>1, <1>4, <1>6, <1>14 DEF GiveUp
<1>15. CASE Expire(p)
    <2>1. exchange' = [exchange EXCEPT ![p] = [exchange[p] EXCEPT !.phase = "expired"]]
        BY <1>15 DEF Expire, TypeOK
    <2>2. QED
        BY <1>1, <1>5, <1>7, <1>9, <1>15, <2>1 DEF Expire, callerVars
<1>16. QED
    BY <1>11, <1>12, <1>13, <1>14, <1>15 DEF ExchangeStep

LEMMA WorkerMoves ==
    ASSUME TypeOK, ExchangeOwners, WorkerStep
    PROVE  /\ request' = request
           /\ \A d \in Callers : Told(d)
           /\ \A c \in Callers : exchange'[c] = exchange[c]
           /\ \/ /\ worker' # "exchange"
                 /\ exchange'[Worker] = NoExchange \/ exchange'[Worker] = exchange[Worker]
                 /\ exchange'[Worker].phase = "none"
                 /\ queue' = queue \/ (queue # <<>> /\ queue' = Tail(queue))
              \/ /\ worker' = "exchange" /\ queue # <<>>
                 /\ queue' = Tail(queue)
                 /\ current' = Head(queue).waiters
                 /\ Head(queue).command \in Commands \ Invalid
                 /\ Opened(Worker, Head(queue).command)
<1> USE DEF lifecycleVars, callerVars, deviceVars
<1>1. worker # "exchange" => exchange[Worker].phase = "none"
    BY DEF ExchangeOwners
<1>2. UNCHANGED <<pc, outcome>> => \A d \in Callers : Told(d)
    BY DEF Told
<1>3. CASE WorkerStart \/ WorkerSettle \/ WorkerExit
    BY <1>1, <1>2, <1>3 DEF WorkerStart, WorkerSettle, WorkerExit
<1>4. CASE WorkerFetch
    <2>1. CASE queue = <<>>
        BY <1>1, <1>2, <1>4, <2>1 DEF WorkerFetch
    <2>2. CASE queue # <<>>
        <3> DEFINE e == Head(queue)
        <3>1. Execute(e) /\ worker = "fetch" /\ request' = request
              /\ queue' = Tail(queue) /\ current' = e.waiters
            BY <1>4, <2>2 DEF WorkerFetch
        <3>2. e.command \in Commands
            <4>1. e \in Entries
                BY <2>2, HeadTailProperties DEF TypeOK
            <4>2. QED
                BY <4>1 DEF Entries
        <3>3. CASE /\ \E k \in {"closed", "invalid", "unavailable"} :
                        Settle(e.waiters, Failure(k))
                   /\ worker' = "settle"
                   /\ UNCHANGED exchange
            <4>1. \A k \in {"closed", "invalid", "unavailable"} : Failure(k).kind # "ok"
                BY DEF Failure
            <4>2. \A d \in Callers : Told(d)
                BY <3>3, <4>1, SettleTold DEF Told
            <4>3. QED
                BY <1>1, <2>2, <3>1, <3>3, <4>2
        <3>4. CASE /\ e.command \notin Invalid
                   /\ exchange' = [exchange EXCEPT ![Worker] =
                          [phase |-> "gap", request |-> e.command, attempt |-> 1,
                           future |-> Open, listed |-> TRUE]]
                   /\ worker' = "exchange"
                   /\ UNCHANGED <<pc, outcome>>
            <4>1. Opened(Worker, e.command)
                BY <3>4, TasksFacts DEF TypeOK, Opened
            <4>2. \A c \in Callers : exchange'[c] = exchange[c]
                BY <3>4, TasksFacts DEF TypeOK
            <4>3. QED
                BY <1>2, <2>2, <3>1, <3>2, <3>4, <4>1, <4>2
        <3>5. QED
            BY <3>1, <3>3, <3>4 DEF Execute
    <2>3. QED
        BY <2>1, <2>2
<1>5. CASE WorkerCancelled
    <2>1. CASE worker = "exchange"
        <3>1. Conclude(Worker, Failure("closed")) /\ request' = request /\ queue' = queue
            BY <1>5, <2>1 DEF WorkerCancelled
        <3>2. exchange' = [exchange EXCEPT ![Worker] = NoExchange] /\ worker' = "settle"
            BY <3>1, TasksFacts DEF Conclude
        <3>3. /\ exchange'[Worker] = NoExchange
              /\ \A c \in Callers : exchange'[c] = exchange[c]
            BY <3>2, TasksFacts DEF TypeOK
        <3>4. \A d \in Callers : Told(d)
            BY <3>1, SettleTold, TasksFacts DEF Conclude, Told, Failure
        <3>5. exchange'[Worker].phase = "none"
            BY <3>3 DEF NoExchange
        <3>6. QED
            BY <3>1, <3>2, <3>3, <3>4, <3>5
    <2>2. CASE worker # "exchange"
        <3>1. /\ UNCHANGED <<pc, outcome, exchange, request, queue>>
              /\ worker' \in {"done", "exit"}
            BY <1>5, <2>2 DEF WorkerCancelled
        <3>2. QED
            BY <1>1, <1>2, <2>2, <3>1
    <2>3. QED
        BY <2>1, <2>2
<1>6. QED
    BY <1>3, <1>4, <1>5 DEF WorkerStep

\* A datagram resolves only exchanges whose request its state confirms.
LEMMA ReceiveMoves ==
    ASSUME TypeOK, NEW s \in States, NEW kind, NEW matched,
           Receive(s, kind, matched)
    PROVE  /\ UNCHANGED <<request, queue, current>>
           /\ \A d \in Callers : Told(d)
           /\ \A p \in Tasks : Kept(p)
           /\ WorkerKept
<1>1. UNCHANGED <<request, queue, current, worker, pc, outcome>>
    BY DEF Receive, callerVars, workerVars
<1>2. ASSUME NEW p \in Tasks
      PROVE  Kept(p) /\ exchange'[p].request = exchange[p].request
    <2>1. exchange[p] \in Exchanges
        BY DEF TypeOK
    <2>2. \/ exchange'[p] = exchange[p]
          \/ /\ Satisfied(p, s, kind, matched)
             /\ exchange'[p] = [exchange[p] EXCEPT !.future = Answer(s)]
        BY DEF Receive
    <2>3. QED
        BY <2>1, <2>2 DEF Kept, Satisfied, Exchanges, Answer
<1>3. QED
    BY <1>1, <1>2, TasksFacts DEF Told, WorkerKept

\* close() fails what is pending.
LEMMA CloseMoves ==
    ASSUME TypeOK, NEW k \in Closers, CloseCall(k) \/ CloseStep(k)
    PROVE  /\ UNCHANGED <<request, current>>
           /\ \A d \in Callers : Told(d)
           /\ \A p \in Tasks : Kept(p)
           /\ queue' \in {queue, <<>>}
           /\ WorkerKept
<1> USE DEF callerVars, workerVars, deviceVars
<1>1. CASE CloseDrain(k)
    <2>1. \A d \in Callers : Told(d)
        <3> DEFINE doomed == (UNION {Members(queue[i].waiters) : i \in 1..Len(queue)})
                             \cup Members(active)
                   failing == {c \in doomed : pc[c] = "waiting"}
        <3>1. /\ pc' = [c \in Callers |-> IF c \in failing THEN "done" ELSE pc[c]]
              /\ outcome' = [c \in Callers |->
                        IF c \in failing THEN Failure("closed") ELSE outcome[c]]
            BY <1>1 DEF CloseDrain
        <3>2. \A d \in failing : pc[d] = "waiting"
            OBVIOUS
        <3> HIDE DEF failing
        <3>3. Failure("closed").kind # "ok"
            BY DEF Failure
        <3>4. QED
            BY <3>1, <3>2, <3>3 DEF Told
    <2>2. QED
        BY <1>1, <2>1 DEF CloseDrain, Kept, WorkerKept
<1>2. CASE CloseBegin(k)
    <2>1. UNCHANGED <<request, current, worker, queue, pc, outcome>>
        BY <1>2 DEF CloseBegin
    <2>2. ASSUME NEW p \in Tasks
          PROVE  Kept(p) /\ exchange'[p].request = exchange[p].request
        <3>1. exchange[p] \in Exchanges
            BY DEF TypeOK
        <3>2. CASE FailPending
            BY <3>1, <3>2 DEF FailPending, Kept, Exchanges, Failed
        <3>3. QED
            BY <1>2, <3>2 DEF CloseBegin, Kept
    <2>3. QED
        BY <2>1, <2>2, TasksFacts DEF Told, WorkerKept
<1>3. CASE CloseCall(k) \/ CloseRelease(k) \/ CloseJoin(k)
    BY <1>3 DEF CloseCall, CloseRelease, CloseJoin, Told, Kept, WorkerKept
<1>4. QED
    BY <1>1, <1>2, <1>3 DEF CloseStep

-----------------------------------------------------------------------------
(* The parts of SuccessInv                                                 *)

LEMMA AnswersKept ==
    ASSUME AnswersConfirm,
           \A p \in Tasks : Kept(p) \/ exchange'[p].future = Open
    PROVE  AnswersConfirm'
BY DEF AnswersConfirm, Kept, NoExchange, Open, Confirms

LEMMA CallerOwners ==
    ASSUME TypeOK, ExchangeOwners, NEW c \in Callers, CallerMove(c)
    PROVE  ExchangeOwners'
<1>1. \A d \in Callers : d # c => UNCHANGED <<pc[d], request[d], exchange[d]>>
    BY TasksFacts DEF CallerMove
<1>2. exchange'[Worker] = exchange[Worker]
    BY TasksFacts DEF CallerMove
<1>3. exchange'[c].phase # "none" =>
        pc'[c] = "refresh" /\ exchange'[c].request = request'[c]
    BY DEF CallerMove, ExchangeOwners, Opened, NoExchange
<1>4. worker = "exchange" => worker' = "exchange"
    BY DEF CallerMove
<1>5. QED
    BY <1>1, <1>2, <1>3, <1>4 DEF ExchangeOwners

LEMMA TaskOwners ==
    ASSUME ExchangeOwners, request' = request,
           \A d \in Callers : Told(d) /\ Kept(d),
           \/ /\ Kept(Worker)
              /\ worker' = worker \/ exchange'[Worker] = NoExchange
           \/ exchange'[Worker].phase = "none"
           \/ /\ worker' = "exchange"
              /\ \E r \in Commands \ Invalid : Opened(Worker, r)
    PROVE  ExchangeOwners'
<1>1. ASSUME NEW d \in Callers, exchange'[d].phase # "none"
      PROVE  pc'[d] = "refresh" /\ exchange'[d].request = request'[d]
    BY <1>1 DEF ExchangeOwners, Told, Kept, NoExchange
<1>2. ASSUME exchange'[Worker].phase # "none"
      PROVE  worker' = "exchange" /\ exchange'[Worker].request \in Commands \ Invalid
    BY <1>2 DEF ExchangeOwners, Kept, NoExchange, Opened
<1>3. QED
    BY <1>1, <1>2 DEF ExchangeOwners

\* Who is told of a success in a step has it from a confirmed exchange.
LEMMA ToldSuccess ==
    ASSUME SuccessInv, request' = request, \A d \in Callers : Told(d)
    PROVE  SuccessIsFinal' /\ SuccessIsConfirmed'
<1> USE DEF SuccessInv, QueueInv
<1>1. SuccessIsFinal'
    BY DEF SuccessIsFinal, Told
<1>2. ASSUME NEW d \in Callers, outcome'[d].kind = "ok", request'[d] \in Commands
      PROVE  LET by == outcome'[d].by IN
                /\ by \in Commands \ Invalid
                /\ outcome'[d].state \in Confirming[by]
                /\ by # request'[d] => {by, request'[d]} \subseteq Coalescible
    <2>1. CASE outcome'[d] = outcome[d]
        BY <1>2, <2>1 DEF SuccessIsConfirmed
    <2>2. pc[d] # "refresh"
        BY <1>2, ClientAssumption DEF RequestPlaces
    <2>3. CASE outcome'[d] # outcome[d]
        <3> DEFINE x == exchange[Worker]
        <3>1. /\ d \in Members(current) /\ x.phase # "none"
              /\ x.future.kind = "answer"
              /\ outcome'[d] = Success(x.request, x.future.state)
            BY <1>2, <2>2, <2>3 DEF Told
        <3>2. worker = "exchange" /\ x.request \in Commands \ Invalid
            BY <3>1 DEF ExchangeOwners
        <3>3. x.future.state \in Confirming[x.request]
            BY <3>1, <3>2, TasksFacts DEF AnswersConfirm, Confirms
        <3>4. x.request # request[d] => {x.request, request[d]} \subseteq Coalescible
            BY <3>1, <3>2 DEF WaitersFit, Fits
        <3>5. outcome'[d].by = x.request /\ outcome'[d].state = x.future.state
            BY <3>1 DEF Success
        <3> HIDE DEF x
        <3>6. QED
            BY <3>2, <3>3, <3>4, <3>5
    <2>4. QED
        BY <2>1, <2>3
<1>3. SuccessIsConfirmed'
    BY <1>2 DEF SuccessIsConfirmed
<1>4. QED
    BY <1>1, <1>3

LEMMA CallerSuccess ==
    ASSUME SuccessInv, NEW c \in Callers, CallerMove(c)
    PROVE  SuccessIsFinal' /\ SuccessIsConfirmed'
<1> USE DEF SuccessInv
<1>1. \A d \in Callers : d # c => UNCHANGED <<pc[d], request[d], outcome[d]>>
    BY DEF CallerMove
<1>2. outcome[c].kind # "ok"
    BY DEF CallerMove, SuccessIsFinal
<1>3. outcome'[c].kind = "ok" => pc'[c] = "done" /\ request'[c] \notin Commands
    BY <1>2, ClientAssumption DEF CallerMove
<1>4. QED
    BY <1>1, <1>3 DEF SuccessIsFinal, SuccessIsConfirmed

\* Command r may stand for d's request after the step.
FitsNext(r, d) == /\ pc'[d] # "idle"
                  /\ r = request'[d] \/ {r, request'[d]} \subseteq Coalescible

\* Nobody returns to the start, and only there a request is chosen.
Lasting == \A d \in Callers : pc[d] # "idle" => pc'[d] # "idle" /\ request'[d] = request[d]

LEMMA WaitersAreCallers ==
    TypeOK => /\ \A i \in 1..Len(queue) : Members(queue[i].waiters) \subseteq Callers
              /\ Members(current) \subseteq Callers
<1> SUFFICES ASSUME TypeOK
             PROVE  /\ \A i \in 1..Len(queue) : Members(queue[i].waiters) \subseteq Callers
                    /\ Members(current) \subseteq Callers
    OBVIOUS
<1>1. ASSUME NEW w \in Seq(Callers) PROVE Members(w) \subseteq Callers
    BY ElementOfSeq DEF Members
<1>2. ASSUME NEW i \in 1..Len(queue) PROVE queue[i].waiters \in Seq(Callers)
    <2>1. queue[i] \in Entries
        BY ElementOfSeq DEF TypeOK
    <2>2. QED
        BY <2>1 DEF Entries
<1>3. QED
    BY <1>1, <1>2 DEF TypeOK

LEMMA FitsLast ==
    ASSUME Lasting
    PROVE  \A r, d : d \in Callers /\ Fits(r, d) => FitsNext(r, d)
BY DEF Lasting, Fits, FitsNext

\* Entries that stay in the queue keep fitting.
LEMMA QueueFits ==
    ASSUME TypeOK, WaitersFit, Lasting,
           queue' \in {queue, <<>>} \/ (queue # <<>> /\ queue' = Tail(queue))
    PROVE  \A i \in 1..Len(queue') :
                \A d \in Members(queue'[i].waiters) : FitsNext(queue'[i].command, d)
<1>1. \A i \in 1..Len(queue) :
        \A d \in Members(queue[i].waiters) : FitsNext(queue[i].command, d)
    BY WaitersAreCallers, FitsLast DEF WaitersFit
<1>2. queue \in Seq(Entries)
    BY DEF TypeOK
<1>3. CASE queue' \in {queue, <<>>}
    BY <1>1, <1>3
<1>4. CASE queue # <<>> /\ queue' = Tail(queue)
    <2>1. \A i \in 1..Len(queue') : i + 1 \in 1..Len(queue) /\ queue'[i] = queue[i + 1]
        BY <1>2, <1>4, LenProperties
    <2>2. QED
        BY <1>1, <2>1
<1>5. QED
    BY <1>3, <1>4

LEMMA EnqueueFits ==
    ASSUME TypeOK, RequestPlaces, WaitersFit, NEW c \in Callers, Enqueue(c), ~closed
    PROVE  \A i \in 1..Len(queue') :
                \A d \in Members(queue'[i].waiters) : FitsNext(queue'[i].command, d)
<1>1. /\ pc[c] = "enqueue" /\ pc' = [pc EXCEPT ![c] = "waiting"] /\ request' = request
      /\ queue' = IF CanCoalesce(c) THEN Coalesce(c)
                  ELSE Append(queue, [command |-> request[c], waiters |-> <<c>>])
    BY DEF Enqueue
<1>2. request[c] \in Commands /\ queue \in Seq(Entries)
    BY <1>1 DEF RequestPlaces, TypeOK
<1>3. Lasting
    BY <1>1 DEF Lasting, TypeOK
<1>4. \A i \in 1..Len(queue) :
        \A d \in Members(queue[i].waiters) : FitsNext(queue[i].command, d)
    BY <1>3, WaitersAreCallers, FitsLast DEF WaitersFit
<1>5. FitsNext(request[c], c)
    BY <1>1 DEF FitsNext, TypeOK
<1>6. CASE CanCoalesce(c)
    <2> DEFINE n == Len(queue)
               last == [command |-> request[c], waiters |-> Append(queue[n].waiters, c)]
    <2>1. n \in 1..n
        BY <1>2, <1>6, LenProperties, EmptySeq DEF CanCoalesce
    <2>2. queue[n] \in Entries
        BY <1>2, <2>1, ElementOfSeq
    <2>3. Members(last.waiters) = Members(queue[n].waiters) \cup {c}
        BY <2>2, AppendMembers DEF Entries
    <2>4. /\ Len(queue') = n
          /\ \A i \in 1..n : queue'[i] = IF i = n THEN last ELSE queue[i]
        BY <1>1, <1>2, <1>6, <2>1, LenProperties DEF Coalesce
    <2>5. {queue[n].command, request[c]} \subseteq Coalescible
        BY <1>6 DEF CanCoalesce
    <2>6. ASSUME NEW d \in Members(queue[n].waiters)
          PROVE  FitsNext(request[c], d)
        <3>1. FitsNext(queue[n].command, d)
            BY <1>4, <2>1
        <3>2. QED
            BY <2>5, <3>1 DEF FitsNext
    <2>7. last.command = request[c]
        OBVIOUS
    <2> HIDE DEF last
    <2>8. \A d \in Members(last.waiters) : FitsNext(last.command, d)
        BY <1>5, <2>3, <2>6, <2>7
    <2> SUFFICES ASSUME NEW i \in 1..n
                 PROVE  \A d \in Members(queue'[i].waiters) : FitsNext(queue'[i].command, d)
        BY <2>4
    <2>9. CASE i = n
        BY <2>4, <2>8, <2>9
    <2>10. CASE i # n
        BY <1>4, <2>4, <2>10
    <2>11. QED
        BY <2>9, <2>10
<1>7. CASE ~CanCoalesce(c)
    <2> DEFINE e == [command |-> request[c], waiters |-> <<c>>]
    <2>1. e \in Entries /\ queue' = Append(queue, e)
        BY <1>1, <1>2, <1>7 DEF Entries
    <2>2. e.command = request[c] /\ Members(e.waiters) = {c}
        BY DEF Members
    <2> HIDE DEF e
    <2>3. /\ \A i \in 1..Len(queue) : queue'[i] = queue[i]
          /\ queue'[Len(queue) + 1] = e
          /\ \A i \in 1..Len(queue') : i \in 1..Len(queue) \/ i = Len(queue) + 1
        BY <1>2, <2>1, AppendMembers
    <2>4. QED
        BY <1>4, <1>5, <2>2, <2>3
<1>8. QED
    BY <1>6, <1>7

LEMMA WaitersFitFrom ==
    ASSUME \A i \in 1..Len(queue') :
                \A d \in Members(queue'[i].waiters) : FitsNext(queue'[i].command, d),
           worker' = "exchange" =>
                \A d \in Members(current') : FitsNext(exchange'[Worker].request, d)
    PROVE  WaitersFit'
BY DEF WaitersFit, Fits, FitsNext

\* The waiters of an exchange that goes on keep fitting.
LEMMA CurrentFits ==
    ASSUME TypeOK, WaitersFit, Lasting, current' = current,
           worker' = "exchange" => /\ worker = "exchange"
                                   /\ exchange'[Worker].request = exchange[Worker].request
    PROVE  worker' = "exchange" =>
                \A d \in Members(current') : FitsNext(exchange'[Worker].request, d)
BY WaitersAreCallers, FitsLast DEF WaitersFit

LEMMA ToldLasts ==
    ASSUME request' = request, \A d \in Callers : Told(d)
    PROVE  Lasting
BY DEF Told, Lasting

LEMMA CallerSuccessStep ==
    ASSUME SuccessInv, NEW c \in Callers,
           (\E r \in Offered : Call(c, r)) \/ CallerStep(c) \/ Cancel(c)
    PROVE  SuccessInv'
<1> USE DEF SuccessInv
<1>1. TypeOK /\ RequestPlaces
    BY DEF QueueInv
<1>2. CallerMove(c)
    BY <1>1, CallerMoves
<1>3. QueueInv'
    BY QueueStep DEF Next
<1>4. ExchangeOwners'
    BY <1>1, <1>2, CallerOwners
<1>5. AnswersConfirm'
    <2>1. \A p \in Tasks : Kept(p) \/ exchange'[p].future = Open
        BY <1>2 DEF CallerMove, Kept, Opened
    <2>2. QED
        BY <2>1, AnswersKept
<1>6. SuccessIsFinal' /\ SuccessIsConfirmed'
    BY <1>2, CallerSuccess
<1>7. Lasting
    BY <1>2 DEF CallerMove, Lasting
<1>8. \A i \in 1..Len(queue') :
        \A d \in Members(queue'[i].waiters) : FitsNext(queue'[i].command, d)
    <2>1. CASE Enqueue(c) /\ ~closed
        BY <1>1, <2>1, EnqueueFits
    <2>2. CASE ~(Enqueue(c) /\ ~closed)
        <3>1. queue' = queue
            BY <2>2 DEF CallerStep, Call, Start, Restart, BindDone, BindFails, Enqueue,
                        Cancel, workerVars
        <3>2. QED
            BY <1>1, <1>7, <3>1, QueueFits
    <2>3. QED
        BY <2>1, <2>2
<1>9. worker' = "exchange" =>
        \A d \in Members(current') : FitsNext(exchange'[Worker].request, d)
    <2>1. /\ current' = current /\ exchange'[Worker] = exchange[Worker]
          /\ worker' = "exchange" => worker = "exchange"
        BY <1>2, TasksFacts DEF CallerMove
    <2>2. QED
        BY <1>1, <1>7, <2>1, CurrentFits
<1>10. QED
    BY <1>3, <1>4, <1>5, <1>6, <1>8, <1>9, WaitersFitFrom

\* A step in which exchanges are only kept or ended.
LEMMA KeptSuccessStep ==
    ASSUME SuccessInv, QueueInv', UNCHANGED <<request, current>>,
           queue' \in {queue, <<>>},
           \A d \in Callers : Told(d),
           \A p \in Tasks : Kept(p),
           WorkerKept
    PROVE  SuccessInv'
<1> USE DEF SuccessInv
<1>1. ExchangeOwners'
    BY TaskOwners, TasksFacts DEF WorkerKept
<1>2. AnswersConfirm'
    BY AnswersKept
<1>3. SuccessIsFinal' /\ SuccessIsConfirmed'
    BY ToldSuccess
<1>4. Lasting
    BY ToldLasts
<1>5. WaitersFit'
    <2>1. \A i \in 1..Len(queue') :
            \A d \in Members(queue'[i].waiters) : FitsNext(queue'[i].command, d)
        BY <1>4, QueueFits DEF QueueInv
    <2>2. worker' = "exchange" => /\ worker = "exchange"
                                  /\ exchange'[Worker].request = exchange[Worker].request
        BY DEF WorkerKept
    <2>3. QED
        BY <1>4, <2>1, <2>2, CurrentFits, WaitersFitFrom DEF QueueInv
<1>6. QED
    BY <1>1, <1>2, <1>3, <1>5

LEMMA WorkerSuccessStep ==
    ASSUME SuccessInv, WorkerStep
    PROVE  SuccessInv'
<1> USE DEF SuccessInv
<1>1. TypeOK
    BY DEF QueueInv
<1>2. QueueInv'
    BY QueueStep DEF Next
<1>3. /\ request' = request
      /\ \A d \in Callers : Told(d)
      /\ \A c \in Callers : exchange'[c] = exchange[c]
    BY <1>1, WorkerMoves
<1>4. \A c \in Callers : Kept(c)
    BY <1>3 DEF Kept
<1>5. Lasting
    BY <1>3, ToldLasts
<1>6. SuccessIsFinal' /\ SuccessIsConfirmed'
    BY <1>3, ToldSuccess
<1>7. CASE /\ worker' # "exchange"
           /\ exchange'[Worker] = NoExchange \/ exchange'[Worker] = exchange[Worker]
           /\ exchange'[Worker].phase = "none"
           /\ queue' = queue \/ (queue # <<>> /\ queue' = Tail(queue))
    <2>1. ExchangeOwners'
        BY <1>3, <1>4, <1>7, TaskOwners
    <2>2. Kept(Worker)
        BY <1>7 DEF Kept
    <2>3. AnswersConfirm'
        BY <1>4, <2>2, AnswersKept, TasksFacts
    <2>4. \A i \in 1..Len(queue') :
            \A d \in Members(queue'[i].waiters) : FitsNext(queue'[i].command, d)
        BY <1>1, <1>5, <1>7, QueueFits
    <2>5. QED
        BY <1>2, <1>6, <1>7, <2>1, <2>3, <2>4, WaitersFitFrom
<1>8. CASE /\ worker' = "exchange" /\ queue # <<>>
           /\ queue' = Tail(queue)
           /\ current' = Head(queue).waiters
           /\ Head(queue).command \in Commands \ Invalid
           /\ Opened(Worker, Head(queue).command)
    <2>1. ExchangeOwners'
        BY <1>3, <1>4, <1>8, TaskOwners
    <2>2. AnswersConfirm'
        BY <1>4, <1>8, AnswersKept, TasksFacts DEF Opened
    <2>3. \A i \in 1..Len(queue') :
            \A d \in Members(queue'[i].waiters) : FitsNext(queue'[i].command, d)
        BY <1>1, <1>5, <1>8, QueueFits
    <2>4. \A d \in Members(current') : FitsNext(exchange'[Worker].request, d)
        <3>1. 1 \in 1..Len(queue) /\ Head(queue) = queue[1]
            BY <1>1, <1>8, LenProperties, EmptySeq DEF TypeOK
        <3>2. \A d \in Members(queue[1].waiters) : FitsNext(queue[1].command, d)
            BY <1>1, <1>5, <3>1, WaitersAreCallers, FitsLast DEF WaitersFit
        <3>3. QED
            BY <1>8, <3>1, <3>2 DEF Opened
    <2>5. QED
        BY <1>2, <1>6, <2>1, <2>2, <2>3, <2>4, WaitersFitFrom
<1>9. QED
    BY <1>1, <1>7, <1>8, WorkerMoves

LEMMA SuccessStep == SuccessInv /\ [Next]_vars => SuccessInv'
<1> SUFFICES ASSUME SuccessInv, [Next]_vars PROVE SuccessInv'
    OBVIOUS
<1>1. TypeOK /\ ExchangeOwners /\ QueueInv'
    BY QueueStep DEF SuccessInv, QueueInv
<1>2. CASE UNCHANGED vars
    BY <1>1, <1>2
    DEF vars, callerVars, workerVars, SuccessInv, ExchangeOwners, AnswersConfirm,
        WaitersFit, Fits, SuccessIsFinal, SuccessIsConfirmed
<1>3. ASSUME NEW p \in Tasks, ExchangeStep(p) \/ Expire(p)
      PROVE  SuccessInv'
    BY <1>1, <1>3, ExchangeMoves, KeptSuccessStep
<1>4. ASSUME NEW s \in States, NEW kind, NEW matched, Receive(s, kind, matched)
      PROVE  SuccessInv'
    BY <1>1, <1>4, ReceiveMoves, KeptSuccessStep
<1>5. ASSUME NEW k \in Closers, CloseCall(k) \/ CloseStep(k)
      PROVE  SuccessInv'
    BY <1>1, <1>5, CloseMoves, KeptSuccessStep
<1>6. QED
    BY <1>2, <1>3, <1>4, <1>5, CallerSuccessStep, WorkerSuccessStep DEF Next

LEMMA SuccessInit == Init => SuccessInv
<1> SUFFICES ASSUME Init PROVE SuccessInv
    OBVIOUS
<1>1. \A p \in Tasks : exchange[p] = NoExchange
    BY DEF Init
<1>2. ExchangeOwners /\ AnswersConfirm
    BY <1>1, TasksFacts DEF ExchangeOwners, AnswersConfirm, NoExchange, Open
<1>3. WaitersFit
    BY DEF Init, WaitersFit
<1>4. SuccessIsFinal /\ SuccessIsConfirmed
    BY DEF Init, SuccessIsFinal, SuccessIsConfirmed, Unsettled
<1>5. QED
    BY <1>2, <1>3, <1>4, QueueInit DEF SuccessInv

\* Whoever is told that a command succeeded has been told so on a state that
\* confirms what the worker executed for it: for any number of callers who share
\* an execution, of retries, and of datagrams between them
\* (transport.py:248-272, 296-333, 364-409, 479-556).
THEOREM SuccessTrue == Spec => []SuccessIsConfirmed
<1>1. SuccessInv => SuccessIsConfirmed
    BY DEF SuccessInv
<1>2. QED
    BY <1>1, SuccessInit, SuccessStep, PTL DEF Spec

-----------------------------------------------------------------------------
(* Sequences of sequences                                                  *)

Below == {ss \in Nat \X Nat : ss[1] < ss[2]}

\* Induction: what does not hold of all naturals fails first somewhere.
LEMMA Least ==
    ASSUME NEW T, T \subseteq Nat, T # {}
    PROVE  \E x \in T : \A y \in T : x <= y
<1>1. IsWellFoundedOn(Below, Nat)
    BY NatLessThanWellFounded DEF OpToRel, Below
<1>2. \E x \in T : \A y \in T : ~ (<<y, x>> \in Below)
    BY <1>1, WFMin
<1>3. PICK x \in T : \A y \in T : ~ (<<y, x>> \in Below)
    BY <1>2
<1>4. ASSUME NEW y \in T PROVE x <= y
    <2>1. x \in Nat /\ y \in Nat
        OBVIOUS
    <2>2. ~(y < x)
        BY <1>3, <2>1 DEF Below
    <2>3. QED
        BY <2>1, <2>2
<1>5. QED
    BY <1>4

\* f joins the sequences of ss, one after another, up to the n-th.
Joins(f, ss, n) ==
    f = [i \in 1..n |-> IF i = 1 THEN ss[i] ELSE f[i-1] \o ss[i]]

LEMMA JoinsValues ==
    ASSUME NEW f, NEW ss, NEW n \in Nat, Joins(f, ss, n)
    PROVE  \A i \in 1..n : f[i] = IF i = 1 THEN ss[i] ELSE f[i-1] \o ss[i]
<1> DEFINE F == [i \in 1..n |-> IF i = 1 THEN ss[i] ELSE f[i-1] \o ss[i]]
<1>1. f = F
    BY DEF Joins
<1>2. \A i \in 1..n : F[i] = IF i = 1 THEN ss[i] ELSE f[i-1] \o ss[i]
    OBVIOUS
<1> HIDE DEF F
<1>3. QED
    BY <1>1, <1>2

LEMMA JoinExtends ==
    ASSUME NEW ss, NEW n \in Nat \ {0}, NEW g, Joins(g, ss, n - 1)
    PROVE  \E f : Joins(f, ss, n)
<1> DEFINE f == [i \in 1..n |-> IF i < n THEN g[i]
                               ELSE IF n = 1 THEN ss[1] ELSE g[n-1] \o ss[n]]
<1>1. ASSUME NEW i \in 1..n
      PROVE  f[i] = IF i = 1 THEN ss[i] ELSE f[i-1] \o ss[i]
    <2>1. CASE i < n
        <3>1. i \in 1..(n-1) /\ f[i] = g[i]
            BY <2>1
        <3>2. g[i] = IF i = 1 THEN ss[i] ELSE g[i-1] \o ss[i]
            BY <3>1, JoinsValues
        <3>3. i # 1 => f[i-1] = g[i-1]
            BY <2>1
        <3>4. QED
            BY <3>1, <3>2, <3>3
    <2>2. CASE i = n
        <3>1. n # 1 => f[n-1] = g[n-1]
            OBVIOUS
        <3>2. QED
            BY <2>2, <3>1
    <2>3. QED
        BY <2>1, <2>2
<1>2. f = [i \in 1..n |-> IF i = 1 THEN ss[i] ELSE f[i-1] \o ss[i]]
    BY <1>1
<1>3. QED
    BY <1>2 DEF Joins

LEMMA JoinExists ==
    ASSUME NEW ss, NEW n \in Nat
    PROVE  \E f : Joins(f, ss, n)
<1> DEFINE T == {m \in Nat : ~ \E f : Joins(f, ss, m)}
<1> SUFFICES ASSUME T # {} PROVE FALSE
    OBVIOUS
<1>1. PICK m \in T : \A k \in T : m <= k
    BY Least
<1>2. m \in Nat /\ ~ \E f : Joins(f, ss, m)
    OBVIOUS
<1>3. m # 0
    <2>1. Joins(<<>>, ss, 0)
        BY DEF Joins
    <2>2. QED
        BY <1>2, <2>1
<1>4. m - 1 \in Nat /\ m - 1 \notin T
    BY <1>1, <1>2, <1>3
<1>5. PICK g : Joins(g, ss, m - 1)
    BY <1>4
<1>6. QED
    BY <1>2, <1>3, <1>5, JoinExtends

LEMMA JoinTypes ==
    ASSUME NEW S, NEW ss \in Seq(Seq(S)), NEW n \in 0..Len(ss), NEW f, Joins(f, ss, n)
    PROVE  \A i \in 1..n : f[i] \in Seq(S)
<1> DEFINE T == {i \in 1..n : f[i] \notin Seq(S)}
<1> SUFFICES ASSUME T # {} PROVE FALSE
    OBVIOUS
<1>0. T \subseteq Nat
    OBVIOUS
<1>1. PICK m \in T : \A k \in T : m <= k
    BY <1>0, Least
<1>2. m \in 1..n /\ f[m] \notin Seq(S) /\ ss[m] \in Seq(S)
    BY ElementOfSeq
<1>3. f[m] = IF m = 1 THEN ss[m] ELSE f[m-1] \o ss[m]
    BY <1>2, JoinsValues
<1>4. m # 1
    BY <1>2, <1>3
<1>5. m - 1 \in 1..n /\ m - 1 \notin T
    BY <1>1, <1>2, <1>4
<1>6. f[m-1] \in Seq(S)
    BY <1>5
<1>7. QED
    BY <1>2, <1>3, <1>4, <1>6, ConcatProperties

Agree(s, t, m) == \A i \in 1..m : s[i] = t[i]

\* What is joined so far depends only on the sequences so far.
LEMMA JoinPrefix ==
    ASSUME NEW ss, NEW tt, NEW n \in Nat, NEW m \in 0..n, Agree(ss, tt, m),
           NEW f, Joins(f, ss, n), NEW g, Joins(g, tt, m)
    PROVE  Agree(f, g, m)
<1> USE DEF Agree
<1> DEFINE T == {i \in 1..m : f[i] # g[i]}
<1> SUFFICES ASSUME T # {} PROVE FALSE
    OBVIOUS
<1>0. T \subseteq Nat
    OBVIOUS
<1>1. PICK k \in T : \A j \in T : k <= j
    BY <1>0, Least
<1>2. k \in 1..m /\ k \in 1..n /\ f[k] # g[k] /\ ss[k] = tt[k]
    OBVIOUS
<1>3. /\ f[k] = IF k = 1 THEN ss[k] ELSE f[k-1] \o ss[k]
      /\ g[k] = IF k = 1 THEN tt[k] ELSE g[k-1] \o tt[k]
    BY <1>2, JoinsValues
<1>4. k # 1
    BY <1>2, <1>3
<1>5. k - 1 \in 1..m /\ k - 1 \notin T
    BY <1>1, <1>2, <1>4
<1>6. f[k-1] = g[k-1]
    BY <1>5
<1>7. QED
    BY <1>2, <1>3, <1>4, <1>6

LEMMA FlattenJoins ==
    ASSUME NEW ss, Len(ss) \in Nat \ {0}
    PROVE  \E f : Joins(f, ss, Len(ss)) /\ FlattenSeq(ss) = f[Len(ss)]
<1> DEFINE f == CHOOSE g : g = [i \in 1..Len(ss) |-> IF i = 1 THEN ss[i] ELSE g[i-1] \o ss[i]]
<1>1. FlattenSeq(ss) = f[Len(ss)]
    BY DEF FlattenSeq
<1>2. \E g : g = [i \in 1..Len(ss) |-> IF i = 1 THEN ss[i] ELSE g[i-1] \o ss[i]]
    BY JoinExists DEF Joins
<1>3. f = [i \in 1..Len(ss) |-> IF i = 1 THEN ss[i] ELSE f[i-1] \o ss[i]]
    BY <1>2
<1> HIDE DEF f
<1>4. QED
    BY <1>1, <1>3 DEF Joins

LEMMA FlattenType ==
    ASSUME NEW S, NEW ss \in Seq(Seq(S))
    PROVE  FlattenSeq(ss) \in Seq(S)
<1>1. CASE ss = <<>>
    BY <1>1, EmptySeq DEF FlattenSeq
<1>2. CASE ss # <<>>
    <2>1. Len(ss) \in Nat \ {0}
        BY <1>2, EmptySeq
    <2>2. PICK f : Joins(f, ss, Len(ss)) /\ FlattenSeq(ss) = f[Len(ss)]
        BY <2>1, FlattenJoins
    <2>3. QED
        BY <2>1, <2>2, JoinTypes
<1>3. QED
    BY <1>1, <1>2

LEMMA FlattenEmpty == FlattenSeq(<<>>) = <<>>
BY DEF FlattenSeq

LEMMA FlattenAppend ==
    ASSUME NEW S, NEW ss \in Seq(Seq(S)), NEW e \in Seq(S)
    PROVE  FlattenSeq(Append(ss, e)) = FlattenSeq(ss) \o e
<1> DEFINE tt == Append(ss, e)
           n == Len(ss)
<1>1. /\ tt \in Seq(Seq(S)) /\ Len(tt) = n + 1 /\ Len(ss) = n
      /\ \A i \in 1..n : tt[i] = ss[i]
      /\ tt[n + 1] = e
    BY AppendProperties, LenProperties
<1>2. n \in Nat
    BY LenProperties
<1> HIDE DEF tt, n
<1>3. n + 1 \in Nat \ {0} /\ n + 1 \in 1..(n + 1) /\ n + 1 - 1 = n
    BY <1>2
<1>4. PICK f : Joins(f, tt, n + 1) /\ FlattenSeq(tt) = f[n + 1]
    BY <1>1, <1>3, FlattenJoins
<1>5. f[n + 1] = IF n = 0 THEN e ELSE f[n] \o e
    <2>1. f[n + 1] = IF n + 1 = 1 THEN tt[n + 1] ELSE f[n + 1 - 1] \o tt[n + 1]
        BY <1>2, <1>3, <1>4, JoinsValues
    <2>2. QED
        BY <1>1, <1>2, <1>3, <2>1
<1>6. CASE n = 0
    <2>1. ss = <<>> /\ FlattenSeq(ss) = <<>>
        BY <1>1, <1>6, EmptySeq, FlattenEmpty
    <2>2. <<>> \o e = e
        BY ConcatEmptySeq
    <2>3. QED
        BY <1>4, <1>5, <1>6, <2>1, <2>2 DEF tt
<1>7. CASE n # 0
    <2>1. PICK g : Joins(g, ss, n) /\ FlattenSeq(ss) = g[n]
        BY <1>1, <1>2, <1>7, FlattenJoins
    <2>2. Agree(f, g, n)
        <3>1. PICK m \in Nat : m = n + 1
            BY <1>2
        <3>2. n \in 0..m /\ Joins(f, tt, m)
            BY <1>2, <1>4, <3>1
        <3>3. Agree(tt, ss, n)
            BY <1>1 DEF Agree
        <3>4. QED
            BY <2>1, <3>2, <3>3, JoinPrefix
    <2>3. f[n] = g[n]
        BY <1>2, <1>7, <2>2 DEF Agree
    <2>4. QED
        BY <1>4, <1>5, <1>7, <2>1, <2>3 DEF tt
<1>8. QED
    BY <1>6, <1>7

\* f joins h and then what g joins.
Follows(f, h, g, i) == f[i + 1] = h \o g[i]

LEMMA Regroup ==
    ASSUME NEW S, NEW x \in Seq(S), NEW y \in Seq(S), NEW z \in Seq(S)
    PROVE  (x \o y) \o z = x \o (y \o z)
BY ConcatAssociative

LEMMA FollowsNext ==
    ASSUME NEW S, NEW f, NEW g, NEW h \in Seq(S), NEW t \in Seq(S),
           NEW k \in Nat \ {0, 1}, g[k - 1] \in Seq(S), Follows(f, h, g, k - 1),
           f[k + 1] = f[k] \o t, g[k] = g[k - 1] \o t
    PROVE  Follows(f, h, g, k)
<1>1. k - 1 + 1 = k
    OBVIOUS
<1>2. f[k] = h \o g[k - 1]
    BY <1>1 DEF Follows
<1>3. (h \o g[k - 1]) \o t = h \o (g[k - 1] \o t)
    <2> DEFINE x == g[k - 1]
    <2>1. h \in Seq(S) /\ x \in Seq(S) /\ t \in Seq(S)
        OBVIOUS
    <2> HIDE DEF x
    <2>2. (h \o x) \o t = h \o (x \o t)
        BY ONLY <2>1, Regroup
    <2>3. QED
        BY <2>2 DEF x
<1>4. QED
    BY <1>2, <1>3 DEF Follows

LEMMA FlattenHead ==
    ASSUME NEW S, NEW ss \in Seq(Seq(S)), ss # <<>>
    PROVE  FlattenSeq(ss) = Head(ss) \o FlattenSeq(Tail(ss))
<1> DEFINE tt == Tail(ss)
           n == Len(tt)
           h == ss[1]
<1>1. /\ tt \in Seq(Seq(S)) /\ Len(ss) = n + 1 /\ Len(tt) = n
      /\ Head(ss) = h /\ h \in Seq(S)
      /\ \A i \in 1..n : tt[i] = ss[i + 1] /\ tt[i] \in Seq(S)
    BY HeadTailProperties, LenProperties, ElementOfSeq
<1>2. n \in Nat
    BY <1>1, LenProperties
<1>3. ss[1] = h
    OBVIOUS
<1> HIDE DEF tt, n, h
<1>4. n + 1 \in Nat \ {0} /\ 1 \in 1..(n + 1)
    BY <1>2
<1>5. PICK f : Joins(f, ss, n + 1) /\ FlattenSeq(ss) = f[n + 1]
    BY <1>1, <1>4, FlattenJoins
<1>6. \A i \in 1..(n + 1) : f[i] = IF i = 1 THEN ss[i] ELSE f[i-1] \o ss[i]
    BY <1>4, <1>5, JoinsValues
<1>7. f[1] = h
    BY <1>3, <1>4, <1>6
<1>8. ASSUME NEW k \in 1..n
      PROVE  f[k + 1] = f[k] \o tt[k]
    <2>1. PICK m \in 1..(n + 1) : m = k + 1
        BY <1>2
    <2>2. m # 1 /\ m - 1 = k /\ m \in 1..(n + 1)
        BY <1>2, <2>1
    <2>3. f[m] = IF m = 1 THEN ss[m] ELSE f[m - 1] \o ss[m]
        BY <1>6, <2>2
    <2>4. f[m] = f[k] \o ss[m]
        BY <2>2, <2>3
    <2>5. ss[m] = tt[k]
        BY <1>1, <2>1
    <2>6. QED
        BY <2>1, <2>4, <2>5
<1>9. CASE n = 0
    <2>1. FlattenSeq(tt) = <<>>
        BY <1>1, <1>9, EmptySeq, FlattenEmpty
    <2>2. h \o <<>> = h
        BY <1>1, ConcatEmptySeq
    <2>3. FlattenSeq(ss) = h
        BY <1>5, <1>7, <1>9
    <2>4. QED
        BY <1>1, <2>1, <2>2, <2>3 DEF tt
<1>10. CASE n # 0
    <2>1. PICK g : Joins(g, tt, n) /\ FlattenSeq(tt) = g[n]
        BY <1>1, <1>2, <1>10, FlattenJoins
    <2>2. \A i \in 1..n : g[i] \in Seq(S)
        <3>1. n \in 0..Len(tt)
            BY <1>1, <1>2
        <3>2. QED
            BY <1>1, <2>1, <3>1, JoinTypes
    <2>3. \A i \in 1..n : g[i] = IF i = 1 THEN tt[i] ELSE g[i-1] \o tt[i]
        BY <1>2, <2>1, JoinsValues
    <2>4. \A i \in 1..n : Follows(f, h, g, i)
        <3> DEFINE T == {i \in 1..n : ~ Follows(f, h, g, i)}
        <3> SUFFICES ASSUME T # {} PROVE FALSE
            OBVIOUS
        <3>1. T \subseteq Nat
            BY <1>2
        <3>2. PICK k \in T : \A j \in T : k <= j
            BY <3>1, Least
        <3>3. k \in 1..n /\ k \in Nat /\ ~ Follows(f, h, g, k)
            BY <1>2
        <3>4. f[k + 1] = f[k] \o tt[k]
            BY <1>8, <3>3
        <3>5. CASE k = 1
            <4>1. g[1] = tt[1]
                BY <2>3, <3>3, <3>5
            <4>2. f[1 + 1] = h \o g[1]
                BY <1>7, <3>4, <3>5, <4>1
            <4>3. QED
                BY <3>3, <3>5, <4>2 DEF Follows
        <3>6. CASE k # 1
            <4>1. k - 1 \in 1..n /\ k \in Nat \ {0, 1}
                BY <1>2, <3>3, <3>6
            <4>2. k - 1 \notin T
                BY <3>1, <3>2, <4>1
            <4>3. Follows(f, h, g, k - 1)
                BY <4>1, <4>2
            <4>4. g[k] = g[k - 1] \o tt[k]
                BY <2>3, <3>3, <3>6
            <4>5. g[k - 1] \in Seq(S) /\ tt[k] \in Seq(S)
                BY <1>1, <2>2, <3>3, <4>1
            <4>6. Follows(f, h, g, k)
                BY <1>1, <3>4, <4>1, <4>3, <4>4, <4>5, FollowsNext
            <4>7. QED
                BY <3>3, <4>6
        <3>7. QED
            BY <3>5, <3>6
    <2>5. f[n + 1] = h \o g[n]
        <3>1. n \in 1..n
            BY <1>2, <1>10
        <3>2. QED
            BY <2>4, <3>1 DEF Follows
    <2>6. QED
        BY <1>1, <1>5, <2>1, <2>5 DEF tt
<1>11. QED
    BY <1>9, <1>10

\* An element appended to the last sequence is appended to all of them.
LEMMA FlattenExtend ==
    ASSUME NEW S, NEW ss \in Seq(Seq(S)), NEW last \in Seq(S), NEW e \in S
    PROVE  FlattenSeq(Append(ss, Append(last, e)))
             = Append(FlattenSeq(Append(ss, last)), e)
<1>1. Append(last, e) \in Seq(S)
    BY AppendProperties
<1>2. FlattenSeq(ss) \in Seq(S)
    BY FlattenType
<1>3. /\ FlattenSeq(Append(ss, last)) = FlattenSeq(ss) \o last
      /\ FlattenSeq(Append(ss, Append(last, e))) = FlattenSeq(ss) \o Append(last, e)
    BY <1>1, FlattenAppend
<1>4. ASSUME NEW s \in Seq(S)
      PROVE  s \o Append(last, e) = Append(s \o last, e)
    BY ConcatProperties, AppendProperties, LenProperties, SeqEqual
<1>5. QED
    BY <1>2, <1>3, <1>4

-----------------------------------------------------------------------------
(* The queue as the line of CommandService                                 *)

\* The waiters of the entries of a queue.
Lists(q) == [i \in 1..Len(q) |-> q[i].waiters]

LEMMA FunctionIsSeq ==
    ASSUME NEW S, NEW n \in Nat, NEW f \in [1..n -> S]
    PROVE  f \in Seq(S) /\ Len(f) = n
OBVIOUS

LEMMA ListsType ==
    ASSUME NEW q \in Seq(Entries)
    PROVE  Lists(q) \in Seq(Seq(Callers)) /\ Len(Lists(q)) = Len(q)
<1>1. Len(q) \in Nat
    BY LenProperties
<1>2. ASSUME NEW i \in 1..Len(q)
      PROVE  q[i].waiters \in Seq(Callers)
    <2>1. q[i] \in Entries
        BY ElementOfSeq
    <2>2. QED
        BY <2>1 DEF Entries
<1>3. Lists(q) \in [1..Len(q) -> Seq(Callers)]
    BY <1>2 DEF Lists
<1>4. QED
    BY <1>1, <1>3, FunctionIsSeq

LEMMA ListsAppend ==
    ASSUME NEW q \in Seq(Entries), NEW e \in Entries
    PROVE  Lists(Append(q, e)) = Append(Lists(q), e.waiters)
<1> DEFINE n == Len(q)
           s == Lists(Append(q, e))
           t == Append(Lists(q), e.waiters)
<1>1. n \in Nat /\ e.waiters \in Seq(Callers)
    BY LenProperties DEF Entries
<1>2. /\ Append(q, e) \in Seq(Entries) /\ Len(Append(q, e)) = n + 1
      /\ \A i \in 1..n : Append(q, e)[i] = q[i]
      /\ Append(q, e)[n + 1] = e
    BY AppendProperties, LenProperties
<1>3. Lists(q) \in Seq(Seq(Callers)) /\ Len(Lists(q)) = n
    BY ListsType
<1>4. /\ t \in Seq(Seq(Callers)) /\ Len(t) = n + 1
      /\ \A i \in 1..n : t[i] = Lists(q)[i]
      /\ t[n + 1] = e.waiters
    BY <1>1, <1>3, AppendProperties, LenProperties
<1>5. s \in Seq(Seq(Callers)) /\ Len(s) = n + 1
    BY <1>2, ListsType
<1>6. ASSUME NEW i \in 1..(n + 1)
      PROVE  s[i] = t[i]
    <2>1. s[i] = Append(q, e)[i].waiters
        BY <1>2 DEF Lists
    <2>2. i \in 1..n => Lists(q)[i] = q[i].waiters
        BY DEF Lists
    <2>3. i \in 1..n \/ i = n + 1
        BY <1>1
    <2>4. QED
        BY <1>2, <1>4, <2>1, <2>2, <2>3
<1> HIDE DEF s, t, n
<1>7. s = t
    BY <1>4, <1>5, <1>6, SeqEqual
<1>8. QED
    BY <1>7 DEF s, t

LEMMA ListsTail ==
    ASSUME NEW q \in Seq(Entries), q # <<>>
    PROVE  /\ Lists(Tail(q)) = Tail(Lists(q))
           /\ Head(Lists(q)) = Head(q).waiters
           /\ Lists(q) # <<>>
<1> DEFINE n == Len(Tail(q))
           s == Lists(Tail(q))
           t == Tail(Lists(q))
<1>1. /\ Tail(q) \in Seq(Entries) /\ n \in Nat /\ Len(q) = n + 1
      /\ \A i \in 1..n : Tail(q)[i] = q[i + 1]
      /\ Head(q) = q[1]
    BY HeadTailProperties, LenProperties
<1>2. Lists(q) \in Seq(Seq(Callers)) /\ Len(Lists(q)) = n + 1
    BY <1>1, ListsType
<1>3. Lists(q) # <<>>
    BY <1>1, <1>2, EmptySeq
<1>4. /\ t \in Seq(Seq(Callers)) /\ Len(t) = n
      /\ \A i \in 1..n : t[i] = Lists(q)[i + 1]
      /\ Head(Lists(q)) = Lists(q)[1]
    BY <1>1, <1>2, <1>3, HeadTailProperties, LenProperties, SMTT(60)
<1>5. s \in Seq(Seq(Callers)) /\ Len(s) = n
    BY <1>1, ListsType
<1>6. ASSUME NEW i \in 1..n
      PROVE  s[i] = t[i]
    <2>1. s[i] = Tail(q)[i].waiters
        BY DEF Lists
    <2>2. i + 1 \in 1..Len(q)
        BY <1>1
    <2>3. Lists(q)[i + 1] = q[i + 1].waiters
        BY <2>2 DEF Lists
    <2>4. QED
        BY <1>1, <1>4, <2>1, <2>3
<1>7. Lists(q)[1] = q[1].waiters
    BY <1>1 DEF Lists
<1> HIDE DEF s, t, n
<1>8. s = t
    BY <1>4, <1>5, <1>6, SeqEqual
<1>9. QED
    BY <1>1, <1>3, <1>4, <1>7, <1>8 DEF s, t

\* A queue is its last entry behind the others, whatever the last entry is.
LEMMA LastEntry ==
    ASSUME NEW q \in Seq(Entries), q # <<>>
    PROVE  \E front \in Seq(Entries) :
                /\ q = Append(front, q[Len(q)])
                /\ \A e \in Entries : [q EXCEPT ![Len(q)] = e] = Append(front, e)
<1> DEFINE n == Len(q)
           front == [i \in 1..(n - 1) |-> q[i]]
<1>1. n \in Nat \ {0} /\ n \in 1..n
    BY LenProperties, EmptySeq
<1>2. \A i \in 1..n : q[i] \in Entries
    BY ElementOfSeq
<1>3. front \in Seq(Entries) /\ Len(front) = n - 1
    <2>1. n - 1 \in Nat /\ \A i \in 1..(n - 1) : q[i] \in Entries
        BY <1>1, <1>2
    <2>2. front \in [1..(n - 1) -> Entries]
        BY <2>1
    <2>3. QED
        BY <2>1, <2>2, FunctionIsSeq
<1>4. ASSUME NEW e \in Entries
      PROVE  [q EXCEPT ![n] = e] = Append(front, e)
    <2> DEFINE s == [q EXCEPT ![n] = e]
               t == Append(front, e)
    <2>1. s \in Seq(Entries) /\ Len(s) = n /\ \A i \in 1..n : s[i] = IF i = n THEN e ELSE q[i]
        BY <1>1, ExceptSeq, LenProperties
    <2>2. /\ t \in Seq(Entries) /\ Len(t) = Len(front) + 1
          /\ \A i \in 1..Len(front) : t[i] = front[i]
          /\ t[Len(front) + 1] = e
        BY <1>3, AppendProperties, LenProperties
    <2>3. Len(t) = n /\ t[n] = e /\ \A i \in 1..(n - 1) : t[i] = q[i]
        BY <1>1, <1>3, <2>2
    <2> HIDE DEF s, t
    <2>4. \A i \in 1..n : s[i] = t[i]
        BY <1>1, <2>1, <2>3
    <2>5. s = t
        BY <2>1, <2>2, <2>3, <2>4, SeqEqual
    <2>6. QED
        BY <2>5 DEF s, t
<1>5. [q EXCEPT ![n] = q[n]] = q
    BY <1>1, LenProperties
<1>6. q = Append(front, q[n])
    BY <1>1, <1>2, <1>4, <1>5
<1> HIDE DEF front
<1>7. QED
    BY <1>3, <1>4, <1>6

LineOf(q) == FlattenSeq(Lists(q))

LEMMA LineIs == Line = LineOf(queue) /\ Line' = LineOf(queue')
BY DEF Line, WaiterLists, LineOf, Lists

LEMMA LineType ==
    ASSUME NEW q \in Seq(Entries)
    PROVE  LineOf(q) \in Seq(Callers)
BY ListsType, FlattenType DEF LineOf

LEMMA LineEmpty == LineOf(<<>>) = <<>>
<1>1. Lists(<<>>) = <<>>
    BY DEF Lists
<1>2. QED
    BY <1>1, FlattenEmpty DEF LineOf

LEMMA OneMore ==
    ASSUME NEW S, NEW s \in Seq(S), NEW e \in S
    PROVE  s \o <<e>> = Append(s, e)
BY AppendIsConcat

\* A command of its own, and one that joins the last entry, both put their
\* caller at the end of the line.
LEMMA LineAppend ==
    ASSUME NEW q \in Seq(Entries), NEW r \in Commands, NEW c \in Callers
    PROVE  LineOf(Append(q, [command |-> r, waiters |-> <<c>>])) = Append(LineOf(q), c)
<1> DEFINE e == [command |-> r, waiters |-> <<c>>]
<1>1. e \in Entries /\ e.waiters = <<c>> /\ <<c>> \in Seq(Callers)
    BY DEF Entries
<1> HIDE DEF e
<1>2. Lists(Append(q, e)) = Append(Lists(q), <<c>>)
    BY <1>1, ListsAppend
<1>3. LineOf(Append(q, e)) = LineOf(q) \o <<c>>
    BY <1>1, <1>2, ListsType, FlattenAppend DEF LineOf
<1>4. QED
    BY <1>3, LineType, OneMore DEF e

LEMMA LineJoin ==
    ASSUME NEW q \in Seq(Entries), q # <<>>, NEW r \in Commands, NEW c \in Callers
    PROVE  LineOf([q EXCEPT ![Len(q)] =
                [command |-> r, waiters |-> Append(q[Len(q)].waiters, c)]])
             = Append(LineOf(q), c)
<1> DEFINE last == q[Len(q)]
           e == [command |-> r, waiters |-> Append(last.waiters, c)]
<1>1. last \in Entries
    BY LenProperties, EmptySeq, ElementOfSeq
<1>2. last.waiters \in Seq(Callers) /\ Append(last.waiters, c) \in Seq(Callers)
    BY <1>1, AppendProperties DEF Entries
<1>3. e \in Entries /\ e.waiters = Append(last.waiters, c)
    BY <1>2 DEF Entries
<1> HIDE DEF e
<1>4. PICK front \in Seq(Entries) :
        /\ q = Append(front, last)
        /\ \A x \in Entries : [q EXCEPT ![Len(q)] = x] = Append(front, x)
    BY LastEntry
<1> HIDE DEF last
<1>5. /\ Lists(q) = Append(Lists(front), last.waiters)
      /\ Lists(Append(front, e)) = Append(Lists(front), Append(last.waiters, c))
    BY <1>1, <1>3, <1>4, ListsAppend
<1>6. LineOf(Append(front, e)) = Append(LineOf(q), c)
    BY <1>2, <1>5, ListsType, FlattenExtend DEF LineOf
<1>7. QED
    BY <1>3, <1>4, <1>6 DEF e, last

LEMMA LineTail ==
    ASSUME NEW q \in Seq(Entries), q # <<>>
    PROVE  LineOf(q) = Head(q).waiters \o LineOf(Tail(q))
BY ListsType, ListsTail, FlattenHead DEF LineOf

\* The first callers of a line are those of its first part.
LEMMA FirstPart ==
    ASSUME NEW S, NEW s \in Seq(S), NEW t \in Seq(S)
    PROVE  /\ SubSeq(s \o t, 1, Len(s)) = s
           /\ SubSeq(s \o t, Len(s) + 1, Len(s \o t)) = t
           /\ Len(s \o t) = Len(s) + Len(t)
           /\ \A i \in 1..Len(s) : (s \o t)[i] = s[i]
BY ConcatProperties, LenProperties, SubSeqProperties, SeqEqual

-----------------------------------------------------------------------------
(* The invariant of the mapping                                            *)

\* A step of a caller decides nobody else's call, and its own only by ending it.
LEMMA UndecidedMove ==
    ASSUME Undecided, NEW c \in Callers, CallerMove(c)
    PROVE  Undecided'
BY DEF Undecided, CallerMove

LEMMA UndecidedTold ==
    ASSUME Undecided, \A d \in Callers : Told(d)
    PROVE  Undecided'
BY DEF Undecided, Told

\* Shared(e) is what EntriesShared says of an entry.
Shared(e) ==
    /\ e.waiters # <<>>
    /\ Len(e.waiters) > 1 => e.command \in Coalescible

LEMMA SharedEntries ==
    /\ EntriesShared <=> \A i \in 1..Len(queue) : Shared(queue[i])
    /\ EntriesShared' <=> \A i \in 1..Len(queue') : Shared(queue'[i])
BY DEF EntriesShared, Shared

LEMMA SharedKept ==
    ASSUME TypeOK, EntriesShared,
           queue' \in {queue, <<>>} \/ (queue # <<>> /\ queue' = Tail(queue))
    PROVE  EntriesShared'
<1>1. \A i \in 1..Len(queue) : Shared(queue[i])
    BY SharedEntries
<1>2. queue \in Seq(Entries)
    BY DEF TypeOK
<1>3. CASE queue' \in {queue, <<>>}
    BY <1>1, <1>3, SharedEntries
<1>4. CASE queue # <<>> /\ queue' = Tail(queue)
    <2>1. \A i \in 1..Len(queue') : i + 1 \in 1..Len(queue) /\ queue'[i] = queue[i + 1]
        BY <1>2, <1>4, LenProperties
    <2>2. QED
        BY <1>1, <2>1, SharedEntries
<1>5. QED
    BY <1>3, <1>4

LEMMA SharedEnqueue ==
    ASSUME TypeOK, EntriesShared, NEW c \in Callers, Enqueue(c)
    PROVE  EntriesShared'
<1>1. \A i \in 1..Len(queue) : Shared(queue[i])
    BY SharedEntries
<1>2. queue \in Seq(Entries)
    BY DEF TypeOK
<1>3. CASE queue' = queue
    BY <1>1, <1>3, SharedEntries
<1>4. CASE CanCoalesce(c) /\ queue' = Coalesce(c)
    <2> DEFINE n == Len(queue)
               w == Append(queue[n].waiters, c)
               last == [command |-> request[c], waiters |-> w]
    <2>1. queue # <<>> /\ request[c] \in Coalescible
        BY <1>4 DEF CanCoalesce
    <2>2. n \in Nat /\ n \in 1..n
        BY <1>2, <2>1, LenProperties, EmptySeq
    <2>3. queue[n].waiters \in Seq(Callers)
        <3>1. queue[n] \in Entries
            BY <1>2, <2>2, ElementOfSeq
        <3>2. QED
            BY <3>1 DEF Entries
    <2>4. w # <<>>
        BY <2>3, AppendProperties
    <2>5. /\ Len(queue') = n
          /\ \A i \in 1..n : queue'[i] = IF i = n THEN last ELSE queue[i]
        BY <1>2, <1>4, <2>2, LenProperties DEF Coalesce
    <2> HIDE DEF n, w
    <2>6. Shared(last)
        BY <2>1, <2>4 DEF Shared
    <2> HIDE DEF last
    <2>7. \A i \in 1..n : Shared(queue[i])
        BY <1>1 DEF n
    <2>8. QED
        BY <2>5, <2>6, <2>7, SharedEntries
<1>5. CASE queue' = Append(queue, [command |-> request[c], waiters |-> <<c>>])
    <2> DEFINE e == [command |-> request[c], waiters |-> <<c>>]
    <2>1. Shared(e)
        BY DEF Shared
    <2> HIDE DEF e
    <2>2. /\ Len(queue') = Len(queue) + 1 /\ Len(queue) \in Nat
          /\ \A i \in 1..Len(queue) : queue'[i] = queue[i]
          /\ queue'[Len(queue) + 1] = e
        BY <1>2, <1>5, LenProperties DEF e
    <2>3. QED
        BY <1>1, <2>1, <2>2, SharedEntries
<1>6. QED
    BY <1>3, <1>4, <1>5 DEF Enqueue

LEMMA QueueOfCaller ==
    ASSUME NEW c \in Callers, (\E r \in Offered : Call(c, r)) \/ CallerStep(c) \/ Cancel(c)
    PROVE  /\ active' = active /\ current' = current /\ closed' = closed
           /\ worker' = worker \/ (worker' = "new" /\ worker \in {"none", "done"})
           /\ ~Enqueue(c) => queue' = queue /\ worker' = worker
BY DEF CallerStep, Call, Start, Restart, BindDone, BindFails, Enqueue, Cancel,
       workerVars, lifecycleVars

LEMMA ServiceOfCaller ==
    ASSUME ServiceInv, NEW c \in Callers,
           (\E r \in Offered : Call(c, r)) \/ CallerStep(c) \/ Cancel(c)
    PROVE  ServiceInv'
<1>1. TypeOK /\ SuccessInv
    BY DEF ServiceInv, SuccessInv, QueueInv
<1>2. SuccessInv'
    BY <1>1, CallerSuccessStep
<1>3. Undecided'
    BY <1>1, CallerMoves, UndecidedMove DEF ServiceInv
<1>4. ActiveServed'
    BY QueueOfCaller DEF ServiceInv, ActiveServed
<1>5. EntriesShared'
    BY <1>1, QueueOfCaller, SharedEnqueue, SharedKept DEF ServiceInv
<1>6. QED
    BY <1>2, <1>3, <1>4, <1>5 DEF ServiceInv

\* The waiters of the first entry.
LEMMA FirstEntry ==
    ASSUME TypeOK, queue # <<>>
    PROVE  /\ queue \in Seq(Entries) /\ 1 \in 1..Len(queue) /\ Head(queue) = queue[1]
           /\ Head(queue) \in Entries /\ Head(queue).waiters \in Seq(Callers)
<1>1. queue \in Seq(Entries)
    BY DEF TypeOK
<1>2. 1 \in 1..Len(queue) /\ Head(queue) = queue[1]
    BY <1>1, LenProperties, EmptySeq
<1>3. Head(queue) \in Entries
    BY <1>1, <1>2, ElementOfSeq
<1>4. QED
    BY <1>1, <1>2, <1>3 DEF Entries

LEMMA WorkerFrame ==
    ASSUME ActiveServed, EntriesShared, TypeOK, WorkerStep
    PROVE  /\ closed' = closed
           /\ queue' = queue \/ (queue # <<>> /\ queue' = Tail(queue))
           /\ worker' = "exchange" =>
                /\ queue # <<>> /\ current' = Head(queue).waiters
                /\ active' = current' /\ current' # <<>>
<1>1. queue # <<>> => Head(queue).waiters # <<>>
    BY FirstEntry DEF EntriesShared
<1>2. CASE WorkerFetch
    BY <1>1, <1>2 DEF WorkerFetch, Execute, lifecycleVars
<1>3. CASE WorkerStart \/ WorkerSettle \/ WorkerExit
    BY <1>3 DEF WorkerStart, WorkerSettle, WorkerExit, lifecycleVars
<1>4. CASE WorkerCancelled
    BY <1>4, TasksFacts DEF WorkerCancelled, Conclude, lifecycleVars
<1>5. QED
    BY <1>2, <1>3, <1>4 DEF WorkerStep

LEMMA ServiceStep == ServiceInv /\ [Next]_vars => ServiceInv'
<1> SUFFICES ASSUME ServiceInv, [Next]_vars PROVE ServiceInv'
    OBVIOUS
<1>1. TypeOK /\ ExchangeOwners /\ SuccessInv'
    BY SuccessStep DEF ServiceInv, SuccessInv, QueueInv
<1>2. /\ EntriesShared /\ ActiveServed /\ Undecided
    BY DEF ServiceInv
<1>3. CASE UNCHANGED vars
    BY <1>1, <1>2, <1>3
    DEF vars, callerVars, workerVars, ServiceInv, EntriesShared, ActiveServed, Undecided
<1>4. ASSUME queue' \in {queue, <<>>}, \A d \in Callers : Told(d),
             UNCHANGED <<current, active>>, worker' = worker \/ worker' = "settle"
      PROVE  ServiceInv'
    <2>1. ActiveServed'
        BY <1>2, <1>4 DEF ActiveServed
    <2>2. QED
        BY <1>1, <1>2, <1>4, <2>1, SharedKept, UndecidedTold DEF ServiceInv
<1>5. ASSUME NEW p \in Tasks, ExchangeStep(p) \/ Expire(p)
      PROVE  ServiceInv'
    <2>1. \A d \in Callers : Told(d)
        BY <1>1, <1>5, ExchangeMoves
    <2>2. UNCHANGED exchangeFrame /\ (worker' = worker \/ worker' = "settle")
        BY <1>1, <1>5, ExchangeEnds
    <2>3. QED
        BY <1>4, <2>1, <2>2 DEF exchangeFrame
<1>6. ASSUME NEW s \in States, NEW kind, NEW matched, Receive(s, kind, matched)
      PROVE  ServiceInv'
    <2>1. \A d \in Callers : Told(d)
        BY <1>1, <1>6, ReceiveMoves
    <2>2. UNCHANGED <<queue, current, active, worker>>
        BY <1>6 DEF Receive, workerVars
    <2>3. QED
        BY <1>4, <2>1, <2>2
<1>7. ASSUME NEW k \in Closers, CloseCall(k) \/ CloseStep(k)
      PROVE  ServiceInv'
    <2>1. \A d \in Callers : Told(d)
        BY <1>1, <1>7, CloseMoves
    <2>2. UNCHANGED <<current, active, worker>> /\ queue' \in {queue, <<>>}
        BY <1>7 DEF CloseCall, CloseStep, CloseBegin, CloseDrain, CloseRelease,
                    CloseJoin, workerVars
    <2>3. QED
        BY <1>4, <2>1, <2>2
<1>8. ASSUME WorkerStep
      PROVE  ServiceInv'
    <2>1. \A d \in Callers : Told(d)
        BY <1>1, <1>8, WorkerMoves
    <2>2. ActiveServed'
        BY <1>1, <1>2, <1>8, WorkerFrame DEF ActiveServed
    <2>3. EntriesShared'
        BY <1>1, <1>2, <1>8, WorkerFrame, SharedKept
    <2>4. QED
        BY <1>1, <1>2, <2>1, <2>2, <2>3, UndecidedTold DEF ServiceInv
<1>9. QED
    BY <1>3, <1>5, <1>6, <1>7, <1>8, ServiceOfCaller DEF Next

LEMMA ServiceInit == Init => ServiceInv
<1> SUFFICES ASSUME Init PROVE ServiceInv
    OBVIOUS
<1>1. EntriesShared /\ ActiveServed /\ Undecided
    BY DEF Init, EntriesShared, ActiveServed, Undecided, Unsettled
<1>2. QED
    BY <1>1, SuccessInit DEF ServiceInv

LEMMA ServiceInvariance == Spec => []ServiceInv
BY ServiceInit, ServiceStep, PTL DEF Spec

-----------------------------------------------------------------------------
(* Every step is a step of the service, or none                            *)

Mapped == Service!Next \/ UNCHANGED Service!vars

Sharing == {d \in Callers : request[d] \in Coalescible}

LEMMA SameAnswer ==
    ASSUME NEW d, pc'[d] = pc[d], outcome'[d] = outcome[d], request'[d] = request[d]
    PROVE  AnswerOf(d)' = AnswerOf(d)
BY DEF AnswerOf

\* A caller of command() is open while it waits, and out before.
LEMMA OpenWaits ==
    ASSUME ServiceInv, NEW d \in Callers
    PROVE  /\ AnswerOf(d) = "open" <=> pc[d] = "waiting"
           /\ pc[d] \notin {"waiting", "done"} => AnswerOf(d) = "out"
<1>1. pc[d] = "waiting" => request[d] \in Commands
    BY DEF ServiceInv, SuccessInv, QueueInv, RequestPlaces
<1>2. pc[d] # "done" => outcome[d].kind = "none"
    BY DEF ServiceInv, Undecided
<1>3. QED
    BY <1>1, <1>2 DEF AnswerOf, ResultOf

LEMMA Quiet ==
    ASSUME UNCHANGED <<queue, closed>>, Serving' = Serving, Sharing' = Sharing,
           \A d \in Callers : AnswerOf(d)' = AnswerOf(d)
    PROVE  UNCHANGED Service!vars
<1>1. Line' = Line
    BY DEF Line, WaiterLists
<1>2. [d \in Callers |-> AnswerOf(d)]' = [d \in Callers |-> AnswerOf(d)]
    OBVIOUS
<1>3. QED
    BY <1>1, <1>2 DEF Service!vars, Sharing

\* The answers of a step that concerns caller c alone.
LEMMA OneAnswer ==
    ASSUME NEW c \in Callers, \A d \in Callers : d # c => AnswerOf(d)' = AnswerOf(d)
    PROVE  [d \in Callers |-> AnswerOf(d)]'
             = [[d \in Callers |-> AnswerOf(d)] EXCEPT ![c] = AnswerOf(c)']
OBVIOUS

LEMMA CallerAsks ==
    ASSUME ServiceInv, NEW c \in Callers, NEW r \in Offered, Call(c, r)
    PROVE  Mapped
<1>1. TypeOK
    BY DEF ServiceInv, SuccessInv, QueueInv
<1>2. /\ pc[c] = "idle" /\ UNCHANGED <<queue, closed, worker, current, outcome>>
      /\ pc' = [pc EXCEPT ![c] = "start"]
      /\ request' = [request EXCEPT ![c] = r]
    BY DEF Call, workerVars, lifecycleVars
<1>3. pc'[c] = "start" /\ request'[c] = r /\ outcome'[c] = outcome[c]
      /\ \A d \in Callers : d # c => pc'[d] = pc[d] /\ request'[d] = request[d]
    BY <1>1, <1>2 DEF TypeOK
<1>4. AnswerOf(c) = "out"
    BY <1>2, OpenWaits
<1>5. AnswerOf(c)' = "out"
    <2>1. outcome'[c].kind = "none"
        BY <1>2, <1>3 DEF ServiceInv, Undecided
    <2>2. QED
        BY <1>3, <2>1 DEF AnswerOf, ResultOf
<1>6. \A d \in Callers : AnswerOf(d)' = AnswerOf(d)
    BY <1>2, <1>3, <1>4, <1>5, SameAnswer
<1>7. Sharing' \in {Sharing \cup {c}, Sharing \ {c}}
    BY <1>3 DEF Sharing
<1>8. Line' = Line /\ Serving' = Serving
    BY <1>2 DEF Line, WaiterLists, Serving
<1>9. Service!Ask(c)
    BY <1>2, <1>4, <1>6, <1>7, <1>8 DEF Service!Ask, Sharing
<1>10. QED
    BY <1>9 DEF Mapped, Service!Next

LEMMA CallerRefused ==
    ASSUME ServiceInv, TypeOK', NEW c \in Callers, CallerMove(c),
           UNCHANGED <<queue, closed, request>>, Serving' = Serving,
           pc[c] # "waiting", pc'[c] # "waiting"
    PROVE  Mapped
<1>1. \A d \in Callers : d # c => AnswerOf(d)' = AnswerOf(d)
    BY SameAnswer DEF CallerMove
<1>2. AnswerOf(c) = "out"
    BY OpenWaits DEF CallerMove
<1>3. AnswerOf(c)' \in {"out", "failed", "cancelled"}
    <2>1. outcome'[c].kind = "ok" => request'[c] \notin Commands
        <3>1. outcome'[c] = outcome[c] => outcome'[c].kind = "none"
            BY DEF CallerMove, ServiceInv, Undecided
        <3>2. QED
            BY <3>1, ClientAssumption DEF CallerMove
    <2>2. QED
        BY <2>1 DEF AnswerOf, ResultOf
<1>4. Sharing' = Sharing /\ Line' = Line
    BY DEF Sharing, Line, WaiterLists
<1>5. CASE AnswerOf(c)' = "out"
    <2>1. \A d \in Callers : AnswerOf(d)' = AnswerOf(d)
        BY <1>1, <1>2, <1>5
    <2>2. QED
        BY <1>4, <2>1, Quiet DEF Mapped
<1>6. CASE AnswerOf(c)' \in {"failed", "cancelled"}
    <2>1. Service!Refuse(c)
        BY <1>1, <1>2, <1>4, <1>6, OneAnswer DEF Service!Refuse, Sharing
    <2>2. QED
        BY <2>1 DEF Mapped, Service!Next
<1>7. QED
    BY <1>3, <1>5, <1>6

LEMMA CallerAccepted ==
    ASSUME ServiceInv, NEW c \in Callers, Enqueue(c), ~closed
    PROVE  Mapped
<1>1. /\ TypeOK /\ queue \in Seq(Entries)
      /\ request[c] \in Commands
    BY DEF Enqueue, ServiceInv, SuccessInv, QueueInv, RequestPlaces, TypeOK
<1>2. /\ pc[c] = "enqueue" /\ UNCHANGED <<closed, request, current, outcome>>
      /\ pc' = [pc EXCEPT ![c] = "waiting"]
      /\ worker' = worker \/ (worker' = "new" /\ worker \in {"none", "done"})
      /\ queue' = IF CanCoalesce(c) THEN Coalesce(c)
                  ELSE Append(queue, [command |-> request[c], waiters |-> <<c>>])
    BY DEF Enqueue, lifecycleVars
<1>3. pc'[c] = "waiting" /\ \A d \in Callers : d # c => pc'[d] = pc[d]
    BY <1>1, <1>2 DEF TypeOK
<1>4. AnswerOf(c) = "out"
    BY <1>2, OpenWaits
<1>5. AnswerOf(c)' = "open"
    <2>1. request'[c] \in Commands
        BY <1>1, <1>2
    <2>2. QED
        BY <1>3, <2>1 DEF AnswerOf
<1>6. \A d \in Callers : d # c => AnswerOf(d)' = AnswerOf(d)
    BY <1>2, <1>3, SameAnswer
<1>7. Line' = Append(Line, c)
    <2>1. CASE CanCoalesce(c)
        <3>1. queue # <<>> /\ queue' = Coalesce(c)
            BY <1>2, <2>1 DEF CanCoalesce
        <3>2. QED
            BY <1>1, <3>1, LineIs, LineJoin DEF Coalesce
    <2>2. CASE ~CanCoalesce(c)
        BY <1>1, <1>2, <2>2, LineIs, LineAppend
    <2>3. QED
        BY <2>1, <2>2
<1>8. Serving' = Serving /\ Sharing' = Sharing
    BY <1>2 DEF Serving, Sharing
<1>9. Service!Accept(c)
    BY <1>2, <1>4, <1>5, <1>6, <1>7, <1>8, OneAnswer DEF Service!Accept, Sharing
<1>10. QED
    BY <1>9 DEF Mapped, Service!Next

LEMMA WaiterCancelled ==
    ASSUME ServiceInv, NEW c \in Callers, Cancel(c), pc[c] = "waiting"
    PROVE  Mapped
<1>1. /\ Finish(c, Failure("cancelled"))
      /\ UNCHANGED <<queue, closed, request, current, worker>>
    BY DEF Cancel, workerVars
<1>2. TypeOK /\ request[c] \in Commands
    BY DEF ServiceInv, SuccessInv, QueueInv, RequestPlaces
<1>3. /\ pc'[c] = "done" /\ outcome'[c] = Failure("cancelled")
      /\ \A d \in Callers : d # c => pc'[d] = pc[d] /\ outcome'[d] = outcome[d]
    BY <1>1, <1>2, FinishEnds
<1>4. AnswerOf(c) = "open"
    BY OpenWaits
<1>5. AnswerOf(c)' = "cancelled"
    BY <1>1, <1>2, <1>3 DEF AnswerOf, ResultOf, Failure
<1>6. \A d \in Callers : d # c => AnswerOf(d)' = AnswerOf(d)
    BY <1>1, <1>3, SameAnswer
<1>7. Line' = Line /\ Serving' = Serving /\ Sharing' = Sharing
    BY <1>1 DEF Line, WaiterLists, Serving, Sharing
<1>8. Service!Cancel(c)
    BY <1>1, <1>4, <1>5, <1>6, <1>7, OneAnswer DEF Service!Cancel, Sharing
<1>9. QED
    BY <1>8 DEF Mapped, Service!Next

LEMMA CallerMapped ==
    ASSUME ServiceInv, TypeOK', NEW c \in Callers,
           (\E r \in Offered : Call(c, r)) \/ CallerStep(c) \/ Cancel(c)
    PROVE  Mapped
<1>1. CASE \E r \in Offered : Call(c, r)
    BY <1>1, CallerAsks
<1>2. CASE Enqueue(c) /\ ~closed
    BY <1>2, CallerAccepted
<1>3. CASE Cancel(c) /\ pc[c] = "waiting"
    BY <1>3, WaiterCancelled
<1>4. ASSUME CallerStep(c) \/ Cancel(c), ~(Enqueue(c) /\ ~closed),
             ~(Cancel(c) /\ pc[c] = "waiting")
      PROVE  Mapped
    <2>1. TypeOK /\ CallerMove(c)
        BY <1>4, CallerMoves DEF ServiceInv, SuccessInv, QueueInv
    <2>2. /\ UNCHANGED <<queue, closed, request, worker, current>>
          /\ pc[c] # "waiting"
        BY <1>4 DEF CallerStep, Start, Restart, BindDone, BindFails, Enqueue, Cancel,
                    workerVars, lifecycleVars
    <2>3. pc'[c] # "waiting"
        <3>1. pc \in [Callers -> Positions]
            BY <2>1 DEF TypeOK
        <3>2. QED
            BY <1>4, <3>1
            DEF CallerStep, Start, StartClosed, StartAgain, StartBinding, Restart,
                BindDone, BindFails, Enqueue, Cancel, Proceed, BeginRefresh, Finish
    <2>4. Serving' = Serving
        BY <2>2 DEF Serving
    <2>5. QED
        BY <2>1, <2>2, <2>3, <2>4, CallerRefused
<1>5. QED
    BY <1>1, <1>2, <1>3, <1>4

LEMMA SettledAnswers ==
    ASSUME ServiceInv, request' = request, NEW w, NEW o, Settle(w, o),
           o.kind \notin {"none", "cancelled"}, NEW d \in Callers
    PROVE  AnswerOf(d)' = IF d \in Members(w) /\ AnswerOf(d) = "open"
                          THEN ResultOf(o) ELSE AnswerOf(d)
<1>1. TypeOK
    BY DEF ServiceInv, SuccessInv, QueueInv
<1>2. CASE outcome'[d] = outcome[d] /\ pc'[d] = pc[d]
    <2>1. ~(d \in Members(w) /\ pc[d] = "waiting")
        BY <1>1, <1>2, SettleEnds
    <2>2. QED
        BY <1>2, <2>1, OpenWaits, SameAnswer
<1>3. CASE d \in Members(w) /\ pc[d] = "waiting" /\ pc'[d] = "done" /\ outcome'[d] = o
    <2>1. request'[d] \in Commands
        BY <1>3 DEF ServiceInv, SuccessInv, QueueInv, RequestPlaces
    <2>2. AnswerOf(d)' = ResultOf(o)
        BY <1>3, <2>1 DEF AnswerOf
    <2>3. QED
        BY <1>3, <2>2, OpenWaits
<1>4. QED
    BY <1>1, <1>2, <1>3, SettleTold

\* The worker's exchange ends: its callers get one answer.
LEMMA Completed ==
    ASSUME ServiceInv, NEW o, Conclude(Worker, o), worker = "exchange",
           o.kind \notin {"none", "cancelled"},
           UNCHANGED <<queue, closed, request>>
    PROVE  Mapped
<1>1. Settle(current, o) /\ worker' = "settle"
    BY DEF Conclude
<1>2. Serving = current /\ current # <<>> /\ Serving' = <<>>
    BY <1>1 DEF Serving, ServiceInv, ActiveServed
<1>3. \A d \in Callers :
        AnswerOf(d)' = IF d \in Members(current) /\ AnswerOf(d) = "open"
                       THEN ResultOf(o) ELSE AnswerOf(d)
    BY <1>1, SettledAnswers
<1>4. Service!In(Serving) = Members(current)
    BY <1>2 DEF Service!In, Members
<1>5. Service!AnswerAll(Members(current), ResultOf(o))
    BY <1>3 DEF Service!AnswerAll
<1>6. Line' = Line /\ Sharing' = Sharing
    BY DEF Line, WaiterLists, Sharing
<1>7. Service!Complete(ResultOf(o))
    BY <1>2, <1>4, <1>5, <1>6 DEF Service!Complete, Sharing
<1>8. ResultOf(o) \in {"ok", "failed"}
    BY DEF ResultOf
<1>9. QED
    BY <1>7, <1>8 DEF Mapped, Service!Next

LEMMA ExchangeMapped ==
    ASSUME ServiceInv, NEW p \in Tasks, ExchangeStep(p) \/ Expire(p)
    PROVE  Mapped
<1>1. /\ TypeOK /\ ExchangeOwners
    BY DEF ServiceInv, SuccessInv, QueueInv
<1>2. UNCHANGED <<queue, closed, request, current>>
    BY DEF ExchangeStep, SendQuery, Resume, Retry, GiveUp, Expire, exchangeFrame,
           lifecycleVars
<1>3. exchange[p].phase # "none"
    BY DEF ExchangeStep, SendQuery, Resume, Retry, GiveUp, Expire
<1>4. \/ UNCHANGED <<pc, outcome, worker>>
      \/ \E o : Conclude(p, o) /\ o.kind \notin {"none", "cancelled"}
    BY DEF ExchangeStep, SendQuery, Resume, Retry, GiveUp, Expire, AwaitAnswer,
           callerVars, Verdict, Failure, Success
<1>5. CASE UNCHANGED <<pc, outcome, worker>>
    <2>1. Serving' = Serving /\ Sharing' = Sharing
        BY <1>2, <1>5 DEF Serving, Sharing
    <2>2. \A d \in Callers : AnswerOf(d)' = AnswerOf(d)
        BY <1>2, <1>5, SameAnswer
    <2>3. QED
        BY <1>2, <2>1, <2>2, Quiet DEF Mapped
<1>6. ASSUME NEW o, Conclude(p, o), o.kind \notin {"none", "cancelled"}
      PROVE  Mapped
    <2>1. CASE p = Worker
        BY <1>1, <1>2, <1>3, <1>6, <2>1, Completed DEF ExchangeOwners
    <2>2. CASE p # Worker
        <3>1. p \in Callers /\ pc[p] = "refresh"
            BY <1>1, <1>3, <2>2, TasksFacts DEF ExchangeOwners
        <3>2. request[p] \notin Commands
            BY <3>1, ClientAssumption
            DEF ServiceInv, SuccessInv, QueueInv, RequestPlaces
        <3>3. Finish(p, o) /\ worker' = worker
            BY <1>6, <2>2 DEF Conclude
        <3>4. \A d \in Callers : d # p => AnswerOf(d)' = AnswerOf(d)
            BY <1>1, <1>2, <3>1, <3>3, FinishEnds, SameAnswer
        <3>5. AnswerOf(p)' = AnswerOf(p)
            BY <1>2, <3>2 DEF AnswerOf
        <3>6. Serving' = Serving /\ Sharing' = Sharing
            BY <1>2, <3>3 DEF Serving, Sharing
        <3>7. QED
            BY <1>2, <3>4, <3>5, <3>6, Quiet DEF Mapped
    <2>3. QED
        BY <2>1, <2>2
<1>7. QED
    BY <1>4, <1>5, <1>6

\* The waiters of the first entry are the first of the line, and share its
\* execution only if all asked for percentage writes.
LEMMA FirstServed ==
    ASSUME ServiceInv, worker = "fetch", queue # <<>>, queue' = Tail(queue)
    PROVE  LET w == Head(queue).waiters IN
           /\ Len(w) \in 1..Len(Line)
           /\ SubSeq(Line, 1, Len(w)) = w
           /\ Service!Front(Len(w))
<1> DEFINE w == Head(queue).waiters
           n == Len(w)
<1>1. TypeOK
    BY DEF ServiceInv, SuccessInv, QueueInv
<1>2. /\ queue \in Seq(Entries) /\ 1 \in 1..Len(queue) /\ Head(queue) = queue[1]
      /\ w \in Seq(Callers)
    BY <1>1, FirstEntry
<1>3. w # <<>> /\ (n > 1 => Head(queue).command \in Coalescible)
    BY <1>2 DEF ServiceInv, EntriesShared
<1>4. n \in Nat \ {0}
    BY <1>2, <1>3, EmptySeq
<1>5. Line = w \o Line' /\ Line' \in Seq(Callers)
    <2>1. queue' \in Seq(Entries)
        BY <1>2, HeadTailProperties
    <2>2. QED
        BY <1>2, <2>1, LineIs, LineTail, LineType
<1> DEFINE rest == Line'
<1>6. /\ SubSeq(Line, 1, n) = w
      /\ SubSeq(Line, n + 1, Len(Line)) = rest
      /\ Len(Line) = n + Len(rest) /\ Len(rest) \in Nat
      /\ \A i \in 1..n : Line[i] = w[i]
    <2>1. w \in Seq(Callers) /\ rest \in Seq(Callers) /\ Line = w \o rest
        BY <1>2, <1>5
    <2> HIDE DEF w, rest
    <2>2. /\ SubSeq(w \o rest, 1, n) = w
          /\ SubSeq(w \o rest, n + 1, Len(w \o rest)) = rest
          /\ Len(w \o rest) = n + Len(rest) /\ Len(rest) \in Nat
          /\ \A i \in 1..n : (w \o rest)[i] = w[i]
        BY <2>1, FirstPart, LenProperties
    <2>3. QED
        BY <2>1, <2>2
<1>7. n \in 1..Len(Line)
    BY <1>4, <1>6
<1>8. \A d \in Members(w) : d \in Callers /\ Fits(Head(queue).command, d)
    BY <1>1, <1>2, WaitersAreCallers DEF ServiceInv, SuccessInv, WaitersFit
<1>9. n > 1 => \A i \in 1..n : Line[i] \in Sharing
    <2>1. n > 1 => \A d \in Members(w) : d \in Sharing
        BY <1>3, <1>8 DEF Fits, Sharing
    <2>2. \A i \in 1..n : w[i] \in Members(w)
        BY DEF Members
    <2>3. QED
        BY <1>6, <2>1, <2>2
<1>10. Serving = <<>>
    BY DEF Serving
<1> HIDE DEF n
<1>11. n = 1 \/ n > 1
    BY <1>4
<1>12. Service!Front(n)
    BY <1>6, <1>9, <1>10, <1>11 DEF Service!Front, Sharing
<1>13. QED
    BY <1>6, <1>7, <1>12 DEF n

LEMMA FetchMapped ==
    ASSUME ServiceInv, WorkerFetch
    PROVE  Mapped
<1>1. worker = "fetch" /\ UNCHANGED <<closed, request>>
    BY DEF WorkerFetch, lifecycleVars
<1>2. Serving = <<>> /\ Sharing' = Sharing
    BY <1>1 DEF Serving, Sharing
<1>3. CASE queue = <<>>
    <2>1. worker' = "exit" /\ UNCHANGED <<pc, outcome, queue>>
        BY <1>3 DEF WorkerFetch
    <2>2. Serving' = Serving
        BY <1>2, <2>1 DEF Serving
    <2>3. \A d \in Callers : AnswerOf(d)' = AnswerOf(d)
        BY <1>1, <2>1, SameAnswer
    <2>4. QED
        BY <1>1, <1>2, <2>1, <2>2, <2>3, Quiet DEF Mapped
<1>4. CASE queue # <<>>
    <2> DEFINE w == Head(queue).waiters
               n == Len(w)
    <2>1. /\ queue' = Tail(queue) /\ current' = w
          /\ Execute(Head(queue))
        BY <1>4 DEF WorkerFetch
    <2>2. n \in 1..Len(Line) /\ SubSeq(Line, 1, n) = w /\ Service!Front(n)
        BY <1>1, <1>4, <2>1, FirstServed
    <2>3. \/ /\ \E o : Settle(w, o) /\ o.kind \notin {"none", "ok", "cancelled"}
             /\ worker' = "settle"
          \/ ~closed /\ worker' = "exchange" /\ UNCHANGED <<pc, outcome>>
        BY <2>1 DEF Execute, Failure
    <2> HIDE DEF n
    <2>4. ASSUME NEW o, Settle(w, o), o.kind \notin {"none", "ok", "cancelled"},
                 worker' = "settle"
          PROVE  Mapped
        <3>1. \A d \in Callers :
                AnswerOf(d)' = IF d \in Members(w) /\ AnswerOf(d) = "open"
                               THEN "failed" ELSE AnswerOf(d)
            <4>1. ResultOf(o) = "failed"
                BY <2>4 DEF ResultOf
            <4>2. QED
                BY <1>1, <2>4, <4>1, SettledAnswers
        <3>2. Service!In(SubSeq(Line, 1, n)) = Members(w)
            BY <2>2 DEF Service!In, Members
        <3>3. Service!AnswerAll(Members(w), "failed")
            BY <3>1 DEF Service!AnswerAll
        <3>4. Serving' = Serving
            BY <1>2, <2>4 DEF Serving
        <3>5. Service!Drop(n)
            BY <1>1, <1>2, <2>2, <3>2, <3>3, <3>4 DEF Service!Drop, Sharing
        <3>6. QED
            BY <2>2, <3>5 DEF Mapped, Service!Next
    <2>5. ASSUME ~closed, worker' = "exchange", UNCHANGED <<pc, outcome>>
          PROVE  Mapped
        <3>1. Serving' = SubSeq(Line, 1, n)
            BY <2>1, <2>2, <2>5 DEF Serving
        <3>2. [d \in Callers |-> AnswerOf(d)]' = [d \in Callers |-> AnswerOf(d)]
            BY <1>1, <2>5, SameAnswer
        <3>3. Service!Serve(n)
            BY <1>1, <1>2, <2>2, <2>5, <3>1, <3>2 DEF Service!Serve, Sharing
        <3>4. QED
            BY <2>2, <3>3 DEF Mapped, Service!Next
    <2>6. QED
        BY <2>3, <2>4, <2>5
<1>5. QED
    BY <1>3, <1>4

LEMMA WorkerMapped ==
    ASSUME ServiceInv, WorkerStep
    PROVE  Mapped
<1>1. CASE WorkerFetch
    BY <1>1, FetchMapped
<1>2. CASE WorkerCancelled /\ worker = "exchange"
    <2>1. Conclude(Worker, Failure("closed")) /\ UNCHANGED <<queue, closed, request>>
        BY <1>2 DEF WorkerCancelled, lifecycleVars
    <2>2. Failure("closed").kind \notin {"none", "cancelled"}
        BY DEF Failure
    <2>3. QED
        BY <1>2, <2>1, <2>2, Completed
<1>3. CASE ~WorkerFetch /\ ~(WorkerCancelled /\ worker = "exchange")
    <2>1. /\ UNCHANGED <<queue, closed, request, pc, outcome>>
          /\ worker # "exchange" /\ worker' # "exchange"
        BY <1>3 DEF WorkerStep, WorkerStart, WorkerSettle, WorkerExit, WorkerCancelled,
                    lifecycleVars, callerVars
    <2>2. Serving' = Serving /\ Sharing' = Sharing
        BY <2>1 DEF Serving, Sharing
    <2>3. \A d \in Callers : AnswerOf(d)' = AnswerOf(d)
        BY <2>1, SameAnswer
    <2>4. QED
        BY <2>1, <2>2, <2>3, Quiet DEF Mapped
<1>4. QED
    BY <1>1, <1>2, <1>3

LEMMA ReceiveMapped ==
    ASSUME NEW s, NEW kind, NEW matched, Receive(s, kind, matched)
    PROVE  Mapped
<1>1. UNCHANGED <<queue, closed, request, pc, outcome, worker, current>>
    BY DEF Receive, lifecycleVars, callerVars, workerVars
<1>2. Serving' = Serving /\ Sharing' = Sharing
    BY <1>1 DEF Serving, Sharing
<1>3. \A d \in Callers : AnswerOf(d)' = AnswerOf(d)
    BY <1>1, SameAnswer
<1>4. QED
    BY <1>1, <1>2, <1>3, Quiet DEF Mapped

\* Who waits when close() drains the queue is queued or being served.
LEMMA Drained ==
    ASSUME ServiceInv, NEW k \in Closers, CloseDrain(k)
    PROVE  Mapped
<1> DEFINE doomed == (UNION {Members(queue[i].waiters) : i \in 1..Len(queue)})
                     \cup Members(active)
           failing == {c \in doomed : pc[c] = "waiting"}
<1>1. /\ closing[k] = "drain" /\ queue' = <<>>
      /\ UNCHANGED <<closed, request, worker, current>>
      /\ pc' = [c \in Callers |-> IF c \in failing THEN "done" ELSE pc[c]]
      /\ outcome' = [c \in Callers |->
                IF c \in failing THEN Failure("closed") ELSE outcome[c]]
    BY DEF CloseDrain
<1>2. closed
    BY <1>1 DEF ServiceInv, SuccessInv, QueueInv, ClosedQueue
<1>3. \A d \in Callers : pc[d] = "waiting" => d \in doomed
    <2> DEFINE queued == UNION {Members(queue[i].waiters) : i \in 1..Len(queue)}
    <2>1. ASSUME NEW d \in Callers, pc[d] = "waiting"
          PROVE  d \in Members(active) \/ Queued(d)
        BY <2>1 DEF ServiceInv, SuccessInv, QueueInv, NoOrphanWaiter, ActiveServed
    <2>2. ASSUME NEW d, Queued(d)
          PROVE  d \in queued
        <3>1. PICK i \in 1..Len(queue) : d \in Members(queue[i].waiters)
            BY <2>2 DEF Queued
        <3>2. Members(queue[i].waiters) \in {Members(queue[j].waiters) : j \in 1..Len(queue)}
            OBVIOUS
        <3>3. QED
            BY <3>1, <3>2
    <2>3. doomed = queued \cup Members(active)
        OBVIOUS
    <2> HIDE DEF queued, doomed
    <2>4. QED
        BY <2>1, <2>2, <2>3
<1> HIDE DEF doomed
<1>4. \A d \in Callers : d \in failing <=> pc[d] = "waiting"
    BY <1>3
<1> HIDE DEF failing
<1>5. ASSUME NEW d \in Callers
      PROVE  AnswerOf(d)' = IF d \in Callers /\ AnswerOf(d) = "open"
                            THEN "failed" ELSE AnswerOf(d)
    <2>1. CASE pc[d] = "waiting"
        <3>1. request'[d] \in Commands
            BY <1>1, <2>1 DEF ServiceInv, SuccessInv, QueueInv, RequestPlaces
        <3>2. pc'[d] = "done" /\ outcome'[d].kind = "closed"
            BY <1>1, <1>4, <2>1 DEF Failure
        <3>3. QED
            BY <2>1, <3>1, <3>2, OpenWaits DEF AnswerOf, ResultOf
    <2>2. CASE pc[d] # "waiting"
        <3>1. pc'[d] = pc[d] /\ outcome'[d] = outcome[d]
            BY <1>1, <1>4, <2>2
        <3>2. QED
            BY <1>1, <2>2, <3>1, OpenWaits, SameAnswer
    <2>3. QED
        BY <2>1, <2>2
<1>6. Service!AnswerAll(Callers, "failed")
    BY <1>5 DEF Service!AnswerAll
<1>7. Line' = <<>>
    BY <1>1, LineIs, LineEmpty
<1>8. Serving' = Serving /\ Sharing' = Sharing
    BY <1>1 DEF Serving, Sharing
<1>9. Service!Dismiss
    BY <1>1, <1>2, <1>6, <1>7, <1>8 DEF Service!Dismiss, Sharing
<1>10. QED
    BY <1>9 DEF Mapped, Service!Next

LEMMA CloseMapped ==
    ASSUME ServiceInv, NEW k \in Closers, CloseCall(k) \/ CloseStep(k)
    PROVE  Mapped
<1>1. CASE CloseDrain(k)
    BY <1>1, Drained
<1>2. CASE ~CloseDrain(k)
    <2>1. UNCHANGED <<queue, request, pc, outcome, worker, current>>
        BY <1>2 DEF CloseCall, CloseStep, CloseBegin, CloseRelease, CloseJoin,
                    callerVars, workerVars
    <2>2. closed' = closed \/ (~closed /\ closed' = TRUE)
        BY <1>2 DEF CloseCall, CloseStep, CloseBegin, CloseRelease, CloseJoin
    <2>3. Serving' = Serving /\ Sharing' = Sharing /\ Line' = Line
        BY <2>1 DEF Serving, Sharing, Line, WaiterLists
    <2>4. \A d \in Callers : AnswerOf(d)' = AnswerOf(d)
        BY <2>1, SameAnswer
    <2>5. CASE closed' = closed
        BY <2>1, <2>3, <2>4, <2>5, Quiet DEF Mapped
    <2>6. CASE ~closed /\ closed' = TRUE
        <3>1. [d \in Callers |-> AnswerOf(d)]' = [d \in Callers |-> AnswerOf(d)]
            BY <2>4
        <3>2. Service!Seal
            BY <2>3, <2>6, <3>1 DEF Service!Seal, Sharing
        <3>3. QED
            BY <3>2 DEF Mapped, Service!Next
    <2>7. QED
        BY <2>2, <2>5, <2>6
<1>3. QED
    BY <1>1, <1>2

LEMMA ServiceMapped == ServiceInv /\ [Next]_vars => [Service!Next]_(Service!vars)
<1> SUFFICES ASSUME ServiceInv, [Next]_vars PROVE Mapped
    BY DEF Mapped
<1>1. TypeOK'
    BY ServiceStep DEF ServiceInv, SuccessInv, QueueInv
<1>2. CASE UNCHANGED vars
    <2>1. UNCHANGED <<queue, closed, request, pc, outcome, worker, current>>
        BY <1>2 DEF vars, lifecycleVars, callerVars, workerVars
    <2>2. Serving' = Serving /\ Sharing' = Sharing
        BY <2>1 DEF Serving, Sharing
    <2>3. \A d \in Callers : AnswerOf(d)' = AnswerOf(d)
        BY <2>1, SameAnswer
    <2>4. QED
        BY <2>1, <2>2, <2>3, Quiet DEF Mapped
<1>3. QED
    BY <1>1, <1>2, CallerMapped, ExchangeMapped, WorkerMapped, ReceiveMapped,
       CloseMapped DEF Next

LEMMA InitMapped == Init => Service!Init
<1> SUFFICES ASSUME Init PROVE Service!Init
    OBVIOUS
<1>1. /\ queue = <<>> /\ worker = "none" /\ closed = FALSE
      /\ \A d \in Callers : request[d] = Query
    BY DEF Init
<1>2. Line = <<>>
    BY <1>1, LineIs, LineEmpty
<1>3. Serving = <<>>
    BY <1>1 DEF Serving
<1>4. \A d \in Callers : AnswerOf(d) = "out"
    BY <1>1, ClientAssumption DEF AnswerOf
<1>5. Sharing = {}
    BY <1>1, ClientAssumption DEF Sharing
<1>6. QED
    BY <1>1, <1>2, <1>3, <1>4, <1>5 DEF Service!Init, Sharing

\* command() is the service that CommandService describes: callers are served in
\* order, share an execution only as percentage writes that follow each other,
\* all get its answer, and none is left when close() has drained the queue, for
\* any number of callers, closers and retries (transport.py:248-333, 364-409).
THEOREM CommandIsService == Spec => ImplementsService
<1>1. ServiceInv /\ [Next]_vars => [Service!Next]_(Service!vars)
    BY ServiceMapped
<1>2. QED
    BY <1>1, InitMapped, ServiceInvariance, PTL DEF Spec, ImplementsService, Service!Spec
=============================================================================
