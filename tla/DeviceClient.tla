---------------------------- MODULE DeviceClient ----------------------------
(***************************************************************************)
(* LocalDeviceClient (transport.py): callers ask for a refresh or a        *)
(* command, one worker task executes the queued commands, every request    *)
(* waits for a confirming datagram under retries and timeouts, and close() *)
(* may come at any moment.                                                 *)
(*                                                                         *)
(* A step is the code between two awaits of one task.  An await may yield, *)
(* the acquisition of the queue lock included; the sections under that     *)
(* lock hold no await, so the lock needs no variable.                      *)
(*                                                                         *)
(* The datagrams that reach this module have passed the filters of         *)
(* _datagram_received (duplicates, decoding, MAC).  Exchanges that are     *)
(* outstanding together have distinct sequence numbers, so a datagram      *)
(* answers at most one of them by its number, and possibly all of them if  *)
(* it is a broadcast.                                                      *)
(***************************************************************************)
EXTENDS Naturals, Sequences, FiniteSets

CONSTANTS Callers,            \* tasks that call refresh or command, once each
          Closers,            \* tasks that call close
          Worker,             \* the task of _command_worker
          Nobody,             \* no task
          Commands,           \* what command() is asked for
          Coalescible,        \* ... the percentage writes among them
          Invalid,            \* ... those the codec refuses to encode
          BacklightCommands,  \* ... those answered by a backlight packet
          Query,              \* a call of refresh()
          Poll,               \* a call of refresh_if_stale()
          Offered,            \* the requests callers make in an instance
          States,             \* validated device states
          NoState,            \* no state received yet
          Confirming,         \* per command, the states that confirm it
          QueryRetries,       \* attempts of a refresh, 2 in the code
          CommandRetries      \* attempts of a command, 3 in the code

Tasks == Callers \cup {Worker}
Requests == Commands \cup {Query, Poll}

ASSUME ClientAssumption ==
    /\ Callers \cap Closers = {}
    /\ Worker \notin Callers \cup Closers
    /\ Nobody \notin Callers \cup Closers \cup {Worker}
    /\ Coalescible \subseteq Commands
    /\ Invalid \subseteq Commands
    /\ BacklightCommands \subseteq Commands
    /\ Query \notin Commands /\ Poll \notin Commands /\ Query # Poll
    /\ Offered \subseteq Requests
    /\ NoState \notin States
    /\ Confirming \in [Commands -> SUBSET States]
    /\ QueryRetries \in Nat \ {0} /\ CommandRetries \in Nat \ {0}

VARIABLES
    \* lifecycle
    started, closed,  \* _started, _closed
    endpoint,         \* _endpoint is not None
    subscribed,       \* a reference to the shared UDP endpoint is held
    lifecycle,        \* holder of _lifecycle_lock
    closing,          \* where each closer stands
    \* callers
    pc, request, outcome,
    \* command queue
    queue,            \* _queue: entries [command, waiters]
    worker,           \* where the worker task stands
    current,          \* the entry the worker has popped, as a sequence
    active,           \* _active_waiters
    cancelled,        \* worker.cancel() was called and not yet delivered
    \* exchanges
    exchange,         \* per task, its _send_for_state
    state, available  \* _state, _available

lifecycleVars == <<started, closed, endpoint, subscribed, lifecycle, closing>>
callerVars == <<pc, request, outcome>>
workerVars == <<queue, worker, current, active, cancelled>>
deviceVars == <<state, available>>
vars == <<lifecycleVars, callerVars, workerVars, exchange, deviceVars>>

-----------------------------------------------------------------------------
(* Values                                                                  *)

Entries == [command : Commands, waiters : Seq(Callers)]

\* The future of an exchange: unresolved, failed by close, or a state.
Open == [kind |-> "open", state |-> NoState]
Failed == [kind |-> "failed", state |-> NoState]
Answer(s) == [kind |-> "answer", state |-> s]
Futures == [kind : {"open", "failed", "answer"}, state : States \cup {NoState}]

\* listed: the _PendingState is in _pending.
Exchanges ==
    [phase : {"none", "gap", "wait", "expired"}, request : Requests,
     attempt : Nat, future : Futures, listed : BOOLEAN]

NoExchange ==
    [phase |-> "none", request |-> Query, attempt |-> 0, future |-> Open,
     listed |-> FALSE]

Unsettled == [kind |-> "none", by |-> Query, state |-> NoState]
Failure(kind) == [kind |-> kind, by |-> Query, state |-> NoState]
Success(r, s) == [kind |-> "ok", by |-> r, state |-> s]

Outcomes ==
    [kind : {"none", "ok", "timeout", "closed", "invalid", "unavailable",
             "cancelled"},
     by : Requests, state : States \cup {NoState}]

\* Where a caller stands; all but the first and the last can be cancelled.
Awaits == {"start", "bind", "restart", "enqueue", "waiting", "refresh"}
Positions == {"idle", "done"} \cup Awaits

TypeOK ==
    /\ started \in BOOLEAN /\ closed \in BOOLEAN
    /\ endpoint \in BOOLEAN /\ subscribed \in BOOLEAN
    /\ lifecycle \in Callers \cup Closers \cup {Nobody}
    /\ closing \in [Closers ->
            {"idle", "lock", "drain", "release", "join", "done", "late"}]
    /\ pc \in [Callers -> Positions]
    /\ request \in [Callers -> Requests]
    /\ outcome \in [Callers -> Outcomes]
    /\ queue \in Seq(Entries)
    /\ worker \in {"none", "new", "fetch", "exchange", "settle", "exit", "done"}
    /\ current \in Seq(Callers)
    /\ active \in Seq(Callers)
    /\ cancelled \in BOOLEAN
    /\ exchange \in [Tasks -> Exchanges]
    /\ state \in States \cup {NoState}
    /\ available \in BOOLEAN

Init ==
    /\ started = FALSE /\ closed = FALSE
    /\ endpoint = FALSE /\ subscribed = FALSE
    /\ lifecycle = Nobody
    /\ closing = [k \in Closers |-> "idle"]
    /\ pc = [c \in Callers |-> "idle"]
    /\ request = [c \in Callers |-> Query]
    /\ outcome = [c \in Callers |-> Unsettled]
    /\ queue = <<>>
    /\ worker = "none"
    /\ current = <<>> /\ active = <<>>
    /\ cancelled = FALSE
    /\ exchange = [p \in Tasks |-> NoExchange]
    /\ state = NoState /\ available = FALSE

-----------------------------------------------------------------------------
(* Callers: start(), then refresh(), refresh_if_stale() or command()       *)

Members(seq) == {seq[i] : i \in 1..Len(seq)}

Finish(c, o) ==
    /\ pc' = [pc EXCEPT ![c] = "done"]
    /\ outcome' = [outcome EXCEPT ![c] = o]

\* _set_result_all and _set_exception_all: futures already done keep their
\* outcome, a cancelled caller's among them.
Settle(waiters, o) ==
    LET pendingWaiters == {c \in Members(waiters) : pc[c] = "waiting"} IN
    /\ pc' = [c \in Callers |-> IF c \in pendingWaiters THEN "done" ELSE pc[c]]
    /\ outcome' = [c \in Callers |->
                      IF c \in pendingWaiters THEN o ELSE outcome[c]]

Call(c, r) ==
    /\ pc[c] = "idle"
    /\ pc' = [pc EXCEPT ![c] = "start"]
    /\ request' = [request EXCEPT ![c] = r]
    /\ UNCHANGED <<lifecycleVars, outcome, workerVars, exchange, deviceVars>>

\* refresh() from its first context to the wait: the pending entry is listed
\* before the datagrams leave, and a refused send removes it again.
BeginRefresh(c) ==
    \/ /\ exchange' = [exchange EXCEPT ![c] =
              [phase |-> "wait", request |-> request[c], attempt |-> 1,
               future |-> Open, listed |-> TRUE]]
       /\ pc' = [pc EXCEPT ![c] = "refresh"]
       /\ UNCHANGED outcome
    \/ /\ Finish(c, Failure("unavailable"))
       /\ UNCHANGED exchange

\* What follows a successful start().
Proceed(c) ==
    \/ /\ request[c] \in Commands
       /\ pc' = [pc EXCEPT ![c] = "enqueue"]
       /\ UNCHANGED <<outcome, exchange>>
    \/ /\ request[c] = Query
       /\ BeginRefresh(c)
    \/ /\ request[c] = Poll  \* no state, or a stale one
       /\ pc' = [pc EXCEPT ![c] = "restart"]
       /\ UNCHANGED <<outcome, exchange>>
    \/ /\ request[c] = Poll
       /\ state # NoState
       /\ Finish(c, Success(Poll, state))
       /\ UNCHANGED exchange

StartClosed(c) ==
    /\ closed
    /\ Finish(c, Failure("closed"))
    /\ UNCHANGED <<lifecycle, exchange>>

StartAgain(c) ==
    /\ ~closed /\ started
    /\ Proceed(c)
    /\ UNCHANGED lifecycle

StartBinding(c) ==
    /\ ~closed /\ ~started
    /\ lifecycle' = c
    /\ pc' = [pc EXCEPT ![c] = "bind"]
    /\ UNCHANGED <<outcome, exchange>>

\* Mutant: start() does not wait for the lifecycle lock.
StartUnlocked(c) ==
    /\ pc[c] = "start"
    /\ StartClosed(c) \/ StartAgain(c) \/ StartBinding(c)
    /\ UNCHANGED <<started, closed, endpoint, subscribed, closing, request,
                   workerVars, deviceVars>>

\* start() once it has the lifecycle lock.
Start(c) ==
    /\ pc[c] = "start"
    /\ lifecycle = Nobody
    /\ StartClosed(c) \/ StartAgain(c) \/ StartBinding(c)
    /\ UNCHANGED <<started, closed, endpoint, subscribed, closing, request,
                   workerVars, deviceVars>>

\* The start() that refresh() makes on behalf of refresh_if_stale(): a close
\* that waits for the lifecycle lock goes first.
Restart(c) ==
    /\ pc[c] = "restart"
    /\ lifecycle = Nobody
    /\ \/ closed /\ Finish(c, Failure("closed")) /\ UNCHANGED exchange
       \/ ~closed /\ BeginRefresh(c)
    /\ UNCHANGED <<lifecycleVars, request, workerVars, deviceVars>>

BindDone(c) ==
    /\ pc[c] = "bind"
    /\ started' = TRUE /\ endpoint' = TRUE /\ subscribed' = TRUE
    /\ lifecycle' = Nobody
    /\ Proceed(c)
    /\ UNCHANGED <<closed, closing, request, workerVars, deviceVars>>

\* Mutant: the lifecycle lock stays taken when the bind fails.
BindFailsKeepsLock(c) ==
    /\ pc[c] = "bind"
    /\ Finish(c, Failure("unavailable"))
    /\ UNCHANGED <<lifecycleVars, request, workerVars, exchange, deviceVars>>

BindFails(c) ==
    /\ pc[c] = "bind"
    /\ lifecycle' = Nobody
    /\ Finish(c, Failure("unavailable"))
    /\ UNCHANGED <<started, closed, endpoint, subscribed, closing, request,
                   workerVars, exchange, deviceVars>>

\* Replace the trailing entry's command and join its waiters.
Coalesce(c) ==
    LET n == Len(queue) IN
    [queue EXCEPT ![n] = [command |-> request[c],
                          waiters |-> Append(queue[n].waiters, c)]]

\* Mutant: the trailing entry is not asked whether it is a percentage write.
CanCoalesceBlindly(c) == request[c] \in Coalescible /\ queue # <<>>

CanCoalesce(c) ==
    /\ request[c] \in Coalescible
    /\ queue # <<>>
    /\ queue[Len(queue)].command \in Coalescible

\* The queue-lock section of command().
Enqueue(c) ==
    /\ pc[c] = "enqueue"
    /\ \/ /\ closed
          /\ Finish(c, Failure("closed"))
          /\ UNCHANGED <<queue, worker>>
       \/ /\ ~closed
          /\ queue' = IF CanCoalesce(c)
                      THEN Coalesce(c)
                      ELSE Append(queue, [command |-> request[c],
                                          waiters |-> <<c>>])
          /\ worker' = IF worker \in {"none", "done"} THEN "new" ELSE worker
          /\ pc' = [pc EXCEPT ![c] = "waiting"]
          /\ UNCHANGED outcome
    /\ UNCHANGED <<lifecycleVars, request, current, active, cancelled,
                   exchange, deviceVars>>

\* Mutant: a start() cancelled in its bind leaves the lifecycle lock taken.
CancelKeepsLock(c) ==
    /\ pc[c] \in Awaits
    /\ Finish(c, Failure("cancelled"))
    /\ exchange' = [exchange EXCEPT ![c] = NoExchange]
    /\ UNCHANGED <<lifecycleVars, request, workerVars, deviceVars>>

\* The caller's own task is cancelled at whatever await it stands.
Cancel(c) ==
    /\ pc[c] \in Awaits
    /\ Finish(c, Failure("cancelled"))
    /\ lifecycle' = IF pc[c] = "bind" THEN Nobody ELSE lifecycle
    /\ exchange' = [exchange EXCEPT ![c] = NoExchange]
    /\ UNCHANGED <<started, closed, endpoint, subscribed, closing, request,
                   workerVars, deviceVars>>

-----------------------------------------------------------------------------
(* Exchanges: _send_for_state                                              *)

Attempts(p) == IF p = Worker THEN CommandRetries ELSE QueryRetries

\* What a resolved future makes of the request.
Verdict(x) ==
    IF x.future.kind = "answer" THEN Success(x.request, x.future.state)
                                ELSE Failure("closed")

\* The exchange ends, its pending entry removed; the caller of refresh() or
\* the waiters of the command get the outcome.
Conclude(p, o) ==
    /\ exchange' = [exchange EXCEPT ![p] = NoExchange]
    /\ \/ /\ p = Worker
          /\ Settle(current, o)
          /\ worker' = "settle"
       \/ /\ p # Worker
          /\ Finish(p, o)
          /\ UNCHANGED worker

\* The last datagram of an attempt is sent: wait, unless the answer is here.
AwaitAnswer(p, x) ==
    \/ /\ x.future = Open
       /\ exchange' = [exchange EXCEPT ![p] = [x EXCEPT !.phase = "wait"]]
       /\ UNCHANGED <<pc, outcome, worker>>
    \/ /\ x.future # Open
       /\ Conclude(p, Verdict(x))

Undisturbed(p) == p = Worker => ~cancelled

exchangeFrame == <<lifecycleVars, request, queue, current, active, cancelled>>

\* The pause between command and query is over: _send the query.
SendQuery(p) ==
    /\ exchange[p].phase = "gap"
    /\ Undisturbed(p)
    /\ \/ closed /\ Conclude(p, Failure("closed"))
       \/ ~closed /\ Conclude(p, Failure("unavailable"))
       \/ ~closed /\ AwaitAnswer(p, exchange[p])
    /\ UNCHANGED <<exchangeFrame, deviceVars>>

\* The task resumes with a resolved future.
Resume(p) ==
    /\ exchange[p].phase = "wait"
    /\ exchange[p].future # Open
    /\ Undisturbed(p)
    /\ Conclude(p, Verdict(exchange[p]))
    /\ UNCHANGED <<exchangeFrame, deviceVars>>

\* The timer of wait_for fires: it cancels the wait even if the future has just
\* been resolved, as long as the task has not run again (asyncio.timeout, which
\* wait_for uses since Python 3.12).  An answer may also come before it runs.
Expire(p) ==
    /\ exchange[p].phase = "wait"
    /\ exchange' = [exchange EXCEPT ![p].phase = "expired"]
    /\ UNCHANGED <<exchangeFrame, callerVars, worker, deviceVars>>

\* Another attempt with the same datagrams.
Retry(p) ==
    LET again == [exchange[p] EXCEPT !.attempt = @ + 1] IN
    /\ exchange[p].phase = "expired"
    /\ exchange[p].attempt < Attempts(p)
    /\ Undisturbed(p)
    /\ \/ closed /\ Conclude(p, Failure("closed"))
       \/ ~closed /\ Conclude(p, Failure("unavailable"))
       \/ /\ ~closed /\ p = Worker
          /\ exchange' = [exchange EXCEPT ![p] = [again EXCEPT !.phase = "gap"]]
          /\ UNCHANGED <<pc, outcome, worker>>
       \/ ~closed /\ p # Worker /\ AwaitAnswer(p, again)
    /\ UNCHANGED <<exchangeFrame, deviceVars>>

\* The last attempt timed out, whatever the future holds by now.
GiveUp(p) ==
    /\ exchange[p].phase = "expired"
    /\ exchange[p].attempt >= Attempts(p)
    /\ Undisturbed(p)
    /\ available' = FALSE
    /\ Conclude(p, Failure("timeout"))
    /\ UNCHANGED <<exchangeFrame, state>>

-----------------------------------------------------------------------------
(* Worker: _command_worker and _execute_command                            *)

WorkerStart ==
    /\ worker = "new" /\ ~cancelled
    /\ worker' = "fetch"
    /\ UNCHANGED <<lifecycleVars, callerVars, queue, current, active, cancelled,
                   exchange, deviceVars>>

\* From the popped command to the first suspension of its exchange.
Execute(entry) ==
    \/ /\ \/ closed /\ Settle(entry.waiters, Failure("closed"))
          \/ /\ ~closed /\ entry.command \in Invalid
             /\ Settle(entry.waiters, Failure("invalid"))
          \/ /\ ~closed /\ entry.command \notin Invalid
             /\ Settle(entry.waiters, Failure("unavailable"))
       /\ worker' = "settle"
       /\ UNCHANGED exchange
    \/ /\ ~closed /\ entry.command \notin Invalid
       /\ exchange' = [exchange EXCEPT ![Worker] =
              [phase |-> "gap", request |-> entry.command, attempt |-> 1,
               future |-> Open, listed |-> TRUE]]
       /\ worker' = "exchange"
       /\ UNCHANGED <<pc, outcome>>

WorkerFetch ==
    /\ worker = "fetch" /\ ~cancelled
    /\ \/ /\ queue = <<>>
          /\ worker' = "exit"
          /\ UNCHANGED <<pc, outcome, queue, current, active, exchange>>
       \/ /\ queue # <<>>
          /\ queue' = Tail(queue)
          /\ current' = Head(queue).waiters
          /\ active' = Head(queue).waiters
          /\ Execute(Head(queue))
    /\ UNCHANGED <<lifecycleVars, request, cancelled, deviceVars>>

\* The inner finally, then the next round.
WorkerSettle ==
    /\ worker = "settle" /\ ~cancelled
    /\ active' = <<>> /\ current' = <<>>
    /\ worker' = "fetch"
    /\ UNCHANGED <<lifecycleVars, callerVars, queue, cancelled, exchange,
                   deviceVars>>

\* Mutant: the worker ends without looking at the queue again.
WorkerExitBlindly ==
    /\ worker = "exit" /\ ~cancelled
    /\ worker' = "none"
    /\ UNCHANGED <<lifecycleVars, callerVars, queue, current, active, cancelled,
                   exchange, deviceVars>>

\* The outer finally: a command appended since the empty check gets a worker.
WorkerExit ==
    /\ worker = "exit" /\ ~cancelled
    /\ worker' = IF queue # <<>> /\ ~closed THEN "new" ELSE "none"
    /\ UNCHANGED <<lifecycleVars, callerVars, queue, current, active, cancelled,
                   exchange, deviceVars>>

\* CancelledError is raised at the await where the worker stands.
WorkerCancelled ==
    /\ cancelled
    /\ cancelled' = FALSE
    /\ \/ /\ worker \in {"new", "exit"}
          /\ worker' = "done"
          /\ UNCHANGED <<pc, outcome, current, exchange>>
       \/ /\ worker \in {"fetch", "settle"}
          /\ worker' = "exit"
          /\ current' = <<>>
          /\ UNCHANGED <<pc, outcome, exchange>>
       \/ /\ worker = "exchange"
          /\ Conclude(Worker, Failure("closed"))
          /\ UNCHANGED current
    /\ UNCHANGED <<lifecycleVars, request, queue, active, deviceVars>>

-----------------------------------------------------------------------------
(* Datagrams: _datagram_received from the state on, and                    *)
(* _resolve_matching_pending                                               *)

ExpectedKind(r) == IF r \in BacklightCommands THEN "backlight" ELSE "state"

\* Mutant: any fresh state confirms a command.
ConfirmsAnything(r, s) == TRUE

Confirms(r, s) == r \in Commands => s \in Confirming[r]

\* The exchanges a packet may answer: the one whose sequence number it carries,
\* all of them for a state broadcast, none for a stale or foreign sequence.
Matches == {{}, Tasks} \cup {{p} : p \in Tasks}

Satisfied(p, s, kind, matched) ==
    LET x == exchange[p] IN
    /\ x.listed
    /\ x.future = Open
    /\ kind = ExpectedKind(x.request)
    /\ p \in matched
    /\ Confirms(x.request, s)

\* Mutant: datagrams are handled until the endpoint is released.
ReceiveAfterClose(s, kind, matched) ==
    /\ subscribed
    /\ state' = s
    /\ available' = TRUE
    /\ exchange' = [p \in Tasks |->
          IF Satisfied(p, s, kind, matched)
          THEN [exchange[p] EXCEPT !.future = Answer(s)]
          ELSE exchange[p]]
    /\ UNCHANGED <<lifecycleVars, callerVars, workerVars>>

Receive(s, kind, matched) ==
    /\ subscribed
    /\ ~closed
    /\ state' = s
    /\ available' = TRUE
    /\ exchange' = [p \in Tasks |->
          IF Satisfied(p, s, kind, matched)
          THEN [exchange[p] EXCEPT !.future = Answer(s)]
          ELSE exchange[p]]
    /\ UNCHANGED <<lifecycleVars, callerVars, workerVars>>

-----------------------------------------------------------------------------
(* close()                                                                 *)

CloseCall(k) ==
    /\ closing[k] = "idle"
    /\ closing' = [closing EXCEPT ![k] = "lock"]
    /\ UNCHANGED <<started, closed, endpoint, subscribed, lifecycle, callerVars,
                   workerVars, exchange, deviceVars>>

\* _fail_pending: every listed exchange fails unless it is already resolved.
FailPending ==
    exchange' = [p \in Tasks |->
        [exchange[p] EXCEPT
            !.listed = FALSE,
            !.future = IF exchange[p].listed /\ exchange[p].future = Open
                       THEN Failed ELSE exchange[p].future]]

\* With the lifecycle lock: the second close returns, the first one goes on.
CloseBegin(k) ==
    /\ closing[k] = "lock"
    /\ lifecycle = Nobody
    /\ \/ /\ closed
          /\ closing' = [closing EXCEPT ![k] = "late"]
          /\ UNCHANGED <<started, closed, lifecycle, exchange>>
       \/ /\ ~closed
          /\ closed' = TRUE /\ started' = FALSE
          /\ lifecycle' = k
          /\ closing' = [closing EXCEPT ![k] = "drain"]
          /\ FailPending
    /\ UNCHANGED <<endpoint, subscribed, callerVars, workerVars, deviceVars>>

\* The queue-lock section of close() and the rest of its lifecycle section.
CloseDrain(k) ==
    LET doomed == (UNION {Members(queue[i].waiters) : i \in 1..Len(queue)})
                  \cup Members(active)
        failing == {c \in doomed : pc[c] = "waiting"}
    IN
    /\ closing[k] = "drain"
    /\ pc' = [c \in Callers |-> IF c \in failing THEN "done" ELSE pc[c]]
    /\ outcome' = [c \in Callers |->
                      IF c \in failing THEN Failure("closed") ELSE outcome[c]]
    /\ queue' = <<>>
    /\ cancelled' = (worker \notin {"none", "done"})
    /\ endpoint' = FALSE
    /\ lifecycle' = Nobody
    /\ closing' = [closing EXCEPT ![k] = IF endpoint THEN "release" ELSE "join"]
    /\ UNCHANGED <<started, closed, subscribed, request, worker, current, active,
                   exchange, deviceVars>>

CloseRelease(k) ==
    /\ closing[k] = "release"
    /\ subscribed' = FALSE
    /\ closing' = [closing EXCEPT ![k] = "join"]
    /\ UNCHANGED <<started, closed, endpoint, lifecycle, callerVars, workerVars,
                   exchange, deviceVars>>

\* close() awaits the worker it cancelled.
CloseJoin(k) ==
    /\ closing[k] = "join"
    /\ worker \in {"none", "done"}
    /\ closing' = [closing EXCEPT ![k] = "done"]
    /\ UNCHANGED <<started, closed, endpoint, subscribed, lifecycle, callerVars,
                   workerVars, exchange, deviceVars>>

-----------------------------------------------------------------------------
CallerStep(c) ==
    Start(c) \/ Restart(c) \/ BindDone(c) \/ BindFails(c) \/ Enqueue(c)

ExchangeStep(p) == SendQuery(p) \/ Resume(p) \/ Retry(p) \/ GiveUp(p)

WorkerStep ==
    WorkerStart \/ WorkerFetch \/ WorkerSettle \/ WorkerExit \/ WorkerCancelled

CloseStep(k) == CloseBegin(k) \/ CloseDrain(k) \/ CloseRelease(k) \/ CloseJoin(k)

Next ==
    \/ \E c \in Callers :
        \/ \E r \in Offered : Call(c, r)
        \/ CallerStep(c)
        \/ Cancel(c)
    \/ \E p \in Tasks : ExchangeStep(p) \/ Expire(p)
    \/ WorkerStep
    \/ \E s \in States, kind \in {"state", "backlight"}, matched \in Matches :
        Receive(s, kind, matched)
    \/ \E k \in Closers : CloseCall(k) \/ CloseStep(k)

Spec == Init /\ [][Next]_vars

\* asyncio runs every ready task, sleeps and timers end.  Nothing makes a
\* caller call, a datagram arrive or a task be cancelled.
Fairness ==
    /\ \A c \in Callers : WF_vars(CallerStep(c))
    /\ \A p \in Tasks : WF_vars(ExchangeStep(p)) /\ WF_vars(Expire(p))
    /\ WF_vars(WorkerStep)
    /\ \A k \in Closers : WF_vars(CloseStep(k))

FairSpec == Spec /\ Fairness

-----------------------------------------------------------------------------
(* Properties                                                              *)

WorkerLive == worker \notin {"none", "done"} /\ ~cancelled

Queued(c) == \E i \in 1..Len(queue) : c \in Members(queue[i].waiters)

\* No caller of command() is left behind: as long as its future is open, the
\* worker is executing its command, or it is queued and either a live worker
\* will fetch it or a close in progress will fail it.  A lost wakeup between
\* the worker's empty check and its end would break this.
NoOrphanWaiter ==
    \A c \in Callers :
        pc[c] = "waiting" =>
            \/ worker = "exchange" /\ c \in Members(current)
            \/ Queued(c) /\ (WorkerLive \/ \E k \in Closers : closing[k] = "drain")

\* A command is reported successful only with a state that confirms what was
\* executed, and what was executed is the caller's command, or for a coalesced
\* percentage write a percentage write.
SuccessIsConfirmed ==
    \A c \in Callers :
        outcome[c].kind = "ok" /\ request[c] \in Commands =>
            LET by == outcome[c].by IN
            /\ by \in Commands \ Invalid
            /\ outcome[c].state \in Confirming[by]
            /\ by # request[c] => {by, request[c]} \subseteq Coalescible

\* Once close() has begun, nothing is sent, nothing is learned and no exchange
\* is opened: every step leaves the device state alone and exchanges only end.
SilentAfterClose ==
    [][closed =>
        /\ state' = state
        /\ closed'
        /\ \A p \in Tasks :
            /\ exchange'[p].attempt \in {exchange[p].attempt, 0}
            /\ exchange'[p].phase \in {exchange[p].phase, "expired", "none"}]_vars

\* Concurrent first calls subscribe once: whoever starts a second bind would
\* overwrite the endpoint and leak its reference.
OneSubscription ==
    /\ Cardinality({c \in Callers : pc[c] = "bind"}) <= 1
    /\ subscribed => \A c \in Callers : pc[c] # "bind"
    /\ endpoint => subscribed

\* Every call returns: a state, an error or a cancellation, even if the device
\* never answers and whoever closes the client when.
CallsReturn == \A c \in Callers : pc[c] = "start" ~> pc[c] = "done"

\* close() returns.
CloseReturns == \A k \in Closers : closing[k] = "lock" ~> closing[k] \in {"done", "late"}

-----------------------------------------------------------------------------
(* Inductive invariant, in parts                                           *)

\* Only commands go to the queue, only queries are exchanged by their caller.
RequestPlaces ==
    \A c \in Callers :
        /\ pc[c] \in {"enqueue", "waiting"} => request[c] \in Commands
        /\ pc[c] \in {"restart", "refresh"} => request[c] \in {Query, Poll}

\* Only close() cancels the worker, and it empties the queue as it does.
ClosedQueue ==
    /\ cancelled => closed
    /\ \A k \in Closers : closing[k] = "drain" => closed
    /\ closed /\ queue # <<>> => \E k \in Closers : closing[k] = "drain"

\* An exchange belongs to the worker's command or to the caller's query.
ExchangeOwners ==
    /\ exchange[Worker].phase # "none" =>
        /\ worker = "exchange"
        /\ exchange[Worker].request \in Commands \ Invalid
    /\ \A c \in Callers : exchange[c].phase # "none" =>
        /\ pc[c] = "refresh"
        /\ exchange[c].request = request[c]

\* A recorded answer confirms the request it answers.
AnswersConfirm ==
    \A p \in Tasks :
        exchange[p].future.kind = "answer" =>
            /\ exchange[p].future.state \in States
            /\ Confirms(exchange[p].request, exchange[p].future.state)

\* Command r may stand for caller c's request.
Fits(r, c) == /\ pc[c] # "idle"
              /\ r = request[c] \/ {r, request[c]} \subseteq Coalescible

WaitersFit ==
    /\ \A i \in 1..Len(queue) :
        \A c \in Members(queue[i].waiters) : Fits(queue[i].command, c)
    /\ worker = "exchange" =>
        \A c \in Members(current) : Fits(exchange[Worker].request, c)

\* Who binds holds the lifecycle lock of a client that is not open.
Binders ==
    \A c \in Callers : pc[c] = "bind" => lifecycle = c /\ ~closed /\ ~started

\* What is held: nothing before the first start(), and the endpoint is given
\* up before its reference is released.
HeldEndpoint ==
    /\ ~started /\ ~closed => ~subscribed
    /\ endpoint => subscribed
    /\ \A k \in Closers : closing[k] = "release" => closed /\ ~endpoint

SuccessIsFinal == \A c \in Callers : outcome[c].kind = "ok" => pc[c] = "done"

QueueInv == TypeOK /\ RequestPlaces /\ ClosedQueue /\ NoOrphanWaiter

LifecycleInv == QueueInv /\ Binders /\ HeldEndpoint

SuccessInv ==
    /\ QueueInv
    /\ ExchangeOwners /\ AnswersConfirm /\ WaitersFit
    /\ SuccessIsFinal /\ SuccessIsConfirmed
=============================================================================
