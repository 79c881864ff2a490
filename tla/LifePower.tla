----------------------------- MODULE LifePower -----------------------------
(***************************************************************************)
(* Experimental power control of a Life device: LocalDiscoveryRuntime      *)
(* (local_runtime.py) polls identity and power and passes the switch's     *)
(* calls on; ExperimentalPowerClient (protocols/alcs_experimental.py) runs *)
(* one authenticated transaction at a time under its lock.  A transaction  *)
(* is a chain of exchanges: authenticate, read, and for a change write and *)
(* read again.  Each exchange sends one datagram and waits for an answer   *)
(* with its token; anything else the code refuses (a foreign or malformed  *)
(* answer, a bad proof, a rejected request) ends like a timeout.           *)
(*                                                                         *)
(* The datagrams of a write may reach the device long after their          *)
(* transaction gave up.                                                    *)
(***************************************************************************)
EXTENDS Naturals, SequencesExt

CONSTANTS Callers,     \* tasks that turn the switch on or off, once each
          Poller,      \* the setup task, then the refresh task of the timer
          Hosts,       \* addresses the device may have
          Unknown,     \* power_state is None
          MaxToggles,  \* bound: changes made at the device itself
          MaxMoves     \* bound: changes of the device's address

Actors == Callers \cup {Poller}

ASSUME LifeAssumption ==
    /\ Poller \notin Callers
    /\ Hosts # {}
    /\ Unknown \notin BOOLEAN
    /\ MaxToggles \in Nat /\ MaxMoves \in Nat

VARIABLES
    \* the device and the network
    power, addr, toggles, moves,
    write,     \* per caller, its write datagram: not sent, sent, executed
    \* ExperimentalPowerClient
    line,      \* FIFO of _lock: the head holds it
    host,      \* _host
    tx,        \* the transaction under the lock
    \* LocalDiscoveryRuntime
    life,      \* set up, open, and the stages of async_close
    poll,      \* where async_refresh stands
    reachable, \* reachable
    identity,  \* identity.host
    known,     \* power_state
    \* async_set_power
    pc, desired, outcome

deviceVars == <<power, addr, toggles, moves>>
callVars == <<pc, desired, outcome>>
vars == <<deviceVars, write, line, host, tx, life, poll, reachable, identity,
          known, callVars>>

NoTx == [step |-> "none", reply |-> Unknown]
Steps == {"none", "auth", "read", "write", "verify"}

TypeOK ==
    /\ power \in BOOLEAN /\ addr \in Hosts
    /\ toggles \in 0..MaxToggles /\ moves \in 0..MaxMoves
    /\ write \in [Callers -> {"none", "sent", "executed"}]
    /\ line \in Seq(Actors) /\ IsInjective(line)
    /\ host \in Hosts
    /\ tx \in [step : Steps, reply : BOOLEAN \cup {Unknown}]
    /\ life \in {"setup", "open", "stopPoll", "stopCalls", "closed"}
    /\ poll \in {"idle", "scan", "host", "read"}
    /\ reachable \in BOOLEAN
    /\ identity \in Hosts
    /\ known \in BOOLEAN \cup {Unknown}
    /\ pc \in [Callers -> {"idle", "power", "done"}]
    /\ desired \in [Callers -> BOOLEAN]
    /\ outcome \in [Callers ->
           {"none", "ok", "failed", "unknown", "cancelled", "refused"}]

\* The saved address may be out of date when the entry is set up.
Init ==
    /\ power \in BOOLEAN /\ addr \in Hosts
    /\ toggles = 0 /\ moves = 0
    /\ write = [c \in Callers |-> "none"]
    /\ line = <<>>
    /\ host \in Hosts /\ identity = host
    /\ tx = NoTx
    /\ life = "setup" /\ poll = "scan"
    /\ reachable = FALSE
    /\ known = Unknown
    /\ pc = [c \in Callers |-> "idle"]
    /\ desired = [c \in Callers |-> FALSE]
    /\ outcome = [c \in Callers |-> "none"]

-----------------------------------------------------------------------------
(* The device and the network                                              *)

Toggle ==
    /\ toggles < MaxToggles
    /\ toggles' = toggles + 1
    /\ power' = ~power
    /\ UNCHANGED <<addr, moves, write, line, host, tx, life, poll, reachable,
                   identity, known, callVars>>

Move ==
    /\ moves < MaxMoves
    /\ moves' = moves + 1
    /\ addr' \in Hosts \ {addr}
    /\ UNCHANGED <<power, toggles, write, line, host, tx, life, poll, reachable,
                   identity, known, callVars>>

\* The device answers an authentication or a read.
Answer ==
    /\ tx.step \in {"auth", "read", "verify"}
    /\ tx.reply = Unknown
    /\ addr = host
    /\ tx' = [tx EXCEPT !.reply = power]
    /\ UNCHANGED <<deviceVars, write, line, host, life, poll, reachable, identity,
                   known, callVars>>

Holds(a) == line # <<>> /\ Head(line) = a

\* A write arrives; its answer counts if the transaction still waits for it.
ExecuteWrite(c) ==
    /\ write[c] = "sent"
    /\ power' = desired[c]
    /\ write' = [write EXCEPT ![c] = "executed"]
    /\ tx' = IF Holds(c) /\ tx.step = "write"
             THEN [tx EXCEPT !.reply = desired[c]] ELSE tx
    /\ UNCHANGED <<addr, toggles, moves, line, host, life, poll, reachable,
                   identity, known, callVars>>

-----------------------------------------------------------------------------
(* Transactions: read() and set_power() of the client                      *)

Others(a) == RemoveFirst(line, a)

InTx(a) == Holds(a) /\ tx.step # "none"

\* The end of a call of async_set_power.
Return(c, result) ==
    /\ pc' = [pc EXCEPT ![c] = "done"]
    /\ outcome' = [outcome EXCEPT ![c] = result]

\* A task whose cancellation is pending takes no other step.
Runs(a) == IF a = Poller THEN life \in {"setup", "open"} ELSE life # "stopCalls"

Begin(a) ==
    /\ Runs(a)
    /\ Holds(a) /\ tx.step = "none"
    /\ IF a = Poller THEN poll = "read" ELSE pc[a] = "power"
    /\ tx' = [step |-> "auth", reply |-> Unknown]
    /\ UNCHANGED <<deviceVars, write, line, host, life, poll, reachable, identity,
                   known, callVars>>

\* The next exchange of the transaction, or none after `last`.
Continue(step) ==
    /\ tx' = [step |-> step, reply |-> Unknown]
    /\ UNCHANGED <<line, poll, known, callVars>>

Finish(a, value) ==
    /\ tx' = NoTx
    /\ line' = Tail(line)
    /\ known' = value

\* Mutant: only a failure after the write's answer counts as ambiguous.
AttemptedLate(step) == step = "verify"

\* `attempted` of set_power: the write may have been sent.
Attempted(step) == step \in {"write", "verify"}

\* An exchange got its answer.
Advance(a) ==
    /\ Runs(a)
    /\ InTx(a) /\ tx.reply # Unknown
    /\ \/ tx.step = "auth" /\ Continue("read") /\ UNCHANGED write
       \/ /\ tx.step = "read" /\ a = Poller
          /\ Finish(a, tx.reply)
          /\ poll' = "idle"
          /\ UNCHANGED <<write, callVars>>
       \/ /\ tx.step \in {"read", "verify"} /\ a # Poller
          /\ tx.reply = desired[a]
          /\ Finish(a, tx.reply)
          /\ Return(a, "ok")
          /\ UNCHANGED <<write, poll, desired>>
       \/ /\ tx.step = "read" /\ a # Poller
          /\ tx.reply # desired[a]
          /\ Continue("write")
          /\ write' = IF addr = host THEN [write EXCEPT ![a] = "sent"] ELSE write
       \/ tx.step = "write" /\ Continue("verify") /\ UNCHANGED write
       \/ /\ tx.step = "verify"
          /\ tx.reply # desired[a]
          /\ Finish(a, Unknown)
          /\ Return(a, "unknown")
          /\ UNCHANGED <<write, poll, desired>>
    /\ UNCHANGED <<deviceVars, host, life, reachable, identity>>

\* Mutant: a write nobody answered is taken for done.
FailHopefully(a) ==
    /\ Runs(a)
    /\ InTx(a)
    /\ Finish(a, IF a # Poller /\ Attempted(tx.step) THEN desired[a] ELSE Unknown)
    /\ \/ a = Poller /\ poll' = "idle" /\ UNCHANGED callVars
       \/ /\ a # Poller
          /\ Return(a, IF Attempted(tx.step) THEN "ok" ELSE "failed")
          /\ UNCHANGED <<poll, desired>>
    /\ UNCHANGED <<deviceVars, write, host, life, reachable, identity>>

\* A timeout or a refusal at any point of the transaction.
Fail(a) ==
    /\ Runs(a)
    /\ InTx(a)
    /\ Finish(a, Unknown)
    /\ \/ a = Poller /\ poll' = "idle" /\ UNCHANGED callVars
       \/ /\ a # Poller
          /\ Return(a, IF Attempted(tx.step) THEN "unknown" ELSE "failed")
          /\ UNCHANGED <<poll, desired>>
    /\ UNCHANGED <<deviceVars, write, host, life, reachable, identity>>

-----------------------------------------------------------------------------
(* async_set_power                                                         *)

SetPower(c, d) ==
    /\ pc[c] = "idle"
    /\ life # "setup"
    /\ desired' = [desired EXCEPT ![c] = d]
    /\ \/ /\ life = "open"
          /\ known' = Unknown
          /\ pc' = [pc EXCEPT ![c] = "power"]
          /\ line' = Append(line, c)
          /\ UNCHANGED outcome
       \/ /\ life # "open"
          /\ Return(c, "refused")
          /\ UNCHANGED <<line, known>>
    /\ UNCHANGED <<deviceVars, write, host, tx, life, poll, reachable, identity>>

\* Mutant: a cancelled task keeps its place in the line.
AbandonKeepsPlace(a) ==
    /\ line' = line
    /\ tx' = IF Holds(a) THEN NoTx ELSE tx

\* The calling task is cancelled at an await; the lock goes to the next.
Abandon(a) ==
    /\ line' = Others(a)
    /\ tx' = IF Holds(a) THEN NoTx ELSE tx

Cancel(c) ==
    /\ pc[c] = "power"
    /\ Abandon(c)
    /\ Return(c, "cancelled")
    /\ UNCHANGED <<deviceVars, write, host, life, poll, reachable, identity, known,
                   desired>>

-----------------------------------------------------------------------------
(* async_refresh, by the setup task or by the timer's task                 *)

PollStart ==
    /\ life = "open" /\ poll = "idle"
    /\ poll' = "scan"
    /\ UNCHANGED <<deviceVars, write, line, host, tx, life, reachable, identity,
                   known, callVars>>

\* The targeted discovery and, at most every 300 s, the network scan end; a
\* reply of the same identity carries the device's address.
ScanDone ==
    /\ life \in {"setup", "open"} /\ poll = "scan"
    /\ reachable' \in BOOLEAN
    /\ identity' = IF reachable' THEN addr ELSE identity
    /\ poll' = "host"
    /\ line' = Append(line, Poller)
    /\ UNCHANGED <<deviceVars, write, host, tx, life, known, callVars>>

\* Mutant: a device that is not found keeps the state it showed.
UpdateHostKeepsShown ==
    /\ life \in {"setup", "open"} /\ poll = "host" /\ Holds(Poller)
    /\ host' = identity
    /\ line' = IF reachable THEN Append(Tail(line), Poller) ELSE Tail(line)
    /\ poll' = IF reachable THEN "read" ELSE "idle"
    /\ UNCHANGED <<deviceVars, write, tx, life, reachable, identity, known, callVars>>

\* update_host, then the lock again for read() if the device was found.
UpdateHost ==
    /\ life \in {"setup", "open"} /\ poll = "host" /\ Holds(Poller)
    /\ host' = identity
    /\ \/ /\ reachable
          /\ line' = Append(Tail(line), Poller)
          /\ poll' = "read"
          /\ UNCHANGED known
       \/ /\ ~reachable
          /\ line' = Tail(line)
          /\ poll' = "idle"
          /\ known' = Unknown
    /\ UNCHANGED <<deviceVars, write, tx, life, reachable, identity, callVars>>

-----------------------------------------------------------------------------
(* async_create_local_runtime and async_close                              *)

SetupDone ==
    /\ life = "setup" /\ poll = "idle"
    /\ life' = IF reachable THEN "open" ELSE "stopPoll"
    /\ UNCHANGED <<deviceVars, write, line, host, tx, poll, reachable, identity,
                   known, callVars>>

\* The entry is unloaded, or its setup is cancelled.
Close ==
    /\ life \in {"setup", "open"}
    /\ life' = "stopPoll"
    /\ UNCHANGED <<deviceVars, write, line, host, tx, poll, reachable, identity,
                   known, callVars>>

\* The refresh task is gone; the calls in flight are cancelled.
PollStopped ==
    /\ life = "stopPoll"
    /\ poll' = "idle"
    /\ Abandon(Poller)
    /\ life' = "stopCalls"
    /\ UNCHANGED <<deviceVars, write, host, reachable, identity, known, callVars>>

\* Mutant: the cancelled calls are not awaited.
CallsNotAwaited ==
    /\ life = "stopCalls"
    /\ life' = "closed"
    /\ UNCHANGED <<deviceVars, write, line, host, tx, poll, reachable, identity,
                   known, callVars>>

CallsStopped ==
    /\ life = "stopCalls"
    /\ \A c \in Callers : pc[c] # "power"
    /\ life' = "closed"
    /\ UNCHANGED <<deviceVars, write, line, host, tx, poll, reachable, identity,
                   known, callVars>>

-----------------------------------------------------------------------------
ClientStep(a) == Begin(a) \/ Advance(a) \/ Fail(a)

Shutdown == PollStopped \/ CallsStopped

Next ==
    \/ Toggle \/ Move \/ Answer
    \/ \E c \in Callers : ExecuteWrite(c) \/ Cancel(c)
    \/ \E c \in Callers, d \in BOOLEAN : SetPower(c, d)
    \/ \E a \in Actors : ClientStep(a)
    \/ PollStart \/ ScanDone \/ UpdateHost
    \/ SetupDone \/ Close \/ Shutdown

Spec == Init /\ [][Next]_vars

\* Timeouts end every exchange and every scan, the timer starts a refresh every
\* 60 s, and cancelled tasks end.  Nothing makes the device answer.
Fairness ==
    /\ \A a \in Actors : WF_vars(ClientStep(a))
    /\ WF_vars(PollStart) /\ WF_vars(ScanDone) /\ WF_vars(UpdateHost)
    /\ WF_vars(SetupDone) /\ WF_vars(Shutdown)
    /\ \A c \in Callers : WF_vars(life = "stopCalls" /\ Cancel(c))

FairSpec == Spec /\ Fairness

-----------------------------------------------------------------------------
(* Properties                                                              *)

\* A call that fails without saying "outcome unknown" has left the device
\* alone and will not change it later either (README_EN.md:85-86).
AmbiguityReported ==
    \A c \in Callers :
        outcome[c] \in {"failed", "refused"} => write[c] = "none"

\* Nothing but the device's own switch and writes nobody confirmed makes the
\* shown power differ from the device's: neither a poll that overlaps calls,
\* nor two calls that overlap, leave an outdated state behind.
ShownUnlessUnconfirmed ==
    known \in {Unknown, power}
    \/ toggles > 0
    \/ \E c \in Callers : write[c] = "executed" /\ outcome[c] # "ok"

\* async_close leaves no transaction, no waiter and no poll behind.
CloseQuiet ==
    life = "closed" =>
        /\ line = <<>> /\ tx = NoTx /\ poll = "idle"
        /\ \A c \in Callers : pc[c] # "power"

\* Every call and every close ends, though the device may never answer.
EverythingEnds ==
    /\ \A c \in Callers : pc[c] = "power" ~> pc[c] = "done"
    /\ life = "stopPoll" ~> life = "closed"

\* Whatever was lost, delayed or cancelled, the polls catch up: from some point
\* on the shown power is the device's or unknown, or the runtime is closed.
EventuallyFresh == <>[](life \in {"stopPoll", "stopCalls", "closed"}
                        \/ known \in {Unknown, power})

-----------------------------------------------------------------------------
(* Inductive invariant, in parts                                           *)

\* Those in the line are the calls in progress and the poll, in the stages that
\* need the lock.
LineShape ==
    /\ \A c \in Callers : c \in Range(line) <=> pc[c] = "power"
    /\ Poller \in Range(line) <=> poll \in {"host", "read"}

\* A transaction belongs to the holder of the lock; a poll only reads.
TxShape ==
    /\ tx.step = "none" => tx.reply = Unknown
    /\ tx.step # "none" => line # <<>>
    /\ InTx(Poller) => poll = "read" /\ tx.step \in {"auth", "read"}

\* A write is of the transaction in progress, or of a call that did not end with
\* "failed" or "refused"; past the write's answer the device has executed it.
WriteShape(c) ==
    /\ outcome[c] # "none" => pc[c] = "done"
    /\ write[c] # "none" =>
           \/ outcome[c] \in {"ok", "unknown", "cancelled"}
           \/ Holds(c) /\ Attempted(tx.step)
    /\ outcome[c] = "ok" => write[c] # "sent"
    /\ Holds(c) /\ (tx.step = "verify" \/ (tx.step = "write" /\ tx.reply # Unknown))
           => write[c] = "executed"

\* An answer to a read that has not been looked at yet is still true, but for the
\* device's switch and writes of calls that are over and were not confirmed.
ReplyTrue ==
    tx.step \in {"read", "verify"} =>
        \/ tx.reply \in {Unknown, power}
        \/ toggles > 0
        \/ \E c \in Callers : write[c] = "executed" /\ outcome[c] \notin {"none", "ok"}

\* What the stages of async_close have left behind.
CloseShape ==
    /\ life \in {"stopCalls", "closed"} => poll = "idle"
    /\ life = "closed" => \A c \in Callers : pc[c] # "power"

IndInv ==
    /\ TypeOK /\ LineShape /\ TxShape
    /\ \A c \in Callers : WriteShape(c)
    /\ ReplyTrue /\ ShownUnlessUnconfirmed /\ CloseShape
=============================================================================
