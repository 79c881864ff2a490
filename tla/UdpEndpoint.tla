---------------------------- MODULE UdpEndpoint ----------------------------
(***************************************************************************)
(* The reference-counted UDP 11530 endpoint of one event loop (udp.py).    *)
(*                                                                         *)
(* Every caller of the integration uses the default key (0.0.0.0, 11530),  *)
(* so the registry holds at most one endpoint.  A consumer acquires and    *)
(* releases under the loop's asyncio.Lock.  That lock hands over in FIFO   *)
(* order: while somebody waits, a newcomer queues behind the waiters even  *)
(* if nobody holds the lock.  The only await made with the lock held is    *)
(* the creation of the socket, so `lock` names a consumer only while it    *)
(* binds, and every other locked section is one step.                      *)
(***************************************************************************)
EXTENDS Naturals, Sequences, FiniteSets

CONSTANTS Consumers,   \* the callbacks that subscribe: clients, discoveries
          NoConsumer,  \* nobody holds the loop lock
          Endpoints,   \* endpoint objects; a closed one stands for a new one
          NoEndpoint   \* "no endpoint" in the registry or in a consumer

ASSUME ConsumersAssumption ==
    /\ IsFiniteSet(Consumers)
    /\ NoConsumer \notin Consumers
    /\ NoEndpoint \notin Endpoints

VARIABLES pc,         \* where each consumer stands in acquire / release
          lock,       \* the binder that holds the loop lock across its await
          waiters,    \* FIFO of consumers suspended in Lock.acquire
          registry,   \* the endpoint _ENDPOINTS names
          creating,   \* the endpoint the binder is creating
          socket,     \* OS-level life of each socket
          fixed,      \* bound to 11530, as opposed to an ephemeral port
          refs,       \* SharedUdpEndpoint._references
          callbacks,  \* SharedUdpEndpoint._callbacks
          held,       \* the endpoint object a consumer was given
          occupied    \* another program is bound to UDP 11530

vars == <<pc, lock, waiters, registry, creating, socket, fixed, refs,
          callbacks, held, occupied>>

MaybeEndpoint == Endpoints \cup {NoEndpoint}

Positions == {"out", "waitAcquire", "binding", "in", "waitRelease", "leaked"}

TypeOK ==
    /\ pc \in [Consumers -> Positions]
    /\ lock \in Consumers \cup {NoConsumer}
    /\ waiters \in Seq(Consumers)
    /\ registry \in MaybeEndpoint
    /\ creating \in MaybeEndpoint
    /\ socket \in [Endpoints -> {"closed", "binding", "open", "closing"}]
    /\ fixed \in [Endpoints -> BOOLEAN]
    /\ refs \in [Endpoints -> Nat]
    /\ callbacks \in [Endpoints -> SUBSET Consumers]
    /\ held \in [Consumers -> MaybeEndpoint]
    /\ occupied \in BOOLEAN

Init ==
    /\ pc = [c \in Consumers |-> "out"]
    /\ lock = NoConsumer
    /\ waiters = <<>>
    /\ registry = NoEndpoint
    /\ creating = NoEndpoint
    /\ socket = [e \in Endpoints |-> "closed"]
    /\ fixed = [e \in Endpoints |-> FALSE]
    /\ refs = [e \in Endpoints |-> 0]
    /\ callbacks = [e \in Endpoints |-> {}]
    /\ held = [c \in Consumers |-> NoEndpoint]
    /\ occupied \in BOOLEAN

-----------------------------------------------------------------------------
(* The loop lock: asyncio.Lock.                                            *)

\* Lock.acquire returns without suspending.
LockIdle == lock = NoConsumer /\ waiters = <<>>

\* A waiter that Lock.release woke runs its section.
Granted(c) == lock = NoConsumer /\ waiters # <<>> /\ Head(waiters) = c

\* Lock.acquire suspends.
Suspend(c, place) ==
    /\ ~LockIdle
    /\ waiters' = Append(waiters, c)
    /\ pc' = [pc EXCEPT ![c] = place]
    /\ UNCHANGED <<lock, registry, creating, socket, fixed, refs, callbacks,
                   held, occupied>>

\* A suspended Lock.acquire is cancelled: the waiter leaves the queue.
Withdraw(c) ==
    \E i \in 1..Len(waiters) :
        /\ waiters[i] = c
        /\ waiters' = SubSeq(waiters, 1, i - 1)
                        \o SubSeq(waiters, i + 1, Len(waiters))

-----------------------------------------------------------------------------
(* async_acquire_udp_endpoint                                              *)

\* The kernel refuses a second socket on 11530.  transport.close() gives the
\* port back only in a later loop iteration, so a closing socket still counts.
FixedPortFree ==
    /\ ~occupied
    /\ \A e \in Endpoints : fixed[e] => socket[e] = "closed"

Subscribe(c, e) ==
    /\ refs' = [refs EXCEPT ![e] = @ + 1]
    /\ callbacks' = [callbacks EXCEPT ![e] = @ \cup {c}]
    /\ held' = [held EXCEPT ![c] = e]
    /\ pc' = [pc EXCEPT ![c] = "in"]

\* The registry has the endpoint: count one more reference and return.
Join(c) ==
    /\ registry # NoEndpoint
    /\ Subscribe(c, registry)
    /\ UNCHANGED <<lock, registry, creating, socket, fixed, occupied>>

\* create_datagram_endpoint binds at once, then suspends with the lock held.
\* An OSError on the fixed port selects an ephemeral one.
Bind(c) ==
    /\ registry = NoEndpoint
    /\ \E e \in Endpoints :
        /\ socket[e] = "closed"
        /\ creating' = e
        /\ socket' = [socket EXCEPT ![e] = "binding"]
        /\ fixed' = [fixed EXCEPT ![e] = FixedPortFree]
    /\ lock' = c
    /\ pc' = [pc EXCEPT ![c] = "binding"]
    /\ UNCHANGED <<registry, refs, callbacks, held, occupied>>

\* The ephemeral bind raises OSError too, and the acquirer with it.
BindRefused(c) ==
    /\ registry = NoEndpoint
    /\ ~FixedPortFree
    /\ pc' = [pc EXCEPT ![c] = "out"]
    /\ UNCHANGED <<lock, registry, creating, socket, fixed, refs, callbacks,
                   held, occupied>>

AcquireSection(c) == Join(c) \/ Bind(c) \/ BindRefused(c)

Acquire(c) ==
    /\ pc[c] = "out"
    /\ \/ LockIdle /\ AcquireSection(c) /\ UNCHANGED waiters
       \/ Suspend(c, "waitAcquire")

AcquireGranted(c) ==
    /\ pc[c] = "waitAcquire"
    /\ Granted(c)
    /\ AcquireSection(c)
    /\ waiters' = Tail(waiters)

AcquireCancelled(c) ==
    /\ pc[c] = "waitAcquire"
    /\ Withdraw(c)
    /\ pc' = [pc EXCEPT ![c] = "out"]
    /\ UNCHANGED <<lock, registry, creating, socket, fixed, refs, callbacks,
                   held, occupied>>

\* The socket is ready: the endpoint is registered with its first reference.
BindDone(c) ==
    /\ pc[c] = "binding"
    /\ lock = c
    /\ lock' = NoConsumer
    /\ registry' = creating
    /\ creating' = NoEndpoint
    /\ socket' = [socket EXCEPT ![creating] = "open"]
    /\ Subscribe(c, creating)
    /\ UNCHANGED <<waiters, fixed, occupied>>

\* Mutant: a cancelled creation leaves the lock taken.
BindCancelledKeepsLock(c) ==
    /\ pc[c] = "binding"
    /\ lock = c
    /\ socket' = [socket EXCEPT ![creating] = "closing"]
    /\ creating' = NoEndpoint
    /\ pc' = [pc EXCEPT ![c] = "out"]
    /\ UNCHANGED <<lock, waiters, registry, fixed, refs, callbacks, held, occupied>>

\* create_datagram_endpoint closes its transport when its await is cancelled.
BindCancelled(c) ==
    /\ pc[c] = "binding"
    /\ lock = c
    /\ lock' = NoConsumer
    /\ socket' = [socket EXCEPT ![creating] = "closing"]
    /\ creating' = NoEndpoint
    /\ pc' = [pc EXCEPT ![c] = "out"]
    /\ UNCHANGED <<waiters, registry, fixed, refs, callbacks, held, occupied>>

-----------------------------------------------------------------------------
(* async_release_udp_endpoint                                              *)

\* Mutants: only the last one counted;
\* closed one reference early.
LessLast(n) == IF n = 1 THEN 0 ELSE n
LessEarly(n) == IF n <= 2 THEN 0 ELSE n - 1

LessOne(n) == IF n = 0 THEN 0 ELSE n - 1

ReleaseSection(c) ==
    LET e == held[c] IN
    /\ callbacks' = [callbacks EXCEPT ![e] = @ \ {c}]
    /\ refs' = [refs EXCEPT ![e] = LessOne(@)]
    /\ \/ /\ LessOne(refs[e]) # 0
          /\ UNCHANGED <<registry, socket>>
       \/ /\ LessOne(refs[e]) = 0
          /\ registry' = IF registry = e THEN NoEndpoint ELSE registry
          /\ socket' = [socket EXCEPT ![e] = "closing"]
    /\ held' = [held EXCEPT ![c] = NoEndpoint]
    /\ pc' = [pc EXCEPT ![c] = "out"]
    /\ UNCHANGED <<lock, creating, fixed, occupied>>

Release(c) ==
    /\ pc[c] = "in"
    /\ \/ LockIdle /\ ReleaseSection(c) /\ UNCHANGED waiters
       \/ Suspend(c, "waitRelease")

ReleaseGranted(c) ==
    /\ pc[c] = "waitRelease"
    /\ Granted(c)
    /\ ReleaseSection(c)
    /\ waiters' = Tail(waiters)

\* The releasing task is cancelled before it gets the lock.  Its callers have
\* already dropped the endpoint, so nobody releases it again.
ReleaseCancelled(c) ==
    /\ pc[c] = "waitRelease"
    /\ Withdraw(c)
    /\ pc' = [pc EXCEPT ![c] = "leaked"]
    /\ UNCHANGED <<lock, registry, creating, socket, fixed, refs, callbacks,
                   held, occupied>>

-----------------------------------------------------------------------------
(* The environment: the loop closes sockets, other programs use the port.  *)

SocketClosed(e) ==
    /\ socket[e] = "closing"
    /\ socket' = [socket EXCEPT ![e] = "closed"]
    /\ UNCHANGED <<pc, lock, waiters, registry, creating, fixed, refs,
                   callbacks, held, occupied>>

OtherProgram ==
    /\ occupied \/ FixedPortFree
    /\ occupied' = ~occupied
    /\ UNCHANGED <<pc, lock, waiters, registry, creating, socket, fixed, refs,
                   callbacks, held>>

Next ==
    \/ \E c \in Consumers :
        \/ Acquire(c)
        \/ AcquireGranted(c)
        \/ AcquireCancelled(c)
        \/ BindDone(c)
        \/ BindCancelled(c)
        \/ Release(c)
        \/ ReleaseGranted(c)
        \/ ReleaseCancelled(c)
    \/ \E e \in Endpoints : SocketClosed(e)
    \/ OtherProgram

Spec == Init /\ [][Next]_vars

\* The loop runs every ready task: a bind completes, a woken waiter resumes.
Fairness ==
    /\ \A c \in Consumers : WF_vars(AcquireGranted(c))
                            /\ WF_vars(BindDone(c) \/ BindCancelled(c))
                            /\ WF_vars(ReleaseGranted(c))
    /\ \A e \in Endpoints : WF_vars(SocketClosed(e))

FairSpec == Spec /\ Fairness

-----------------------------------------------------------------------------
(* Properties                                                              *)

Holders(e) == {c \in Consumers : held[c] = e}

\* The reference count of every endpoint is the number of consumers that were
\* given it and have not released it, whatever the interleaving of acquires,
\* releases and cancellations: a lost or double count would close the socket
\* under a client or keep it for ever.
RefsCountHolders == \A e \in Endpoints : refs[e] = Cardinality(Holders(e))

\* A consumer that holds an endpoint is subscribed to it, it is the registered
\* one, and its socket is open: no other consumer's release closes it.
HeldSocketOpen ==
    \A c \in Consumers :
        held[c] # NoEndpoint =>
            /\ held[c] = registry
            /\ socket[held[c]] = "open"
            /\ c \in callbacks[held[c]]

\* First acquirers that race share one socket: at most one is bound or being
\* bound, and an open one is always reachable through the registry.
OneSocket ==
    \A e \in Endpoints :
        /\ socket[e] = "open" => registry = e
        /\ socket[e] = "binding" => registry = NoEndpoint /\ e = creating

\* An open socket has a consumer that has not released it: nothing keeps the
\* port once the last reference is gone.
OpenSocketHasHolder ==
    \A e \in Endpoints : socket[e] = "open" => Holders(e) # {}

\* The binder and the registry exclude each other, and each is tied to one
\* socket: what keeps the four invariants above inductive.
LockBookkeeping ==
    /\ lock # NoConsumer => /\ pc[lock] = "binding"
                            /\ registry = NoEndpoint
                            /\ creating # NoEndpoint
                            /\ socket[creating] = "binding"
    /\ creating # NoEndpoint => lock # NoConsumer
    /\ registry # NoEndpoint => socket[registry] = "open"
    /\ \A c \in Consumers :
        /\ pc[c] = "binding" => lock = c
        /\ pc[c] \in {"in", "waitRelease", "leaked"} <=> held[c] # NoEndpoint

IndInv ==
    /\ TypeOK
    /\ LockBookkeeping
    /\ RefsCountHolders
    /\ HeldSocketOpen
    /\ OneSocket
    /\ OpenSocketHasHolder

\* Whoever waits for the loop lock gets it or is cancelled: a binder never
\* keeps the other consumers waiting for ever.
WaitersServed ==
    \A c \in Consumers :
        pc[c] \in {"waitAcquire", "waitRelease"}
            ~> pc[c] \notin {"waitAcquire", "waitRelease", "binding"}
=============================================================================
