------------------------- MODULE UdpEndpointProofs -------------------------
(***************************************************************************)
(* Theorems about the shared endpoint, for any finite set of consumers and *)
(* any set of endpoint objects; and, in the second part, about Schedules,  *)
(* whose two programs send over it and report what they wrote.             *)
(***************************************************************************)
EXTENDS UdpEndpoint, Schedules, FiniteSetTheorems, SequenceTheorems, TLAPS

-----------------------------------------------------------------------------
(* Lemmas about the operators of the model                                 *)

LEMMA WithdrawType ==
    ASSUME TypeOK, NEW c \in Consumers, Withdraw(c)
    PROVE  waiters' \in Seq(Consumers)
<1>1. PICK i \in 1..Len(waiters) :
        waiters' = SubSeq(waiters, 1, i - 1) \o SubSeq(waiters, i + 1, Len(waiters))
    BY DEF Withdraw
<1>2. waiters \in Seq(Consumers) /\ Len(waiters) \in Nat
    BY LenProperties DEF TypeOK
<1>3. \A j \in 1..Len(waiters) : waiters[j] \in Consumers
    BY <1>2, ElementOfSeq
<1>4. SubSeq(waiters, 1, i - 1) \in Seq(Consumers)
    BY <1>2, <1>3, SubSeqProperties
<1>5. SubSeq(waiters, i + 1, Len(waiters)) \in Seq(Consumers)
    BY <1>2, <1>3, SubSeqProperties
<1>6. QED
    BY <1>1, <1>4, <1>5, ConcatProperties

\* The holders of an endpoint are finitely many.
LEMMA HoldersFinite ==
    \A e : IsFiniteSet(Holders(e)) /\ Cardinality(Holders(e)) \in Nat
<1>1. \A e : Holders(e) \in SUBSET Consumers
    BY DEF Holders
<1>2. QED
    BY <1>1, ConsumersAssumption, FS_Subset, FS_CardinalityType

\* One more holder, one more in the count; the same when one leaves.
LEMMA HoldersAfterSubscribe ==
    ASSUME TypeOK, NEW c \in Consumers, NEW e \in Endpoints,
           held[c] = NoEndpoint, held' = [held EXCEPT ![c] = e]
    PROVE  /\ Cardinality(Holders(e)') = Cardinality(Holders(e)) + 1
           /\ \A f \in Endpoints : f # e => Holders(f)' = Holders(f)
<1>1. Holders(e)' = Holders(e) \cup {c} /\ c \notin Holders(e)
    BY ConsumersAssumption DEF Holders, TypeOK
<1>2. \A f \in Endpoints : f # e => Holders(f)' = Holders(f)
    BY ConsumersAssumption DEF Holders, TypeOK
<1>3. QED
    BY <1>1, <1>2, HoldersFinite, FS_AddElement

LEMMA HoldersAfterRelease ==
    ASSUME TypeOK, NEW c \in Consumers, NEW e \in Endpoints,
           held[c] = e, held' = [held EXCEPT ![c] = NoEndpoint]
    PROVE  /\ Cardinality(Holders(e)') = Cardinality(Holders(e)) - 1
           /\ Holders(e)' = Holders(e) \ {c}
           /\ c \in Holders(e)
           /\ \A f \in Endpoints : f # e => Holders(f)' = Holders(f)
<1>1. Holders(e)' = Holders(e) \ {c} /\ c \in Holders(e)
    BY ConsumersAssumption DEF Holders, TypeOK
<1>2. \A f \in Endpoints : f # e => Holders(f)' = Holders(f)
    BY ConsumersAssumption DEF Holders, TypeOK
<1>3. QED
    BY <1>1, <1>2, HoldersFinite, FS_RemoveElement

-----------------------------------------------------------------------------
(* The inductive step, one lemma per section of the code.                  *)

LEMMA InitIndInv == Init => IndInv
<1> SUFFICES ASSUME Init PROVE IndInv
    OBVIOUS
<1>1. \A e \in Endpoints : Holders(e) = {}
    BY ConsumersAssumption DEF Init, Holders
<1>2. TypeOK
    BY ConsumersAssumption, EmptySeq
    DEF Init, TypeOK, Positions, MaybeEndpoint
<1>3. RefsCountHolders
    BY <1>1, FS_EmptySet DEF Init, RefsCountHolders
<1>4. QED
    BY <1>1, <1>2, <1>3, ConsumersAssumption
    DEF Init, IndInv, LockBookkeeping, HeldSocketOpen, OneSocket,
        OpenSocketHasHolder

\* Steps that change neither the holders nor the sockets.
LEMMA MovesOnly ==
    ASSUME IndInv, NEW c \in Consumers, NEW place,
           place \in Positions \ {"binding"},
           pc[c] # "binding",
           place \in {"in", "waitRelease", "leaked"}
               <=> pc[c] \in {"in", "waitRelease", "leaked"},
           pc' = [pc EXCEPT ![c] = place],
           waiters' \in Seq(Consumers),
           UNCHANGED <<lock, registry, creating, socket, fixed, refs,
                       callbacks, held, occupied>>
    PROVE  IndInv'
<1>1. TypeOK'
    BY DEF IndInv, TypeOK, Positions
<1>2. LockBookkeeping'
    BY DEF IndInv, TypeOK, LockBookkeeping
<1>3. \A e : Holders(e)' = Holders(e)
    BY DEF Holders
<1>4. RefsCountHolders' /\ OpenSocketHasHolder'
    BY <1>3 DEF IndInv, RefsCountHolders, OpenSocketHasHolder
<1>5. HeldSocketOpen' /\ OneSocket'
    BY DEF IndInv, HeldSocketOpen, OneSocket
<1>6. QED
    BY <1>1, <1>2, <1>4, <1>5 DEF IndInv

\* A consumer that is given endpoint e, open and registered.
LEMMA SubscribeKeeps ==
    ASSUME IndInv, NEW c \in Consumers, NEW e \in Endpoints,
           held[c] = NoEndpoint,
           Subscribe(c, e),
           waiters' \in Seq(Consumers),
           lock' = NoConsumer,
           creating' = NoEndpoint,
           registry' = e,
           socket' = [socket EXCEPT ![e] = "open"],
           UNCHANGED <<fixed, occupied>>,
           \/ registry = e
           \/ registry = NoEndpoint /\ creating = e,
           \A d \in Consumers : d # c => pc[d] # "binding"
    PROVE  IndInv'
<1> USE DEF Subscribe
<1>1. TypeOK'
    BY ConsumersAssumption DEF IndInv, TypeOK, Positions, MaybeEndpoint
<1>2. LockBookkeeping'
    BY ConsumersAssumption DEF IndInv, TypeOK, LockBookkeeping
<1>3. /\ Cardinality(Holders(e)') = Cardinality(Holders(e)) + 1
      /\ \A f \in Endpoints : f # e => Holders(f)' = Holders(f)
    BY HoldersAfterSubscribe DEF IndInv
<1>4. RefsCountHolders'
    <2> SUFFICES ASSUME NEW f \in Endpoints
                 PROVE  refs'[f] = Cardinality(Holders(f)')
        BY DEF RefsCountHolders
    <2>1. CASE f = e
        BY <1>3, <2>1 DEF IndInv, TypeOK, RefsCountHolders
    <2>2. CASE f # e
        BY <1>3, <2>2 DEF IndInv, TypeOK, RefsCountHolders
    <2>3. QED
        BY <2>1, <2>2
<1>5. HeldSocketOpen'
    BY ConsumersAssumption DEF IndInv, TypeOK, HeldSocketOpen
<1>6. OneSocket'
    BY ConsumersAssumption DEF IndInv, TypeOK, OneSocket
<1>7. OpenSocketHasHolder'
    <2>1. c \in Holders(e)'
        BY ConsumersAssumption DEF IndInv, TypeOK, Holders
    <2>2. \A f \in Endpoints : f # e => socket'[f] # "open"
        BY ConsumersAssumption DEF IndInv, TypeOK, OneSocket
    <2>3. QED
        BY <2>1, <2>2 DEF OpenSocketHasHolder
<1>8. QED
    BY <1>1, <1>2, <1>4, <1>5, <1>6, <1>7 DEF IndInv

\* The first acquirer starts the bind.
LEMMA BindKeeps ==
    ASSUME IndInv, NEW c \in Consumers, lock = NoConsumer,
           pc[c] \in {"out", "waitAcquire"},
           Bind(c),
           waiters' \in Seq(Consumers)
    PROVE  IndInv'
<1>1. PICK e \in Endpoints : /\ socket[e] = "closed"
                             /\ creating' = e
                             /\ socket' = [socket EXCEPT ![e] = "binding"]
                             /\ fixed' = [fixed EXCEPT ![e] = FixedPortFree]
    BY DEF Bind
<1> USE <1>1 DEF Bind
<1>2. TypeOK'
    BY DEF IndInv, TypeOK, Positions, MaybeEndpoint, FixedPortFree
<1>3. LockBookkeeping'
    BY ConsumersAssumption DEF IndInv, TypeOK, LockBookkeeping
<1>4. \A f : Holders(f)' = Holders(f)
    BY DEF Holders
<1>5. RefsCountHolders'
    BY <1>4 DEF IndInv, RefsCountHolders
<1>6. HeldSocketOpen' /\ OneSocket'
    BY ConsumersAssumption
    DEF IndInv, TypeOK, LockBookkeeping, HeldSocketOpen, OneSocket
<1>7. OpenSocketHasHolder'
    BY <1>4 DEF IndInv, TypeOK, OpenSocketHasHolder
<1>8. QED
    BY <1>2, <1>3, <1>5, <1>6, <1>7 DEF IndInv

\* Once the loop lock is free, the acquire section keeps the invariant.
LEMMA AcquireSectionKeeps ==
    ASSUME IndInv, NEW c \in Consumers, lock = NoConsumer,
           pc[c] \in {"out", "waitAcquire"},
           AcquireSection(c),
           waiters' \in Seq(Consumers)
    PROVE  IndInv'
<1>1. held[c] = NoEndpoint /\ \A d \in Consumers : pc[d] # "binding"
    BY ConsumersAssumption DEF IndInv, LockBookkeeping
<1>2. CASE Join(c)
    <2>1. registry \in Endpoints /\ creating = NoEndpoint
        BY <1>2 DEF Join, IndInv, TypeOK, LockBookkeeping, MaybeEndpoint
    <2>2. socket' = [socket EXCEPT ![registry] = "open"]
        BY <1>2, <2>1 DEF Join, IndInv, TypeOK, LockBookkeeping
    <2>3. QED
        BY <1>1, <1>2, <2>1, <2>2, SubscribeKeeps DEF Join
<1>3. CASE Bind(c)
    BY <1>3, BindKeeps
<1>4. CASE BindRefused(c)
    BY <1>4, MovesOnly DEF BindRefused, Positions
<1>5. QED
    BY <1>2, <1>3, <1>4 DEF AcquireSection

LEMMA BindDoneKeeps ==
    ASSUME IndInv, NEW c \in Consumers, BindDone(c)
    PROVE  IndInv'
<1>1. /\ creating \in Endpoints
      /\ registry = NoEndpoint
      /\ held[c] = NoEndpoint
      /\ \A d \in Consumers : d # c => pc[d] # "binding"
    BY ConsumersAssumption
    DEF BindDone, IndInv, TypeOK, LockBookkeeping, MaybeEndpoint
<1>2. waiters' \in Seq(Consumers)
    BY DEF BindDone, IndInv, TypeOK
<1>3. QED
    BY <1>1, <1>2, SubscribeKeeps DEF BindDone

LEMMA BindCancelledKeeps ==
    ASSUME IndInv, NEW c \in Consumers, BindCancelled(c)
    PROVE  IndInv'
<1> USE DEF BindCancelled
<1>1. creating \in Endpoints /\ registry = NoEndpoint
    BY ConsumersAssumption DEF IndInv, TypeOK, LockBookkeeping, MaybeEndpoint
<1>2. TypeOK'
    BY <1>1 DEF IndInv, TypeOK, Positions, MaybeEndpoint
<1>3. LockBookkeeping'
    BY <1>1, ConsumersAssumption DEF IndInv, TypeOK, LockBookkeeping
<1>4. \A f : Holders(f)' = Holders(f)
    BY DEF Holders
<1>5. RefsCountHolders'
    BY <1>4 DEF IndInv, RefsCountHolders
<1>6. HeldSocketOpen' /\ OneSocket'
    BY <1>1 DEF IndInv, TypeOK, LockBookkeeping, HeldSocketOpen, OneSocket
<1>7. OpenSocketHasHolder'
    BY <1>1, <1>4 DEF IndInv, TypeOK, OpenSocketHasHolder
<1>8. QED
    BY <1>2, <1>3, <1>5, <1>6, <1>7 DEF IndInv

\* The release section: the last reference closes the socket, any other
\* leaves it open for the remaining holders.
LEMMA ReleaseSectionKeeps ==
    ASSUME IndInv, NEW c \in Consumers, lock = NoConsumer,
           pc[c] \in {"in", "waitRelease"},
           ReleaseSection(c),
           waiters' \in Seq(Consumers)
    PROVE  IndInv'
<1>1. PICK e \in Endpoints : /\ e = held[c]
                             /\ e = registry
                             /\ socket[e] = "open"
                             /\ creating = NoEndpoint
    BY DEF IndInv, TypeOK, LockBookkeeping, HeldSocketOpen, MaybeEndpoint
<1>2. /\ callbacks' = [callbacks EXCEPT ![e] = @ \ {c}]
      /\ refs' = [refs EXCEPT ![e] = LessOne(@)]
      /\ held' = [held EXCEPT ![c] = NoEndpoint]
      /\ pc' = [pc EXCEPT ![c] = "out"]
      /\ UNCHANGED <<lock, creating, fixed, occupied>>
    BY <1>1 DEF ReleaseSection
<1>3. \/ /\ LessOne(refs[e]) # 0
         /\ UNCHANGED <<registry, socket>>
      \/ /\ LessOne(refs[e]) = 0
         /\ registry' = NoEndpoint
         /\ socket' = [socket EXCEPT ![e] = "closing"]
    BY <1>1 DEF ReleaseSection
<1>4. /\ Cardinality(Holders(e)') = Cardinality(Holders(e)) - 1
      /\ Holders(e)' = Holders(e) \ {c}
      /\ c \in Holders(e)
      /\ \A f \in Endpoints : f # e => Holders(f)' = Holders(f)
    BY <1>1, <1>2, HoldersAfterRelease DEF IndInv
<1>5. /\ refs[e] = Cardinality(Holders(e))
      /\ refs[e] \in Nat
      /\ refs[e] # 0
    BY <1>1, <1>4, HoldersFinite, FS_EmptySet
    DEF IndInv, RefsCountHolders, TypeOK
<1>6. LessOne(refs[e]) = Cardinality(Holders(e)')
    BY <1>4, <1>5 DEF LessOne
<1>7. TypeOK'
    <2>1. refs' \in [Endpoints -> Nat]
        BY <1>1, <1>2, <1>5 DEF IndInv, TypeOK, LessOne
    <2>2. registry' \in MaybeEndpoint
        BY <1>3 DEF IndInv, TypeOK, MaybeEndpoint
    <2>3. socket' \in [Endpoints -> {"closed", "binding", "open", "closing"}]
        BY <1>3 DEF IndInv, TypeOK
    <2>4. QED
        BY <1>2, <2>1, <2>2, <2>3 DEF IndInv, TypeOK, Positions, MaybeEndpoint
<1>8. RefsCountHolders'
    BY <1>1, <1>2, <1>4, <1>6 DEF IndInv, TypeOK, RefsCountHolders
<1>9. LessOne(refs[e]) = 0 <=> Holders(e)' = {}
    BY <1>4, <1>6, HoldersFinite, FS_RemoveElement, FS_EmptySet
<1>10. \A d \in Consumers : d # c /\ held[d] # NoEndpoint => d \in Holders(e)'
    BY <1>1, <1>4 DEF IndInv, HeldSocketOpen, Holders
<1>11. HeldSocketOpen'
    <2> SUFFICES ASSUME NEW d \in Consumers, held'[d] # NoEndpoint
                 PROVE  /\ held'[d] = registry'
                        /\ socket'[held'[d]] = "open"
                        /\ d \in callbacks'[held'[d]]
        BY DEF HeldSocketOpen
    <2>1. d # c /\ held'[d] = held[d] /\ held[d] = e
        BY <1>1, <1>2 DEF IndInv, TypeOK, HeldSocketOpen
    <2>2. LessOne(refs[e]) # 0
        BY <1>9, <1>10, <2>1
    <2>3. QED
        BY <1>1, <1>2, <1>3, <2>1, <2>2 DEF IndInv, TypeOK, HeldSocketOpen
<1>12. LockBookkeeping'
    BY <1>1, <1>2, <1>3, ConsumersAssumption DEF IndInv, TypeOK, LockBookkeeping
<1>13. OneSocket'
    BY <1>1, <1>2, <1>3 DEF IndInv, TypeOK, OneSocket
<1>14. OpenSocketHasHolder'
    <2> SUFFICES ASSUME NEW f \in Endpoints, socket'[f] = "open"
                 PROVE  Holders(f)' # {}
        BY DEF OpenSocketHasHolder
    <2>1. f = e
        BY <1>1, <1>3 DEF IndInv, TypeOK, OneSocket
    <2>2. LessOne(refs[e]) # 0
        BY <1>1, <1>3, <2>1 DEF IndInv, TypeOK
    <2>3. QED
        BY <1>9, <2>1, <2>2
<1>15. QED
    BY <1>7, <1>8, <1>11, <1>12, <1>13, <1>14 DEF IndInv

LEMMA EnvironmentKeeps ==
    ASSUME IndInv,
           OtherProgram \/ \E e \in Endpoints : SocketClosed(e)
    PROVE  IndInv'
<1>1. \A f : Holders(f)' = Holders(f)
    BY DEF OtherProgram, SocketClosed, Holders
<1>2. TypeOK'
    BY DEF OtherProgram, SocketClosed, IndInv, TypeOK
<1>3. LockBookkeeping'
    BY ConsumersAssumption
    DEF OtherProgram, SocketClosed, IndInv, TypeOK, LockBookkeeping, MaybeEndpoint
<1>4. RefsCountHolders' /\ OpenSocketHasHolder'
    BY <1>1
    DEF OtherProgram, SocketClosed, IndInv, TypeOK, RefsCountHolders,
        OpenSocketHasHolder
<1>5. HeldSocketOpen' /\ OneSocket'
    BY DEF OtherProgram, SocketClosed, IndInv, TypeOK, MaybeEndpoint,
           HeldSocketOpen, OneSocket
<1>6. QED
    BY <1>2, <1>3, <1>4, <1>5 DEF IndInv

-----------------------------------------------------------------------------
(* The theorems                                                            *)

LEMMA NextKeeps == IndInv /\ [Next]_vars => IndInv'
<1> SUFFICES ASSUME IndInv, [Next]_vars PROVE IndInv'
    OBVIOUS
<1> USE DEF Positions
<1>0. waiters \in Seq(Consumers)
    BY DEF IndInv, TypeOK
<1>1. \A c \in Consumers : Append(waiters, c) \in Seq(Consumers)
    BY <1>0, AppendProperties
<1>2. waiters # <<>> => Tail(waiters) \in Seq(Consumers)
    BY <1>0, HeadTailProperties
<1>3. ASSUME NEW c \in Consumers, Acquire(c) PROVE IndInv'
    <2>1. CASE LockIdle /\ AcquireSection(c) /\ UNCHANGED waiters
        BY <1>0, <1>3, <2>1, AcquireSectionKeeps DEF Acquire, LockIdle
    <2>2. CASE Suspend(c, "waitAcquire")
        BY <1>1, <1>3, <2>2, MovesOnly DEF Acquire, Suspend
    <2>3. QED
        BY <1>3, <2>1, <2>2 DEF Acquire
<1>4. ASSUME NEW c \in Consumers, AcquireGranted(c) PROVE IndInv'
    BY <1>2, <1>4, AcquireSectionKeeps DEF AcquireGranted, Granted
<1>5. ASSUME NEW c \in Consumers, AcquireCancelled(c) PROVE IndInv'
    BY <1>5, WithdrawType, MovesOnly DEF AcquireCancelled, IndInv
<1>6. ASSUME NEW c \in Consumers, BindDone(c) PROVE IndInv'
    BY <1>6, BindDoneKeeps
<1>7. ASSUME NEW c \in Consumers, BindCancelled(c) PROVE IndInv'
    BY <1>7, BindCancelledKeeps
<1>8. ASSUME NEW c \in Consumers, Release(c) PROVE IndInv'
    <2>1. CASE LockIdle /\ ReleaseSection(c) /\ UNCHANGED waiters
        BY <1>0, <1>8, <2>1, ReleaseSectionKeeps DEF Release, LockIdle
    <2>2. CASE Suspend(c, "waitRelease")
        BY <1>1, <1>8, <2>2, MovesOnly DEF Release, Suspend
    <2>3. QED
        BY <1>8, <2>1, <2>2 DEF Release
<1>9. ASSUME NEW c \in Consumers, ReleaseGranted(c) PROVE IndInv'
    BY <1>2, <1>9, ReleaseSectionKeeps DEF ReleaseGranted, Granted
<1>10. ASSUME NEW c \in Consumers, ReleaseCancelled(c) PROVE IndInv'
    BY <1>10, WithdrawType, MovesOnly DEF ReleaseCancelled, IndInv
<1>11. CASE OtherProgram \/ \E e \in Endpoints : SocketClosed(e)
    BY <1>11, EnvironmentKeeps
<1>12. CASE UNCHANGED vars
    BY <1>12 DEF vars, IndInv, TypeOK, LockBookkeeping, RefsCountHolders,
                 HeldSocketOpen, OneSocket, OpenSocketHasHolder, Holders,
                 MaybeEndpoint
<1>13. QED
    BY <1>3, <1>4, <1>5, <1>6, <1>7, <1>8, <1>9, <1>10, <1>11, <1>12 DEF Next

LEMMA IndInvHolds == Spec => []IndInv
<1>1. QED
    BY InitIndInv, NextKeeps, PTL DEF Spec

\* Type correctness of the shared endpoint for any number of consumers.
THEOREM TypeCorrect == Spec => []TypeOK
<1>1. IndInv => TypeOK
    BY DEF IndInv
<1>2. QED
    BY <1>1, IndInvHolds, PTL

\* udp.py's _references is the number of holders in every reachable state.
THEOREM ReferenceCount == Spec => []RefsCountHolders
<1>1. IndInv => RefsCountHolders
    BY DEF IndInv
<1>2. QED
    BY <1>1, IndInvHolds, PTL

\* No interleaving of acquires, releases and cancellations closes a socket
\* under a consumer that holds it.
THEOREM SocketStaysOpen == Spec => []HeldSocketOpen
<1>1. IndInv => HeldSocketOpen
    BY DEF IndInv
<1>2. QED
    BY <1>1, IndInvHolds, PTL

\* Racing first acquirers never leave two sockets, and an open socket is the
\* registered one and has a holder.
THEOREM SharedSocket == Spec => [](OneSocket /\ OpenSocketHasHolder)
<1>1. IndInv => OneSocket /\ OpenSocketHasHolder
    BY DEF IndInv
<1>2. QED
    BY <1>1, IndInvHolds, PTL

-----------------------------------------------------------------------------
(* The two programs that write schedules: what they report, for any slots,    *)
(* timers and number of attempts, whatever the network does to the datagrams  *)

Stages == Reads \cup {"idle", "review", "settle", "ended"}

\* A program's own state is that before the step, but for its queue.
Kept(w) ==
    /\ stage'[w] = stage[w] /\ first'[w] = first[w] /\ sent'[w] = sent[w]
    /\ desired'[w] = desired[w] /\ checked'[w] = checked[w]
    /\ outcome'[w] = outcome[w]

-----------------------------------------------------------------------------
(* Lemmas about the operators                                              *)

LEMMA ClearedType == Cleared \in Schedule
BY DEF Cleared, Schedule

\* What one program does to its stage, its attempts and its queue is typed.
LEMMA QueryType ==
    ASSUME SchedulesTypeOK, NEW u \in Users, NEW read \in Reads, NEW n \in 0 .. Attempts,
           Query(u, read, n)
    PROVE  /\ stage' \in [Users -> Stages] /\ attempt' \in [Users -> 0 .. Attempts]
           /\ retained' \in BOOLEAN /\ replies' \in [Users -> SUBSET Schedule]
           /\ outcome' \in [Users -> Outcomes]
BY DEF SchedulesTypeOK, Query, Stages

LEMMA EndType ==
    ASSUME SchedulesTypeOK, NEW u \in Users, NEW result \in Outcomes, End(u, result)
    PROVE  /\ stage' \in [Users -> Stages] /\ attempt' \in [Users -> 0 .. Attempts]
           /\ retained' \in BOOLEAN /\ replies' \in [Users -> SUBSET Schedule]
           /\ outcome' \in [Users -> Outcomes]
<1>1. 0 \in 0 .. Attempts
      BY SchedulesAssumption
<1>. QED
      BY <1>1 DEF SchedulesTypeOK, End, Stages

LEMMA SendWriteType ==
    ASSUME SchedulesTypeOK, NEW u \in Users, SendWrite(u)
    PROVE  /\ stage' \in [Users -> Stages] /\ attempt' \in [Users -> 0 .. Attempts]
           /\ retained' \in BOOLEAN /\ replies' \in [Users -> SUBSET Schedule]
           /\ outcome' \in [Users -> Outcomes] /\ sent' \in [Users -> BOOLEAN]
<1>1. 0 \in 0 .. Attempts
      BY SchedulesAssumption
<1>. QED
      BY <1>1 DEF SchedulesTypeOK, SendWrite, Stages

-----------------------------------------------------------------------------
(* The type invariant                                                      *)

LEMMA ReceiveType ==
    ASSUME SchedulesTypeOK, NEW u \in Users, Receive(u)
    PROVE  SchedulesTypeOK'
<1>0. UNCHANGED <<content, initial, history, desired, checked>>
      BY DEF Receive, device, plan
<1>1. PICK v \in replies[u] :
        FirstRead(u, v) \/ FreshRead(u, v) \/ Verified(u, v) \/ Contradicted(u, v)
      BY DEF Receive
<1>2. v \in Schedule
      BY DEF SchedulesTypeOK
<1>3. 0 \in 0 .. Attempts /\ 1 \in 0 .. Attempts
      BY SchedulesAssumption
<1>4. CASE FirstRead(u, v)
      <2>1. first' \in [Users -> Schedule]
            BY <1>2, <1>4 DEF FirstRead, SchedulesTypeOK
      <2>2. CASE SendWrite(u)
            BY <1>0, <2>1, <2>2, SendWriteType DEF SchedulesTypeOK, Stages
      <2>3. CASE /\ stage' = [stage EXCEPT ![u] = "review"]
                 /\ attempt' = [attempt EXCEPT ![u] = 0]
                 /\ UNCHANGED <<replies, sent, retained, outcome>>
            BY <1>0, <1>3, <2>1, <2>3 DEF SchedulesTypeOK
      <2>. QED
            BY <1>4, <2>2, <2>3 DEF FirstRead
<1>5. CASE FreshRead(u, v)
      <2>1. CASE SendWrite(u)
            BY <1>0, <1>5, <2>1, SendWriteType DEF SchedulesTypeOK, Stages, FreshRead
      <2>2. CASE End(u, "refused") /\ UNCHANGED sent
            BY <1>0, <1>5, <2>2, EndType DEF SchedulesTypeOK, Stages, FreshRead, Outcomes
      <2>. QED
            BY <1>5, <2>1, <2>2 DEF FreshRead
<1>6. CASE Verified(u, v)
      <2>1. CASE Query(u, "verify2", 1)
            BY <1>0, <1>3, <1>6, <2>1, QueryType DEF SchedulesTypeOK, Stages, Verified, Reads
      <2>2. CASE End(u, "ok")
            BY <1>0, <1>6, <2>2, EndType DEF SchedulesTypeOK, Stages, Verified, Outcomes
      <2>. QED
            BY <1>6, <2>1, <2>2 DEF Verified
<1>7. CASE Contradicted(u, v)
      <2>1. CASE retained' = TRUE /\ UNCHANGED <<replies, stage, attempt, outcome>>
            BY <1>0, <1>7, <2>1 DEF SchedulesTypeOK, Contradicted
      <2>2. CASE End(u, "mismatch")
            BY <1>0, <1>7, <2>2, EndType DEF SchedulesTypeOK, Stages, Contradicted, Outcomes
      <2>. QED
            BY <1>7, <2>1, <2>2 DEF Contradicted
<1>. QED
      BY <1>1, <1>4, <1>5, <1>6, <1>7

LEMMA ChangeType ==
    ASSUME SchedulesTypeOK, Change
    PROVE  SchedulesTypeOK'
<1>0. 1 \in 0 .. Attempts /\ "manager" \in Users /\ "fresh" \in Reads
      BY SchedulesAssumption DEF Users, Reads
<1>1. Query("manager", "fresh", 1) /\ UNCHANGED <<content, initial, history, first, sent>>
      BY DEF Change, device
<1>2. desired' \in [Users -> Schedule] /\ checked' \in [Users -> SUBSET Slots]
      <2>1. ASSUME NEW s \in Slots, NEW t \in Timers
            PROVE  [first["manager"] EXCEPT ![s] = t] \in Schedule
            BY <1>0 DEF SchedulesTypeOK, Schedule
      <2>. QED
            BY <1>0, <2>1, ClearedType DEF Change, SchedulesTypeOK
<1>. QED
      BY <1>0, <1>1, <1>2, QueryType DEF SchedulesTypeOK, Stages

LEMMA TypeInv ==
    ASSUME SchedulesTypeOK, [SchedulesNext]_schedulesVars
    PROVE  SchedulesTypeOK'
<1>0. 0 \in 0 .. Attempts /\ 1 \in 0 .. Attempts
      BY SchedulesAssumption
<1>1. ASSUME NEW u \in Users, Answer(u)
      PROVE  SchedulesTypeOK'
      BY <1>1 DEF Answer, SchedulesTypeOK, device, plan
<1>2. ASSUME NEW u \in Users, ExecuteWrite(u)
      PROVE  SchedulesTypeOK'
      BY <1>2 DEF ExecuteWrite, SchedulesTypeOK, plan
<1>3. ASSUME NEW u \in Users, Start(u)
      PROVE  SchedulesTypeOK'
      <2>1. history' \in [Users -> SUBSET Schedule]
            BY <1>3 DEF Start, SchedulesTypeOK
      <2>. QED
            BY <1>0, <1>3, <2>1, QueryType DEF Start, SchedulesTypeOK, plan, Stages, Reads
<1>4. ASSUME NEW u \in Users, Deadline(u)
      PROVE  SchedulesTypeOK'
      <2>1. CASE attempt[u] < Attempts /\ Query(u, stage[u], attempt[u] + 1)
            <3>1. attempt[u] + 1 \in 0 .. Attempts
                  BY <2>1, SchedulesAssumption DEF SchedulesTypeOK
            <3>. QED
                  BY <1>4, <2>1, <3>1, QueryType DEF Deadline, SchedulesTypeOK, device, plan, Stages
      <2>2. CASE End(u, IF u = "cleanup" /\ retained THEN "retained" ELSE "silent")
            BY <1>4, <2>2, EndType DEF Deadline, SchedulesTypeOK, device, plan, Stages, Outcomes
      <2>. QED
            BY <1>4, <2>1, <2>2 DEF Deadline
<1>5. ASSUME NEW u \in Users, Settled(u)
      PROVE  SchedulesTypeOK'
      BY <1>0, <1>5, QueryType DEF Settled, SchedulesTypeOK, device, plan, Stages, Reads
<1>6. ASSUME NEW u \in Users, Break(u)
      PROVE  SchedulesTypeOK'
      BY <1>6, EndType DEF Break, SchedulesTypeOK, device, plan, Stages, Outcomes
<1>7. CASE UNCHANGED schedulesVars
      BY <1>7 DEF schedulesVars, device, plan, SchedulesTypeOK
<1>. QED
      BY <1>1, <1>2, <1>3, <1>4, <1>5, <1>6, <1>7, ReceiveType, ChangeType DEF SchedulesNext

-----------------------------------------------------------------------------
(* The steps of one program                                                *)

\* What a program does of itself.
Acts(u) ==
    \/ Receive(u) \/ Start(u) \/ Deadline(u) \/ Settled(u) \/ Break(u)
    \/ u = "manager" /\ Change

LEMMA Steps ==
    ASSUME [SchedulesNext]_schedulesVars
    PROVE  \/ \E u \in Users : Answer(u) \/ ExecuteWrite(u) \/ Acts(u)
           \/ UNCHANGED schedulesVars
BY DEF SchedulesNext, Acts, Users

\* A program acts on its own state only, and what is in flight to it can only go.
LEMMA ActsFrame ==
    ASSUME SchedulesTypeOK, NEW u \in Users, Acts(u)
    PROVE  /\ UNCHANGED <<content, initial>>
           /\ \A w \in Users \ {u} :
                Kept(w) /\ replies'[w] = replies[w] /\ history'[w] = history[w]
           /\ replies'[u] \subseteq replies[u]
           /\ stage[u] # "idle" => history'[u] = history[u]
           /\ u # "cleanup" => retained' = retained
<1> USE DEF Acts, SchedulesTypeOK, Kept, device, plan
<1>1. CASE Receive(u)
      <2>1. PICK v \in replies[u] : \/ FirstRead(u, v) \/ FreshRead(u, v)
                                     \/ Verified(u, v) \/ Contradicted(u, v)
            BY <1>1 DEF Receive
      <2>2. UNCHANGED <<content, initial, history, desired, checked>>
            BY <1>1 DEF Receive
      <2>3. CASE FirstRead(u, v)
            BY <2>2, <2>3 DEF FirstRead, SendWrite
      <2>4. CASE FreshRead(u, v)
            BY <2>2, <2>4 DEF FreshRead, SendWrite, End
      <2>5. CASE Verified(u, v)
            BY <2>2, <2>5 DEF Verified, Query, End
      <2>6. CASE Contradicted(u, v)
            BY <2>2, <2>6 DEF Contradicted, End
      <2>. QED
            BY <2>1, <2>3, <2>4, <2>5, <2>6
<1>2. CASE Start(u)
      BY <1>2 DEF Start, Query
<1>3. CASE Deadline(u)
      BY <1>3 DEF Deadline, Query, End
<1>4. CASE Settled(u)
      BY <1>4 DEF Settled, Query
<1>5. CASE Break(u)
      BY <1>5 DEF Break, End
<1>6. CASE u = "manager" /\ Change
      BY <1>6 DEF Change, Query
<1>. QED
      BY <1>1, <1>2, <1>3, <1>4, <1>5, <1>6

\* What is left of Acts(u): the state of u itself.  A step goes on to another
\* query, sends the write, ends the program, or plans what to write.
GoesOn(u) ==
    /\ \/ stage[u] \in Reads /\ stage'[u] = stage[u]
       \/ stage[u] = "idle" /\ stage'[u] = "first"
       \/ stage[u] = "settle" /\ stage'[u] = "verify1"
       \/ stage[u] = "verify1" /\ stage'[u] = "verify2"
    /\ UNCHANGED <<first, plan, sent, outcome>>
    /\ retained' => \/ retained
                     \/ /\ u = "cleanup" /\ stage[u] \in Verifying
                        /\ \E v \in replies[u] : ~Matches(u, v)

ReadsFirst(u) ==
    /\ stage[u] = "first" /\ first'[u] \in replies[u]
    /\ \/ u = "cleanup" /\ stage'[u] = "settle" /\ sent'[u]
       \/ u = "manager" /\ stage'[u] = "review" /\ sent'[u] = sent[u]
    /\ UNCHANGED <<outcome, retained, plan>>

Writes(u) ==
    /\ stage[u] = "fresh" /\ stage'[u] = "settle" /\ sent'[u]
    /\ UNCHANGED <<first, outcome, retained, plan>>

Plans(u) ==
    /\ u = "manager" /\ stage[u] = "review" /\ stage'[u] = "fresh"
    /\ \/ \A s \in Slots \ checked'[u] : desired'[u][s] = first[u][s]
       \/ checked'[u] = checked[u]
    /\ UNCHANGED <<first, sent, outcome, retained>>

Finishes(u) ==
    /\ stage[u] # "ended" /\ stage'[u] = "ended" /\ replies'[u] = {}
    /\ outcome'[u] # "none"
    /\ outcome'[u] = "ok" =>
            stage[u] \in Verifying /\ \E v \in replies[u] : Matches(u, v)
    /\ u = "cleanup" /\ outcome'[u] = "retained" => retained
    /\ retained' => retained
    /\ UNCHANGED <<first, plan, sent>>

LEMMA ActsCases ==
    ASSUME SchedulesTypeOK, NEW u \in Users, Acts(u)
    PROVE  GoesOn(u) \/ ReadsFirst(u) \/ Writes(u) \/ Plans(u) \/ Finishes(u)
<1> USE DEF Acts, SchedulesTypeOK, device, plan
<1>1. CASE Receive(u)
      <2>1. PICK v \in replies[u] : \/ FirstRead(u, v) \/ FreshRead(u, v)
                                     \/ Verified(u, v) \/ Contradicted(u, v)
            BY <1>1 DEF Receive
      <2>2. UNCHANGED plan
            BY <1>1 DEF Receive
      <2>3. CASE FirstRead(u, v)
            BY <2>2, <2>3 DEF FirstRead, SendWrite, ReadsFirst
      <2>4. CASE FreshRead(u, v)
            BY <2>2, <2>4 DEF FreshRead, SendWrite, End, Writes, Finishes
      <2>5. CASE Verified(u, v)
            BY <2>2, <2>5 DEF Verified, Verifying, Query, End, GoesOn, Finishes
      <2>6. CASE Contradicted(u, v)
            BY <2>2, <2>6 DEF Contradicted, Verifying, Reads, End, GoesOn, Finishes
      <2>. QED
            BY <2>1, <2>3, <2>4, <2>5, <2>6
<1>2. CASE Start(u)
      BY <1>2 DEF Start, Query, GoesOn
<1>3. CASE Deadline(u)
      BY <1>3 DEF Deadline, Reads, Query, End, GoesOn, Finishes
<1>4. CASE Settled(u)
      BY <1>4 DEF Settled, Query, GoesOn
<1>5. CASE Break(u)
      BY <1>5 DEF Break, End, Finishes
<1>6. CASE u = "manager" /\ Change
      <2>1. \/ \A s \in Slots \ checked'[u] : desired'[u][s] = first[u][s]
            \/ checked'[u] = checked[u]
            <3>1. ASSUME NEW s \in Slots, NEW t \in Timers,
                         desired' = [desired EXCEPT !["manager"] =
                                        [first["manager"] EXCEPT ![s] = t]],
                         checked' = [checked EXCEPT !["manager"] = {s}]
                  PROVE  \A r \in Slots \ checked'[u] : desired'[u][r] = first[u][r]
                  <4>1. /\ desired'[u] = [first[u] EXCEPT ![s] = t] /\ checked'[u] = {s}
                        /\ first[u] \in Schedule
                        BY <1>6, <3>1
                  <4>. QED
                        BY <4>1 DEF Schedule
            <3>. QED
                  BY <1>6, <3>1 DEF Change
      <2>. QED
            BY <1>6, <2>1 DEF Change, Query, Plans
<1>. QED
      BY <1>1, <1>2, <1>3, <1>4, <1>5, <1>6

-----------------------------------------------------------------------------
(* The invariant, part by part                                             *)

LEMMA StageInv ==
    ASSUME SchedulesInv, [SchedulesNext]_schedulesVars, NEW w \in Users
    PROVE  StageShape(w)'
<1> USE DEF SchedulesInv, SchedulesTypeOK, StageShape, Verifying, Reads
<1>1. ASSUME NEW u \in Users, Acts(u)
      PROVE  StageShape(w)'
      <2>1. CASE u # w
            <3>1. Kept(w)
                  BY <1>1, <2>1, ActsFrame
            <3>. QED
                  BY <3>1 DEF Kept
      <2>2. CASE u = w
            <3>1. CASE GoesOn(w)
                  BY <3>1 DEF GoesOn
            <3>2. CASE ReadsFirst(w)
                  BY <3>2 DEF ReadsFirst
            <3>3. CASE Writes(w)
                  BY <3>3 DEF Writes
            <3>4. CASE Plans(w)
                  BY <3>4 DEF Plans
            <3>5. CASE Finishes(w)
                  BY <3>5 DEF Finishes
            <3>. QED
                  BY <1>1, <2>2, <3>1, <3>2, <3>3, <3>4, <3>5, ActsCases
      <2>. QED
            BY <2>1, <2>2
<1>2. CASE UNCHANGED <<stage, sent, outcome>>
      BY <1>2
<1>. QED
      BY <1>1, <1>2, Steps DEF Answer, ExecuteWrite, schedulesVars

LEMMA PlanInv ==
    ASSUME SchedulesInv, [SchedulesNext]_schedulesVars, NEW w \in Users
    PROVE  PlanShape(w)'
<1> USE DEF SchedulesInv, SchedulesTypeOK, StageShape, PlanShape, Planned, Verifying, Reads
<1>1. ASSUME NEW u \in Users, Acts(u)
      PROVE  PlanShape(w)'
      <2>1. CASE u # w
            <3>1. Kept(w)
                  BY <1>1, <2>1, ActsFrame
            <3>. QED
                  BY <3>1 DEF Kept
      <2>2. CASE u = w
            <3>1. CASE GoesOn(w)
                  BY <3>1 DEF GoesOn, plan
            <3>2. CASE ReadsFirst(w)
                  BY <3>2 DEF ReadsFirst, plan
            <3>3. CASE Writes(w)
                  BY <3>3 DEF Writes, plan
            <3>4. CASE Plans(w)
                  BY <3>4 DEF Plans
            <3>5. CASE Finishes(w)
                  BY <3>5 DEF Finishes, plan
            <3>. QED
                  BY <1>1, <2>2, <3>1, <3>2, <3>3, <3>4, <3>5, ActsCases
      <2>. QED
            BY <2>1, <2>2
<1>2. CASE UNCHANGED <<stage, sent, first, plan>>
      BY <1>2 DEF plan
<1>. QED
      BY <1>1, <1>2, Steps DEF Answer, ExecuteWrite, schedulesVars

LEMMA RepliesInv ==
    ASSUME SchedulesInv, [SchedulesNext]_schedulesVars, NEW w \in Users
    PROVE  RepliesPast(w)'
<1> USE DEF SchedulesInv, SchedulesTypeOK, StageShape, RepliesPast, Matches, Running, Verifying, Reads
<1>1. ASSUME NEW u \in Users, Answer(u)
      PROVE  RepliesPast(w)'
      BY <1>1 DEF Answer, device, plan
<1>2. ASSUME NEW u \in Users, ExecuteWrite(u)
      PROVE  RepliesPast(w)'
      BY <1>2 DEF ExecuteWrite, plan
<1>3. ASSUME NEW u \in Users, Acts(u), u # w
      PROVE  RepliesPast(w)'
      <2>1. /\ UNCHANGED content /\ Kept(w)
            /\ replies'[w] = replies[w] /\ history'[w] = history[w]
            BY <1>3, ActsFrame
      <2>. QED
            BY <2>1 DEF Kept
<1>4. CASE Start(w)
      BY <1>4 DEF Start, Query, plan
<1>5. CASE Acts(w) /\ stage[w] # "idle"
      <2>1. /\ UNCHANGED content
            /\ replies'[w] \subseteq replies[w] /\ history'[w] = history[w]
            BY <1>5, ActsFrame
      <2>2. CASE GoesOn(w)
            BY <1>5, <2>1, <2>2 DEF GoesOn, plan
      <2>3. CASE ReadsFirst(w)
            BY <2>1, <2>3 DEF ReadsFirst, plan
      <2>4. CASE Writes(w)
            BY <2>1, <2>4 DEF Writes, plan
      <2>5. CASE Plans(w)
            BY <2>1, <2>5 DEF Plans
      <2>6. CASE Finishes(w)
            BY <2>1, <2>6, <1>5 DEF Finishes, plan
      <2>. QED
            BY <1>5, <2>2, <2>3, <2>4, <2>5, <2>6, ActsCases
<1>6. CASE Acts(w) /\ stage[w] = "idle" /\ ~Start(w)
      BY <1>6 DEF Acts, Break, End, Receive, FirstRead, FreshRead, Verified, Contradicted,
                  Deadline, Settled, Change, device, plan
<1>7. CASE UNCHANGED schedulesVars
      BY <1>7 DEF schedulesVars, device, plan
<1>. QED
      BY <1>1, <1>2, <1>3, <1>4, <1>5, <1>6, <1>7, Steps

\* What is verified is all that differs: the schedule first read matches only if
\* it is the one that was written.
LEMMA MatchingFirst ==
    ASSUME SchedulesTypeOK, NEW u \in Users, PlanShape(u), Planned(u), NEW v \in Schedule,
           Matches(u, v), v = first[u]
    PROVE  v = desired[u]
<1>1. \A s \in Slots : v[s] = desired[u][s]
      BY DEF PlanShape, Matches
<1>. QED
      BY <1>1 DEF SchedulesTypeOK, Schedule

\* A clean-up is contradicted only by a schedule with a slot in use.
LEMMA MatchingCleared ==
    ASSUME PlanShape("cleanup")
    PROVE  Matches("cleanup", Cleared)
BY DEF PlanShape, Matches, Cleared

LEMMA AloneInv ==
    ASSUME SchedulesInv, [SchedulesNext]_schedulesVars, NEW w \in Users
    PROVE  AloneTrue(w)'
<1> USE DEF SchedulesInv, SchedulesTypeOK, StageShape, AloneTrue, Alone, HasRead, Verifying, Reads
<1>1. ASSUME NEW u \in Users, Answer(u)
      PROVE  AloneTrue(w)'
      BY <1>1 DEF Answer, device, plan
<1>2. ASSUME NEW u \in Users, ExecuteWrite(u)
      PROVE  AloneTrue(w)'
      BY <1>2 DEF ExecuteWrite, plan
<1>3. ASSUME NEW u \in Users, Acts(u), u # w
      PROVE  AloneTrue(w)'
      <2>1. UNCHANGED <<content, initial>> /\ Kept(w) /\ replies'[w] = replies[w]
            BY <1>3, ActsFrame
      <2>2. Alone(w)' => Alone(w)
            <3>1. ASSUME NEW x \in Users, sent[x]
                  PROVE  sent'[x]
                  <4>1. CASE x # u
                        BY <1>3, <3>1, <4>1, ActsFrame DEF Kept
                  <4>2. CASE x = u
                        BY <1>3, <3>1, <4>2, ActsCases
                           DEF GoesOn, ReadsFirst, Writes, Plans, Finishes
                  <4>. QED
                        BY <4>1, <4>2
            <3>. QED
                  BY <3>1
      <2>3. w = "cleanup" => retained' = retained
            BY <1>3, ActsFrame
      <2>. QED
            BY <2>1, <2>2, <2>3 DEF Kept
<1>4. CASE Acts(w) /\ Alone(w)'
      <2>1. /\ UNCHANGED <<content, initial>> /\ Alone(w)
            /\ replies'[w] \subseteq replies[w]
            BY <1>4, ActsFrame DEF Kept
      <2>2. CASE GoesOn(w)
            <3>1. w = "cleanup" /\ retained' => initial # Cleared
                  <4>1. ASSUME w = "cleanup", stage[w] \in Verifying,
                               NEW v \in replies[w], ~Matches(w, v)
                        PROVE  initial # Cleared
                        <5>1. v # Cleared /\ desired[w] = Cleared
                              BY <4>1, MatchingCleared DEF PlanShape
                        <5>. QED
                              BY <2>1, <4>1, <5>1
                  <4>. QED
                        BY <2>1, <2>2, <4>1 DEF GoesOn
            <3>. QED
                  BY <2>1, <2>2, <3>1 DEF GoesOn, plan
      <2>3. CASE ReadsFirst(w)
            BY <2>1, <2>3 DEF ReadsFirst, plan
      <2>4. CASE Writes(w)
            BY <2>1, <2>4 DEF Writes, plan
      <2>5. CASE Plans(w)
            BY <2>1, <2>5 DEF Plans
      <2>6. CASE Finishes(w)
            <3>1. outcome'[w] = "ok" => content = desired[w]
                  <4>1. ASSUME outcome'[w] = "ok"
                        PROVE  content = desired[w]
                        <5>1. /\ stage[w] \in Verifying
                              /\ \E v \in replies[w] : Matches(w, v)
                              BY <2>6, <4>1 DEF Finishes
                        <5>2. PICK v \in replies[w] : Matches(w, v)
                              BY <5>1
                        <5>3. /\ v \in {initial, content} /\ first[w] = initial
                              /\ v \in Schedule /\ Planned(w)
                              BY <2>1, <5>1 DEF Planned
                        <5>4. v = first[w] => v = desired[w]
                              BY <5>2, <5>3, MatchingFirst
                        <5>. QED
                              BY <2>1, <5>3, <5>4
                  <4>. QED
                        BY <4>1
            <3>. QED
                  BY <2>1, <2>6, <3>1 DEF Finishes, plan
      <2>. QED
            BY <1>4, <2>2, <2>3, <2>4, <2>5, <2>6, ActsCases
<1>5. CASE UNCHANGED schedulesVars
      BY <1>5 DEF schedulesVars, device, plan
<1>. QED
      BY <1>1, <1>2, <1>3, <1>4, <1>5, Steps

LEMMA SchedulesStart ==
    ASSUME SchedulesInit
    PROVE  SchedulesInv
<1> USE DEF SchedulesInit
<1>1. SchedulesTypeOK
      <2>1. 0 \in 0 .. Attempts
            BY SchedulesAssumption
      <2>2. /\ replies \in [Users -> SUBSET Schedule]
            /\ history \in [Users -> SUBSET Schedule]
            OBVIOUS
      <2>3. /\ attempt \in [Users -> 0 .. Attempts] /\ outcome \in [Users -> Outcomes]
            /\ stage \in [Users -> Reads \cup {"idle", "review", "settle", "ended"}]
            BY <2>1 DEF Outcomes
      <2>4. /\ first \in [Users -> Schedule] /\ desired \in [Users -> Schedule]
            /\ checked \in [Users -> SUBSET Slots]
            BY ClearedType
      <2>. QED
            BY <2>2, <2>3, <2>4 DEF SchedulesTypeOK
<1>2. ASSUME NEW u \in Users
      PROVE  StageShape(u) /\ PlanShape(u) /\ RepliesPast(u) /\ AloneTrue(u)
      BY DEF StageShape, PlanShape, Planned, RepliesPast, AloneTrue, Alone, HasRead,
             Running, Verifying
<1>. QED
      BY <1>1, <1>2 DEF SchedulesInv

LEMMA SchedulesStep ==
    ASSUME SchedulesInv, [SchedulesNext]_schedulesVars
    PROVE  SchedulesInv'
<1>1. SchedulesTypeOK'
      BY TypeInv DEF SchedulesInv
<1>. QED
      BY <1>1, StageInv, PlanInv, RepliesInv, AloneInv DEF SchedulesInv

LEMMA SchedulesSafe == SchedulesSpec => []SchedulesInv
BY SchedulesStart, SchedulesStep, PTL DEF SchedulesSpec

-----------------------------------------------------------------------------
(* The theorems                                                            *)

\* A program whose write had no rival says the truth of the device, whatever the
\* network lost, kept back or repeated: the clean-up of schedule.py when it has
\* succeeded or found schedules retained, and the manager's write_and_verify when
\* it has confirmed a change.
THEOREM TruthfulReport == SchedulesSpec => []ReportTruthful
<1>1. ASSUME SchedulesInv
      PROVE  ReportTruthful
      <2>1. /\ "cleanup" \in Users /\ "manager" \in Users
            /\ Alone("cleanup") <=> ~sent["manager"]
            /\ Alone("manager") <=> ~sent["cleanup"]
            BY <1>1 DEF Alone, Users
      <2>2. outcome["cleanup"] = "ok" => HasRead("cleanup")
            BY <1>1, <2>1 DEF SchedulesInv, StageShape, HasRead
      <2>. QED
            BY <1>1, <2>1, <2>2 DEF SchedulesInv, AloneTrue, PlanShape, ReportTruthful
<1>. QED
      BY <1>1, SchedulesSafe, PTL

\* With another writer about, success still means that what was verified was in
\* the device at some time since the program began: an old reply in flight, or
\* one of another program's write, never makes up a schedule that never was.
THEOREM TrueSuccess == SchedulesSpec => []SuccessWasTrue
<1>1. ASSUME SchedulesInv
      PROVE  SuccessWasTrue
      BY <1>1 DEF SchedulesInv, RepliesPast, Matches, SuccessWasTrue
<1>. QED
      BY <1>1, SchedulesSafe, PTL
=============================================================================
