----------------------------- MODULE Discovery -----------------------------
(***************************************************************************)
(* One discovery on the local network: the race of local_discovery.py      *)
(* between the legacy mechanism (discovery.py, over the shared endpoint)   *)
(* and the CoAP mechanism (sockets of its own).  It looks either for all   *)
(* devices but those configured, or for the one at an address, whose MAC   *)
(* may be known.                                                           *)
(*                                                                         *)
(* A result is an identity: a legacy device is its MAC; a Life device has  *)
(* an id and gives its MAC only in some of its replies.  Probes, and their *)
(* repetition until the first reply, need no state: devices reply at will. *)
(***************************************************************************)
EXTENDS Naturals, FiniteSets

CONSTANTS Macs,       \* MACs of the devices that reply
          LifeIds,    \* ids of those that speak 352Life
          MacOf,      \* their MACs
          NoMac,
          MaxDevices  \* results a mechanism keeps, 64 in both

ASSUME DiscoveryAssumption ==
    /\ MacOf \in [LifeIds -> Macs]
    /\ NoMac \notin Macs /\ Macs \cap LifeIds = {}
    /\ MaxDevices \in Nat \ {0}

LegacyReply == {[id |-> m, mac |-> m] : m \in Macs}
LifeReply == {[id |-> l, mac |-> MacOf[l]] : l \in LifeIds}
              \cup {[id |-> l, mac |-> NoMac] : l \in LifeIds}
Results == LegacyReply \cup LifeReply
Tasks == {"legacy", "life"}

VARIABLES
    wanted,     \* the MAC looked for
    directed,   \* one address is looked at, not the network
    excluded,   \* identities and MACs of the configured entries
    \* the two tasks
    task,       \* where a task stands
    found,      \* protocol.results, protocol.result
    told,       \* the Life devices that have said their MAC to it, whatever it made of that
    answer,     \* what it returned
    verdict,    \* how it ended
    held,       \* its sockets or its reference to the endpoint
    cancelling, \* a cancellation is on its way to it
    \* _race_discovery
    race,       \* where the race stands
    collected,  \* the tasks it has looked at
    results,    \* what it has found, or returned
    outcome

question == <<wanted, directed, excluded>>
taskVars == <<task, found, told, answer, verdict, held, cancelling>>
raceVars == <<race, collected, results, outcome>>
discoveryVars == <<question, taskVars, raceVars>>

DiscoveryTypeOK ==
    /\ wanted \in Macs \cup {NoMac}
    /\ directed \in BOOLEAN
    /\ excluded \subseteq Macs \cup LifeIds
    /\ task \in [Tasks -> {"new", "acquire", "listen", "settle", "stop",
                           "release", "ended"}]
    /\ told \subseteq LifeIds
    /\ found \in [Tasks -> SUBSET Results] /\ answer \in [Tasks -> SUBSET Results]
    /\ verdict \in [Tasks -> {"none", "ok", "failed", "cancelled", "leaked"}]
    /\ held \in [Tasks -> BOOLEAN] /\ cancelling \in [Tasks -> BOOLEAN]
    /\ race \in {"wait", "settle", "stop", "done"}
    /\ collected \subseteq Tasks
    /\ results \subseteq Results
    /\ outcome \in {"none", "found", "nothing", "ambiguous", "cancelled"}

DiscoveryInit ==
    /\ directed \in BOOLEAN
    /\ IF directed THEN wanted \in Macs \cup {NoMac} /\ excluded = {}
                   ELSE wanted = NoMac /\ excluded \in SUBSET (Macs \cup LifeIds)
    /\ task = [t \in Tasks |-> "new"]
    /\ found = [t \in Tasks |-> {}] /\ told = {} /\ answer = [t \in Tasks |-> {}]
    /\ verdict = [t \in Tasks |-> "none"]
    /\ held = [t \in Tasks |-> FALSE] /\ cancelling = [t \in Tasks |-> FALSE]
    /\ race = "wait" /\ collected = {} /\ results = {} /\ outcome = "none"

Ended(t) == task[t] = "ended"
AllEnded == \A t \in Tasks : Ended(t)

\* async_discover_device of discovery.py: one identity, given its MAC.
Probing(t) == t = "legacy" /\ directed /\ wanted # NoMac

-----------------------------------------------------------------------------
(* The tasks                                                               *)

Go(t, where) == task' = [task EXCEPT ![t] = where]

Conclude(t, how, what) ==
    /\ verdict' = [verdict EXCEPT ![t] = how]
    /\ answer' = [answer EXCEPT ![t] = what]

\* The legacy task cancels its probes and releases the endpoint, which awaits;
\* the CoAP sockets are closed at once.
Leave(t) ==
    IF t = "legacy" THEN Go(t, "stop") /\ UNCHANGED held
    ELSE Go(t, "ended") /\ held' = [held EXCEPT ![t] = FALSE]

Begin(t) ==
    /\ task[t] = "new" /\ ~cancelling[t]
    /\ Go(t, "acquire")
    /\ UNCHANGED <<question, found, told, answer, verdict, held, cancelling, raceVars>>

Acquired(t) ==
    /\ task[t] = "acquire"
    /\ Go(t, "listen")
    /\ held' = [held EXCEPT ![t] = TRUE]
    /\ UNCHANGED <<question, found, told, answer, verdict, cancelling, raceVars>>

\* No endpoint is an error, no usable interface is an empty answer.
NotAcquired(t) ==
    /\ task[t] = "acquire"
    /\ Go(t, "ended")
    /\ Conclude(t, IF t = "legacy" THEN "failed" ELSE "ok", {})
    /\ UNCHANGED <<question, found, told, held, cancelling, raceVars>>

\* The filters of the two receivers.  The addresses are those looked at.
Eligible(t, r) ==
    /\ r \in IF t = "legacy" THEN LegacyReply ELSE LifeReply
    /\ r.id \notin excluded /\ r.mac \notin excluded
    /\ wanted # NoMac => r.mac \in {wanted, NoMac}
    /\ \/ \E f \in found[t] : f.id = r.id
       \/ Cardinality(found[t]) < MaxDevices
    /\ Probing(t) => found[t] = {}

\* Mutant: a reply replaces what was recorded of its identity.
MergedLatest(t, r) == {f \in found[t] : f.id # r.id} \cup {r}

\* A MAC once given stays with the identity.
Merged(t, r) ==
    {f \in found[t] : f.id # r.id} \cup
    {IF r.mac = NoMac /\ \E f \in found[t] : f.id = r.id
        THEN CHOOSE f \in found[t] : f.id = r.id ELSE r}

\* A valid reply comes.  What the filters skip changes nothing, not even what was
\* recorded of its device before; nor do replies that come after the answer.
Reply(t, r) ==
    /\ task[t] \in {"listen", "settle"}
    /\ r \in IF t = "legacy" THEN LegacyReply ELSE LifeReply
    /\ found' = [found EXCEPT ![t] = IF Eligible(t, r) THEN Merged(t, r) ELSE @]
    /\ told' = IF r.id \in LifeIds /\ r.mac # NoMac THEN told \cup {r.id} ELSE told
    /\ UNCHANGED <<question, task, answer, verdict, held, cancelling, raceVars>>

\* response_received, found: the legacy task returns what it has, the CoAP
\* task stays for the reply of its other method.
Woken(t) ==
    /\ task[t] = "listen" /\ found[t] # {}
    /\ \/ t = "legacy" /\ Leave(t) /\ Conclude(t, "ok", found[t])
       \/ t = "life" /\ Go(t, "settle") /\ UNCHANGED <<answer, verdict, held>>
    /\ UNCHANGED <<question, found, told, cancelling, raceVars>>

\* The window ends, perhaps as a reply comes.
TimedOut(t) ==
    /\ task[t] = "listen"
    /\ Leave(t)
    /\ IF Probing(t) THEN Conclude(t, "failed", {}) ELSE Conclude(t, "ok", found[t])
    /\ UNCHANGED <<question, found, told, cancelling, raceVars>>

Settled(t) ==
    /\ task[t] = "settle"
    /\ Leave(t)
    /\ Conclude(t, "ok", found[t])
    /\ UNCHANGED <<question, found, told, cancelling, raceVars>>

ProbesStopped(t) ==
    /\ task[t] = "stop"
    /\ Go(t, "release")
    /\ UNCHANGED <<question, found, told, answer, verdict, held, cancelling, raceVars>>

Released(t) ==
    /\ task[t] = "release"
    /\ Go(t, "ended")
    /\ held' = [held EXCEPT ![t] = FALSE]
    /\ UNCHANGED <<question, found, told, answer, verdict, cancelling, raceVars>>

\* Mutant: a cancelled task does not clean up.
TaskCancelledAtOnce(t) ==
    /\ cancelling[t] /\ ~Ended(t)
    /\ cancelling' = [cancelling EXCEPT ![t] = FALSE]
    /\ Go(t, "ended") /\ Conclude(t, "cancelled", {})
    /\ UNCHANGED <<question, found, told, held, raceVars>>

\* CancelledError is raised where the task stands.  While it waits for its
\* probes to stop it is suppressed; if it strikes the wait for the endpoint's
\* lock, the endpoint is never released.
TaskCancelled(t) ==
    /\ cancelling[t] /\ ~Ended(t)
    /\ cancelling' = [cancelling EXCEPT ![t] = FALSE]
    /\ \/ /\ task[t] \in {"new", "acquire"}
          /\ Go(t, "ended") /\ Conclude(t, "cancelled", {}) /\ UNCHANGED held
       \/ /\ task[t] \in {"listen", "settle"}
          /\ Leave(t) /\ Conclude(t, "cancelled", {})
       \/ /\ task[t] = "stop"
          /\ Go(t, "release") /\ UNCHANGED <<answer, verdict, held>>
       \/ /\ task[t] = "release"
          /\ Go(t, "ended") /\ Conclude(t, "leaked", {}) /\ UNCHANGED held
    /\ UNCHANGED <<question, found, told, raceVars>>

-----------------------------------------------------------------------------
(* The race                                                                *)

\* What the tasks that have ended have returned.
Gathered == results \cup UNION {answer[t] : t \in {u \in Tasks : Ended(u)}}

\* A Life device with the MAC of a legacy one is left out.
Chosen(rs) ==
    LET legacyMacs == {r.mac : r \in rs \cap LegacyReply}
    IN {r \in rs : r \in LifeReply => r.mac \notin legacyMacs}

CancelTasks == cancelling' = [t \in Tasks |-> cancelling[t] \/ ~Ended(t)]

\* The race returns; its caller, if it asked for one device, wants just one.
FinishRace(rs) ==
    /\ results' = Chosen(rs)
    /\ outcome' = CASE Chosen(rs) = {} -> "nothing"
                    [] directed /\ Cardinality(Chosen(rs)) > 1 -> "ambiguous"
                    [] OTHER -> "found"
    /\ race' = "stop"
    /\ CancelTasks

\* Mutant: the first task to end ends the race.
CollectFirst ==
    /\ race = "wait"
    /\ \E t \in Tasks \ collected : Ended(t)
    /\ collected' = {t \in Tasks : Ended(t)}
    /\ FinishRace(Gathered)
    /\ UNCHANGED <<question, task, found, told, answer, verdict, held>>

\* Mutant: the race waits for results even if no task is left to give them.
CollectForever ==
    /\ race = "wait"
    /\ \E t \in Tasks \ collected : Ended(t)
    /\ collected' = {t \in Tasks : Ended(t)}
    /\ results' = Gathered
    /\ race' = IF Gathered # {} THEN "settle" ELSE "wait"
    /\ UNCHANGED <<question, taskVars, outcome>>

\* A task has ended: with results the race settles, or returns if both have
\* ended; without, it waits for the other.
Collect ==
    /\ race = "wait"
    /\ \E t \in Tasks \ collected : Ended(t)
    /\ collected' = {t \in Tasks : Ended(t)}
    /\ \/ AllEnded /\ FinishRace(Gathered)
       \/ /\ ~AllEnded
          /\ results' = Gathered
          /\ race' = IF Gathered # {} THEN "settle" ELSE "wait"
          /\ UNCHANGED <<outcome, cancelling>>
    /\ UNCHANGED <<question, task, found, told, answer, verdict, held>>

SettleEnds ==
    /\ race = "settle"
    /\ collected' = {t \in Tasks : Ended(t)}
    /\ FinishRace(Gathered)
    /\ UNCHANGED <<question, task, found, told, answer, verdict, held>>

\* The flow is removed.  While the race waits for its tasks to end, the
\* cancellation goes on to them.
RaceCancelled ==
    /\ race # "done" /\ outcome # "cancelled"
    /\ race' = "stop"
    /\ outcome' = "cancelled"
    /\ CancelTasks
    /\ UNCHANGED <<question, task, found, told, answer, verdict, held, collected, results>>

Done ==
    /\ race = "stop" /\ AllEnded
    /\ race' = "done"
    /\ UNCHANGED <<question, taskVars, collected, results, outcome>>

-----------------------------------------------------------------------------
(* The system                                                              *)

\* What the loop does by itself for a task.
Step(t) ==
    \/ Begin(t) \/ Acquired(t) \/ NotAcquired(t) \/ Woken(t) \/ TimedOut(t)
    \/ Settled(t) \/ ProbesStopped(t) \/ Released(t) \/ TaskCancelled(t)

RaceStep == Collect \/ SettleEnds \/ Done

DiscoveryNext ==
    \/ \E t \in Tasks : Step(t) \/ \E r \in Results : Reply(t, r)
    \/ RaceStep \/ RaceCancelled

DiscoverySpec == DiscoveryInit /\ [][DiscoveryNext]_discoveryVars

\* Tasks run, sleeps and windows end, and the endpoint's lock is handed on
\* (WaitersServed of UdpEndpoint).  Nothing makes a device reply.
Fairness == WF_discoveryVars(RaceStep) /\ \A t \in Tasks : WF_discoveryVars(Step(t))

FairSpec == DiscoverySpec /\ Fairness

-----------------------------------------------------------------------------
(* Properties                                                              *)

\* However a discovery ends, its tasks have ended and hold no socket; a
\* reference to the shared endpoint is kept only by a release that was
\* cancelled (local_discovery.py:347-351, discovery.py:397-403 and 583-590).
NothingLeftOpen ==
    race = "done" => AllEnded /\ \A t \in Tasks : held[t] => verdict[t] = "leaked"

\* A discovery finds nothing only if both mechanisms have run to their end and
\* heard nobody, unless the reply came as the window of the probe of one device
\* ended: "One failing/empty protocol must not hide another protocol's replies"
\* (local_discovery.py:304).
NothingHidden ==
    outcome = "nothing" =>
        \A t \in Tasks : /\ verdict[t] \in {"ok", "failed"}
                         /\ found[t] = {} \/ (Probing(t) /\ verdict[t] = "failed")

\* A MAC the filters do not let in.
Refused(m) == m \in excluded \/ (wanted # NoMac /\ m # wanted)

\* What is offered is recorded as nothing that is configured and as what was looked
\* for, and whatever order replies with and without MAC come in, a Life device that
\* has said its MAC is offered with it, and not beside the legacy device of that
\* MAC.  One whose MAC the filters refuse is the exception: the reply that says it
\* is skipped, and the device is offered from a reply that does not, whichever
\* comes first (local_discovery.py:148-176).
OfferedOnce ==
    outcome \in {"found", "ambiguous"} => \A r \in results :
        /\ {r.id, r.mac} \cap excluded = {}
        /\ wanted # NoMac => r.mac \in {wanted, NoMac}
        /\ r.id \in told =>
               /\ r.mac = MacOf[r.id] \/ Refused(MacOf[r.id])
               /\ [id |-> MacOf[r.id], mac |-> MacOf[r.id]] \notin results

\* Every discovery ends, though no device may ever reply.
RaceEnds == race = "wait" ~> race = "done"
-----------------------------------------------------------------------------
(* Inductive invariant, in parts                                           *)

\* What one mechanism offers: its own results, of devices that are not
\* configured, with the MAC that was looked for if they have one.
Offerable(t) ==
    {r \in IF t = "legacy" THEN LegacyReply ELSE LifeReply :
        {r.id, r.mac} \cap excluded = {} /\ (wanted # NoMac => r.mac \in {wanted, NoMac})}

OnlyOfferable == \A t \in Tasks : found[t] \subseteq Offerable(t) /\ answer[t] \subseteq found[t]

\* A device has one entry in what a mechanism has found.  One that has said its MAC
\* has it there, unless it is refused, or was not let in for want of room.
ToldKept ==
    /\ IsFiniteSet(found["life"])
    /\ \A f, g \in found["life"] : f.id = g.id => f = g
    /\ \A l \in told :
          \/ l \in excluded \/ Refused(MacOf[l])
          \/ \E f \in found["life"] : f.id = l /\ f.mac = MacOf[l]
          \/ Cardinality(found["life"]) >= MaxDevices /\ \A f \in found["life"] : f.id # l

\* Sockets are held from the time they are acquired to the time they are
\* released, unless the release is cancelled.
HeldWhileRunning ==
    \A t \in Tasks : held[t] =>
        \/ task[t] \in {"listen", "settle", "stop", "release"}
        \/ Ended(t) /\ verdict[t] = "leaked"

\* A task has a verdict once it leaves; if it is "ok" its answer is what it has
\* found, if it is "failed" it has found nothing or one device too late.
VerdictsFit ==
    \A t \in Tasks :
        /\ verdict[t] = "none" <=> task[t] \in {"new", "acquire", "listen", "settle"}
        /\ task[t] \in {"new", "acquire"} => found[t] = {}
        /\ verdict[t] = "none" => answer[t] = {}
        /\ verdict[t] = "ok" => answer[t] = found[t]
        /\ verdict[t] = "failed" => found[t] = {} \/ Probing(t)

\* While the race has no outcome nothing is cancelled; it settles only with
\* results, and ends with nothing only after both tasks.
RaceStages ==
    /\ race \in {"wait", "settle"} <=> outcome = "none"
    /\ race = "settle" => results # {}
    /\ outcome = "none" => \A t \in Tasks : ~cancelling[t] /\ verdict[t] \notin {"cancelled", "leaked"}
    /\ outcome = "nothing" \/ race = "done" => AllEnded
    /\ \A r \in results : \E t \in Tasks : Ended(t) /\ r \in answer[t]

DiscoveryInv ==
    /\ DiscoveryTypeOK /\ OnlyOfferable /\ ToldKept /\ HeldWhileRunning /\ VerdictsFit
    /\ RaceStages /\ NothingHidden /\ OfferedOnce
=============================================================================
