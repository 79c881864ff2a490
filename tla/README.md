# 352 Air Legacy Local: a TLA+ model

The repository is a Home Assistant integration (`custom_components/352air_legacy_local`,
"CC" below) that controls 352 air purifiers over the local network, and four
maintenance tools. These modules model the parts of it whose correctness
depends on the order of events: tasks of one asyncio loop that interleave at
every `await`, UDP datagrams that are lost, late, duplicated or answered at the
wrong moment, timers, cancellation and shutdown.

## The system

| Part | Code | State it keeps | Operations |
|---|---|---|---|
| Shared UDP endpoint | `CC/udp.py` | registry of endpoints, reference count, callbacks, loop lock | acquire, release, dispatch |
| Local device client | `CC/transport.py` | started/closed, command queue, worker task, pending exchanges, last state, identity, duplicate table | `start`, `refresh`, `refresh_if_stale`, `command`, `close`, datagram intake |
| Legacy runtime | `CC/runtime.py`, `CC/__init__.py` | state, availability, last seen, refresh task, listeners, entry data | setup, availability watch, command, unload |
| Life runtime | `CC/local_runtime.py` | reachability, identity, power state, refresh and command tasks | periodic refresh, set power, close |
| Power client (ALCS) | `CC/protocols/alcs_experimental.py` | address, lock, one session per transaction | `read`, `set_power`, `update_host` |
| Schedule cleanup | `CC/schedule.py` | reply queue, sequence | read, one write, two verification reads |
| Legacy discovery | `CC/discovery.py`, `CC/protocols/discovery.py` | results by MAC, endpoint reference | broadcast, targeted and passive discovery |
| CoAP discovery | `CC/local_discovery.py`, `CC/protocols/coap_discovery.py` | identities found | interface scan, targeted scan |
| Config flow | `CC/config_flow.py` | candidates, chosen model, flow steps | user, manual, DHCP, confirm, reconfigure, cleanup |
| Codecs | `CC/protocols/{base,a5a0,f072,m25}.py`, `CC/models.py` | none | encode, decode, convert, validate |
| Entities | `CC/fan.py`, `select`, `switch`, `light`, sensors | none of their own | read the runtime, send commands |
| Schedule manager | `tools/352air_schedule_manager.py` | the schedule it read | discover, show, change, verify |
| Local probe | `tools/352_local_probe.py` | sequence numbers, the original power, a report | scan, power test with restores |
| Life probe | `tools/352_plus_probe.py` | one request, the blocks of its body | list resources, read each block by block |

How they interact. Every client, discovery and schedule cleanup of the process
shares the one socket on UDP 11530: each acquires it with a callback, and
`_dispatch` hands every datagram to every callback. Entities call
`RuntimeData.async_command`, which calls `LocalDeviceClient.command`; the client
calls its listeners back with states and identities, and the runtime stores
both. The Life runtime owns one power client and calls it from its timer's task
and from the switch. The config flow runs discovery and the schedule cleanup
before an entry exists. The tools run on their own, with their own sockets.
Nothing but the entry's data survives a restart.

What is hard:

- **Interleaving.** Asyncio tasks interleave only at `await`, but every lock,
  sleep, wait and socket creation is one; a task may be cancelled at each.
- **Datagrams.** Replies are matched by 16-bit sequence numbers or, for
  broadcasts, only by their content; writes can take effect long after the
  request was given up.
- **Timers.** An answer and its timeout may fall into one loop iteration.
- **Shutdown.** `close()` may arrive between any two steps of callers, worker,
  exchanges and binds.
- **Shared resources.** The reference-counted socket outlives its creator.

What makes each part correct: one socket, open exactly while somebody holds it
(endpoint); every call returns, in order, with a state that confirms it
(client); nothing happens after close (client, runtimes); the power shown is the
device's, or a write went unconfirmed and that was said (Life); silence becomes
unavailability within a bounded time (legacy runtime); an emptied schedule is
reported only if it is empty (cleanup); one entry per device (config flow); what
a command asks for is what the device does and the entities show (codecs,
entities, intake); a device that a test switched is put back, or the report says
that it was not (local probe); a body said to be complete is one representation,
as far as the device tags them (Life probe).

## Modules

| Module | Models | How |
|---|---|---|
| `UdpEndpoint` | `udp.py` | one consumer per callback; `lock` and `waiters` are the loop's `asyncio.Lock`; every locked section without an `await` is one step; the bind is the one `await` made with the lock held |
| `UdpEndpointProofs` | | type invariant, reference count, open sockets, single socket; and for `Schedules`, `ReportTruthful`, `SuccessWasTrue` |
| `DeviceClient` | `transport.py` | a step is the code between two awaits of one task; callers, the worker, closers and the receive callback are the actors; `exchange[p]` is the `_send_for_state` of task `p` with its future and its place in `_pending` |
| `CommandService` | promise of `command()` | abstract: a line of callers, the callers being served, their answers, sealed by close |
| `ClientRefinement` | | maps `DeviceClient` to `CommandService`: the flattened queue is the line; what the mapping of a step needs |
| `DeviceClientProofs` | | type invariant, `NoOrphanWaiter`, `OneSubscription`, `SilentAfterClose`, `SuccessIsConfirmed`, and the refinement |
| `LifePower` | `local_runtime.py` and `alcs_experimental.py` composed with the purifier and the network | `line` is the power client's lock (its head holds it), `tx` the transaction under it, `write[c]` the datagram of caller `c`'s write, `life` and `poll` the runtime |
| `LifePowerProofs` | | `AmbiguityReported`, `ShownUnlessUnconfirmed`, `CloseQuiet` |
| `LegacyRuntime` | `runtime.py`, `__init__.py`, and what `transport.py` learns from a datagram | time in ticks; `stage` is where setup or unload stands, `entry` what survives a restart, `refresh` the task of the watch |
| `LegacyRuntimeProofs` | | type invariant, `SilenceNoticed`, `AskedAgain`, `IdentitySaved`, `NothingLeftBehind`; and for `DeviceView`, `ObeyedIsShown`, `TakesAllButRepeats`, `PercentagesAgree` |
| `Schedules` | `schedule.py`, and a change in `tools/352air_schedule_manager.py` | the two programs, the device and the datagrams in flight; `stage[u]` is the read or the sleep where program `u` stands |
| `ManagerSession` | `tools/352air_schedule_manager.py` | `stage` is the prompt, the read or the pause where the program stands, `op` the operation, `recent`, `old` and `writes` the datagrams on their way |
| `ManagerSessionProofs` | | `OthersKept`, `ConfirmedIsTrue`, with one delayed reply |
| `Discovery` | `local_discovery.py` with `discovery.py` and the replies of `protocols/coap_discovery.py` | one discovery: two tasks, `task[t]` where each stands, and the race that waits for them |
| `ConfigFlow` | `config_flow.py` | `stage[f]` is the form or the `await` where flow `f` stands; `entries` are the configured devices |
| `ConfigFlowProofs` | | `EntryKeepsDevice`, `OneFlowPerIdentity`, `EntryKeepsMac`, `MacSharedTwoWays`; and for `Discovery`, `NothingLeftOpen`, `NothingHidden`, `OfferedOnce` |
| `Codecs` | `protocols/f072.py`, `a5a0.py`, `m25.py`, `models.py`, the command tables of `runtime.py` and `transport.py` | operators: commands to frames, reports to states, what confirms a command |
| `Entities` | `fan.py`, `select.py`, `switch.py`, `light.py`, the airflow curves | operators: a call of a service to commands, a state to what is shown |
| `DeviceView` | `_datagram_received` of `transport.py`, composed with `Codecs`, `Entities` and the device | `recent` is the duplicate table, `call` the service call on its way, `registers` the device |
| `PowerProbe` | `tools/352_local_probe.py` | `phase` is where `run` and `test_power` stand, `read` the `read_power` in progress, `writes[d]` the writes still on their way |
| `PowerProbeProofs` | | `PassedMeansRestored`, `LeftMeansReported` |
| `BlockTransfer` | `Client.request` and `Blocks` of `tools/352_plus_probe.py` | one request of a resource: `mid`, `asked`, `sent`, `acked` are the current exchange, `due`, `window`, `left` its time, `parts`, `count`, `signature`, `last` the blocks |
| `BlockTransferProofs` | | `WholeBody`, `BoundedAndContiguous`, `FailsForAReason` |
| `MC*` | | instances for TLC |

Three modules of proofs are about two components each, one of which
works for the other: `ConfigFlowProofs` has the flows and the discovery they run,
`LegacyRuntimeProofs` the runtime and what its entities show, `UdpEndpointProofs`
the socket and the clean-up that borrows it. So that both can be extended there,
the second's definitions have names of their own (`ViewSpec`, `DiscoverySpec`,
`SchedulesSpec`) beside `Spec`.

Operators named in comments as "Mutant" replace the definition that follows
them to show that a property notices the corresponding bug; no specification
uses them.

### Correspondence

*UdpEndpoint.* `registry` is `_ENDPOINTS[loop].get(key)`; `refs` and `callbacks`
are the fields of `SharedUdpEndpoint`; `held[c]` is the object the caller keeps.
`socket` is the operating system's view: `transport.close()` schedules the
closing, so a closed endpoint's port stays taken for a while (`closing`).
`occupied` is another program on 11530.

*DeviceClient.* `pc[c]` names the `await` where a caller stands. `lifecycle` is
the holder of `_lifecycle_lock`; the queue lock needs no variable because no
section under it awaits. Acquiring a lock may yield in the model even when the
real lock is free, so the model has all interleavings of the code and more.
Datagrams arrive with every state, kind and set of exchanges they could answer:
one by sequence number, all by broadcast, or none. `Expire` is the timer of one
attempt; between it and `Retry` or `GiveUp` an answer may still come.

*LifePower.* Anything the power client refuses (bad proof, rejected request,
foreign packet) ends in an `AlcsError` like a timeout: `Fail`. A write datagram
is sent in one step and executed in another, which may come after the
transaction is over. The polls of the setup task and of the timer's task are
one actor, since the timer starts only after setup.

*LegacyRuntime.* The client is reduced to what the runtime sees of it: a refresh
that is answered by any state or fails within `Request` ticks. `elapsed` is the
interval timer, `seen` the age of `last_seen`. `Tick` waits until what is due has
run: the code has no slow step in the loop, so a second of delay is far below a
tick. `unasked` is for a property only: how long the running watch has asked the
device nothing and heard no state. A datagram changes the client's identity and address, calls the listeners
in the code's order and ends the waiting refresh in one step, as the callback
has no `await`. `stray` records the client that a cancelled setup leaves behind.
`Again` is Home Assistant retrying, reloading or restarting.

*Schedules.* A schedule says of each slot whether it is blank and which of a few
settings it has. `first`, `desired` and `checked` are the first read, what is
written and the slots the verification compares: the manager writes all slots
and verifies one, unless it clears all. Datagrams in flight stay in flight, so
loss, delay, reordering and repetition need no actions; a reply in a receiver's
queue counts as in flight, since a repeat of it may follow the draining. `Break`
is every other failure: no socket, a send that fails, a change the tool refuses
to make, cancellation.

*ManagerSession.* One port and one purifier for the whole session: choosing
another device closes and opens the socket, and replies still on their way
reach the new one. Only what a slot is compared by is modelled: whether it is
empty, and of which kind, its times and its enabled bit. A device is `known` with
its credentials, `wrong` (a model chosen by the user for a silent device) or
`unscheduled`. How a scan finds devices is its result.

*Discovery.* A reply is an identity, with or without the MAC; whether the bytes
of a packet make it one is abstracted. `wanted`, `directed` and `excluded` are
the question: the whole network without what is configured, or one address, with
a known MAC or none. `Probing` is the legacy probe of one device, which fails
when nobody replies, while the scan returns what it has. `held[t]` is the task's
reference to the shared endpoint or its CoAP sockets; that acquiring ends is
`WaitersServed` of `UdpEndpoint`. `race` and `collected` are the loop of
`_race_discovery`. `told`, for a property only, are the Life devices that have said
their MAC, whether or not the filters skipped the reply that said it: a skipped
reply leaves what was recorded before it. So a device whose MAC is configured may
be offered from a reply that left it out, whichever of the two came first.

*ConfigFlow.* `unique[f]` is the unique id in the flow's context, `pending[f]`
is `_pending_discovery`, `target[f]` the entry a reconfiguration is for. What a
search returns is what `OfferedOnce` of `Discovery` allows. Home Assistant's part
is in `Create`, `Remove`, `Close`, `Over`, `Outlived`, `InProgress` and `Updated`: an id
that another open flow has aborts, finishing closes the flows with the same id, a
removed entry closes its reconfigurations. The user may close a flow wherever it
stands. Its handler is not cancelled (`orphaned`): what it accepts or shows is
dropped with its flow, but an identity that it finds in an entry updates that entry
(`OrphanDone`). `alone[f]` is for a property only: no other entry had the MAC as `f`
accepted its identity.

*Codecs* and *Entities* have no state. A frame is its command code and its value,
with the bytes the family uses: the child lock, the power and the display have
opposite polarities in two families, and the tables for encoding, decoding and
confirming are three pieces of code that must agree. A report is a record of the
registers that a packet carries. Rounding is Python's where the code uses
`round`, and upwards where the codec adds one half.

*DeviceView.* A call of a service becomes one command, or two in sequence
(turning on with a percentage or a preset). `Attempt` sends the command and the
query that follows it; the device obeys and answers, answers with the old state
and obeys late, or one of the two is lost. `Intake` is the whole of
`_datagram_received` after parsing: prune the table, drop a repeat, remember,
decode, merge, confirm. A report is broadcast, or carries the sequence of the
request (`echoes`), which makes it different bytes. The client confirms a change
to manual mode by the flow or the speed alone: a command whose flow was set
already counts as confirmed though it was lost, and the mode shows later or never.
So `ObeyedIsShown` says two things: a confirmed call shows what was asked for,
except for that mode, and an undisturbed call is confirmed and shows all of it.

*PowerProbe.* A reply counts by its sequence number; 0 stands for those of the
scan, which no read accepts. The two devices are the command line's; the second
runs only if `main` goes on to it. `late` are the devices that executed the
toggle after its read had ended: no tool can know of those. `escaped` says that
an interrupt fell where neither `test_power` nor `run` turns it into a report of
the test.

*BlockTransfer.* The body is a sequence of units of 16 bytes, each with the
representation it belongs to. The device tags (ETag) what it likes: `tagged` are the
representations whose answers carry a tag, and those of the others compare equal,
as `options.get(4)` does. Its content format is the same for all of them. Time is counted
in ticks, of which `Timeout` are the code's 3 seconds: `due` is the time to
`next_send`, `window` that to `end`, and `left` that to the earlier of the client's
180 and the request's 30 seconds, which is any number at first, since earlier
requests have used the client's. A tick does not pass over a transmission that is
due: the program polls its socket five times a second and is not held up for
longer. A datagram that arrives in another order than it
was sent costs one of `Upsets`, as does a device that replaces its
representation or turns to smaller blocks. `Budget` is the packet limit, which
the code names as the reason even when the last packet completed the body.

## Runs

| Run | Instance | Shows |
|---|---|---|
| `Udp` | 3 consumers, 3 endpoint objects, fairness | reference counting, open while held, the lock is always handed on |
| `ClientCommands` | 3 callers of one non-percentage and one percentage write, 2 closers, symmetric | refinement of `CommandService`, no orphaned waiter |
| `ClientLifecycle` | 2 callers of any request, 1 closer, 2 attempts, fairness | confirmed successes, one subscription, silence after close, every call and close returns |
| `LifePower` | 2 switch calls, the poller, 2 addresses, 1 toggle, 1 move, fairness | truthful failures, the shown power, quiet unload, progress |
| `Legacy` | 2 addresses, 2 identities, a tick of 5 seconds: check 6, timeout 24, request 1 | bounded notice of silence, no false alarm, a silent device asked again, what the entry remembers, nothing left behind |
| `Schedules` | 2 slots with one setting, 3 attempts | truthful success of both programs, alone and at once |
| `ManagerSession` | menus and commands, 2 changes of 2 slots, 2 queries per read, 1 reply delayed over a pause | changes keep each other's slots, what is confirmed is in the device |
| `Discovery` | three devices that speak both protocols, their Life replies with or without MAC, at most 2 results, fairness | nothing left open, no reply hidden, nothing offered that is recorded as configured, a device that has said its MAC offered once and with it unless the filters refuse it, every discovery ends |
| `ConfigFlow` | 2 flows, a device with both protocols and schedules, a legacy one without | entries keep device and MAC, one flow per identity, a second entry of a MAC only by a race or by reconfiguring an entry without one |
| `PowerProbe` | 2 devices, one found on and one off, 1 query per read, 1 scan round, fairness | a passed test has restored the device for good, a device left switched is reported, the program ends |
| `BlockTransfer` | representations of 3 and 5 units, blocks of 1 or 2, each tagged or not, at most 4 units, 3 blocks, 4 packets, 2 upsets, a timeout of 1 tick, at most 4 ticks in all | a complete body is one representation or an untagged mixture in place, limits and contiguity, no failure without a reason |
| `DeviceView` | one model of each family, all their services, percentages 0 and 50, one call, one press at the device | an obeyed call is confirmed and shown, percentages agree for all models, reports are shown unless repeated |

Bounds. Callers act once each; three are enough for one command in execution,
one queued and one joining it, and for a waiter behind a binder and another
waiter. Three endpoint objects suffice because a closed one stands for a new one:
one can still be closing while the next is bound. Two attempts show both a retry
and giving up; the code's 2 and 3 add only more of the same. Two states, one of
which confirms, show confirming and non-confirming answers. In `LifePower` each
caller writes once and both directions occur; one toggle and one move may fall
between any two steps. `MaxToggles` and `MaxMoves` are its only artificial
bounds; the initial power and addresses are fixed in `MCLifePower`, since
renaming them maps behaviours to behaviours.

The intervals of `Legacy` are the code's 30 and 120 seconds and a request of at
most 5; `SilenceNoticed` and `AskedAgain` are tight, one tick less is violated. Ages are counted up
to `MaxAge`, beyond everything they are compared with. Two slots show one that a
change names and one it does not; each program runs once, as a second run begins
with nothing of the first but its datagrams, which the first run's own repeated
queries stand for.

`ManagerSession` limits the replies that outlive the next input of the user or
the pause after a write to one (`MaxDelayed`), which is what the two guards of
the program are for: the comparison before the write and the second read-back.
With two such replies, `OthersKept` and `ConfirmedIsTrue` are both violated.
Replies that are late within one series of queries are not limited, and neither
is the delay of a write; a change begun while an earlier write may still come is
excepted by `clean`. `Schedules` has no limit on replies and claims less.
`MaxChanges` is two: the reply delayed in the first change meets the second.

`Discovery` is one discovery: another has its own tasks and shares only the
endpoint. Of three devices a mechanism keeps two, so that one is turned away for
want of room (64 in the code). Two flows show every pair that interferes, since a flow compares itself
with one other at a time; entries and flows may come and go for ever, and nothing
is bounded but the devices.

`PowerProbe` queries once per read and scans once; the code's three add more
chances of the same. Writes and replies may be delayed without bound, so the
second device runs while writes to the first are still on their way.

`BlockTransfer` has the limits of the code (32768 bytes, 128 blocks, 1024
packets) reduced so that each is reached: one representation fits, the other is
one unit too long, and three blocks of one unit are too few for it. A block may
take three times the timeout, 9 seconds in the code and 3 ticks here. What is left
of the client's 180 and the request's 30 seconds begins anywhere from 0 to 4 ticks
(`Total`): it may end a request before its first transmission, within a block at any
point, or not at all before three blocks are read. The proofs are for any `Timeout`
and any `Total` of at least three.

`DeviceView` counts ticks of 0.9 seconds: the duplicate window of 3.0 seconds is
3 whole ticks, and an attempt of a command takes 2, a third of its timeout. That
the window is shorter than two attempts (`WindowAssumption`) is why the answer to
the third attempt is never dropped as a repeat: without the assumption and with
`Window` at 4, `ObeyedIsShown` is violated. `Found` has purifiers that are on in
automatic mode or off in manual mode, `Pressed` what someone at the device or
another controller may leave there, an undocumented mode, a speed of 0 and a flow
of 41 among them. The table of the
code is larger than `MaxRecent`; a small one stands for a table that foreign or
undecodable datagrams fill, since to push entries out is all they do to it.
Datagrams arrive in their tick or never; a device may obey late, but not later
than its last answer. After a speed the model does not have, the fan shows 100 %,
as in the code. A percentage for a fan that is off is only confirmed: the device
stays off. `PercentagesAgree` goes through all percentages and all models at
the initial states; it needs no behaviour.

Deadlock is not checked where callers act once and then stop; that nothing waits
for ever is what `WaitersServed`, `CallsReturn`, `CloseReturns`,
`EverythingEnds`, `RaceEnds` and `ProbeEnds` say. The schedule programs stop when
they have ended, after a bounded number of queries each with its deadline. A block
transfer ends when it has a status, and a `DeviceView` is over with its last call. `Legacy`
and `ConfigFlow` never stop, and their deadlocks are checked.

Fairness. Only what the event loop does by itself is fair: a ready task runs, a
timer fires, a bind or a sleep ends, a pending cancellation is delivered, the
refresh timer starts polls, a deadline of a discovery
fires, the local probe takes its next step (its loops are bounded by the clock).
Elsewhere (`Legacy`, `Schedules`, `ManagerSession`, `DeviceView`, `BlockTransfer`,
`ConfigFlow`) no fairness is stated. That a device answers, a datagram arrives, a caller
calls or somebody closes is never assumed.

## Proofs

For all values of the constants (under the `ASSUME`s of the modules, and one more
hypothesis for `ManagerSession`). Each inductive invariant stands at the end of
the module it is about, in parts that are named for what they say, and TLC
checked it on the instance of that module's run before it was proved.

The assumptions say that model values are distinct and bounds are numbers. Four
say more: an interval between two checks is at most the timeout
(`RuntimeAssumption`, 30 and 120 seconds), the block sizes divide one another
(`SizesAssumption`, they are powers of two), a block has no more time than a request
(`TimeAssumption`, 9 and 30 seconds), and the window of duplicates is shorter
than two attempts (`WindowAssumption`, 3.0 and 3.6 seconds). `NoneAssumption` says
that `None` is no value: without it the logic, unlike TLC, lets it be a number.

- `UdpEndpointProofs`: `TypeCorrect`, `ReferenceCount`, `SocketStaysOpen`,
  `SharedSocket`. The invariant is `IndInv`: the four properties need each
  other, and `LockBookkeeping` ties the binder, the registry and the socket
  together (without it a bind could finish over a registered endpoint).
- `DeviceClientProofs`: `TypeCorrect`, `NoCallerLeftBehind`, `BindsOnce`,
  `ClosedIsSilent`, `SuccessTrue`, `CommandIsService`. `NoOrphanWaiter` becomes
  inductive with `RequestPlaces` (who may wait at all) and `ClosedQueue` (only
  close cancels the worker, and after close the queue is non-empty only until the
  drain): `QueueInv`. `LifecycleInv` adds `Binders` (who binds holds the lifecycle
  lock of an open client) and `HeldEndpoint`; that nothing is sent after close
  follows from it step by step. `SuccessInv` adds what an exchange is for
  (`ExchangeOwners`), what its answer confirms (`AnswersConfirm`) and for whom the
  worker may execute a command (`WaitersFit`). It also needs `SuccessIsFinal`: a
  caller that was told of a success and still waited could change its request.
- The refinement, `CommandIsService`, is in the same module. `ServiceInv` says
  besides that an entry has a caller, and several only for a percentage write
  (`EntriesShared`), that during an exchange the worker's callers are those that
  close would fail (`ActiveServed`), and that only a call that is over has an
  outcome (`Undecided`). A call is `Ask`; a call that ends before it is queued is
  `Refuse`; appending to the queue or joining its last entry is `Accept`; fetching
  an entry is `Serve` or, if its command cannot be sent, `Drop`; the end of an
  exchange is `Complete`; the two sections of close are `Seal` and `Dismiss`;
  everything else is no step of the service. That the flattened queue moves like
  a line rests on three lemmas on `FlattenSeq` (`FlattenAppend`, `FlattenExtend`,
  `FlattenHead`). They are inductions over the queue, done with `Least`: where
  a property of naturals fails, it fails first somewhere.
- `LifePowerProofs`: `AmbiguousOutcome`, `ShownPower`, `QuietClose`, from
  `IndInv`. The power client's lock is a line of callers without repetition, so
  that its head alone holds the transaction; the lemmas on lines say what
  appending, removing the head and removing anyone do to it. The theorems are
  about `Spec` from any initial power and addresses; the run's specification adds
  fairness and fixes those.
- `LegacyRuntimeProofs`: `TypeCorrect`, `SilenceIsNoticed`,
  `DeviceIsAskedAgain`, `IdentityIsSaved`, `NothingIsLeftBehind`, for all
  intervals with `Check <= Timeout`. The clock bound needs `SilenceBounded`, which
  says for each state of the refresh task how old the last state can be, and that
  depends on `RunningWatched` (no runtime without its timer) and `RefreshOwned` (no
  refresh without a runtime). `AskedInTime` does the same for the time without a
  query: the check that finds the device heard too recently leaves it to the next.
- `ConfigFlowProofs`: `EntriesKeepTheirDevice`, `NoIdentityTwice`,
  `EntriesKeepTheirMac`, `SecondEntryTwoWays`, for any number of flows and devices.
  `UniqueIds` and `Places` carry the argument: who confirms an identity holds its
  unique id alone, and confirms either that of the entry it changes or one that
  has no entry. They need `FormsKnow`, `NewFlows` and `IdleForgets`, which tie a
  flow's stage to what it remembers. `AcceptedAlone` is what the check of the MAC is
  worth later on: a flow for a new entry accepted its identity while no other entry
  had its MAC. Every action ends a flow, shows a form or accepts an identity, and
  each of the three has one lemma.
- `UdpEndpointProofs`, second part: `TruthfulReport`, `TrueSuccess`, of `Schedules`. What is on its way to a
  program is a schedule the device had since the program began (`RepliesPast`). For
  a program without a rival these are the schedule as it was and as it is, and
  what it asked for is the only other one the device can get (`AloneTrue`).
  `PlanShape` ties the slots it does not verify to those it read first.
- `ManagerSessionProofs`: `OtherSlotsKept`, `ReportConfirmed`, both for
  `MaxDelayed <= 1`: at most one reply outlives a pause of the program. The
  hypothesis is needed, since TLC violates both properties with two such replies;
  it is what two reads before a write and two after it are good for. The
  invariant is a disjunction at each of the two confirmations (`SeenTrue`,
  `OnceTrue`): it is true of the device, or it was the one late reply and there
  will be no other (`NoLate`), so that the next read cannot be late.
- `PowerProbeProofs`: `PassedRestored`, `LeftReported`, for one device or two and
  any number of queries and scan rounds. There is one toggle, and until it is
  executed the device and every reply are as found (`OneToggle`, `StatesBefore`), so
  that only an executed toggle can be confirmed (`ToggleTimely`); and no reply that
  a restore's read accepts can come from the toggle, since sequence numbers are
  used once (`RestoreFresh`, `SequencesUsed`).

- `ConfigFlowProofs`, second part: `NothingIsLeftOpen`, `NothingIsHidden`,
  `OffersAreNew`, of `Discovery`, for any devices, from `DiscoveryInv`. A task holds
  its sockets only from acquiring them to releasing them, on every way out
  (`HeldWhileRunning`); its verdict says what it may have found (`VerdictsFit`); and
  the race cancels nothing before it has an outcome, and has the outcome "nothing"
  only after both tasks (`RaceStages`). What each mechanism finds is what it may
  offer (`OnlyOfferable`), so that joining the two can only drop. `ToldKept` is the
  memory of MACs: a device that has said its MAC is recorded with it, unless the
  filters refuse it or there was no room for the device.
- `BlockTransferProofs`: `OneRepresentation`, `AsksForWhatFollows`,
  `NoFailureWithoutReason`, for any representations, tags, block sizes, limits and
  times and any number of upsets. The first two follow from `AllGenuine` (every
  answer on its way is an error, a whole representation or a block of one, whatever
  the device has turned to since) and `Assembled` (each unit that has been read is in
  its place, of a representation with the tag that was seen first: of that one alone
  if it has a tag, of any untagged one if not). The third has two halves. A timeout
  needs, whatever upset the transfer, that every transmission of the current request
  is on its way, answered or lost (`Accounted`), that an answer to it is never taken
  for a repeat of the last block (`Current`), and that only the request's own end
  cuts a block before both transmissions have had their time (`Timed`). That nothing
  is given up as inconsistent needs to know where everything is while nothing is
  upset (`Steady`): the m-th request asks for the m-th block (`InStep`) and datagrams
  are in the order of their requests (`InOrder`), so that an answer that comes is
  that of the current request or a repeat of the one before.
- `LegacyRuntimeProofs`, second part: `ObeyedShown`, `TakesAll`, `Agreement`, of
  `DeviceView` with `Codecs` and `Entities`, for all models, settings and
  percentages and any window and table. First the facts about the codecs: what a
  frame does to the registers decodes, per family, to what confirms its command
  and to what the entities show (`StepObeyed`, `StepShown`), and percentages, speeds
  and flows map to each other and back. Then the invariant `ViewInv`, theorem
  `ViewInvariant`: a duplicate that counts is a report that was shown (`RecentTaken`);
  a step has the frame of its command (`StepEncoded`); undisturbed, the device has
  done what was transmitted (`DeviceObeyed`); nothing taken since the first
  transmission confirms a step that still runs (`NoneMissed`). The answer to the
  last transmission therefore confirms, and could be dropped only as a repeat of one
  taken before the first, which `WindowAssumption` puts out of the window
  (`LastAnswer`).

Every safety invariant and every action property that a run checks has a theorem.
Only model-checked is all liveness (`WaitersServed`, `CallsReturn`, `CloseReturns`,
`EverythingEnds`, `EventuallyFresh`, `RaceEnds`, `ProbeEnds`), since the prover has no rules for
fairness.

What came out only in proving: `SuccessInv` and `PlanShape` held in every run and
were not inductive; the mapping of `ClientRefinement` had a `CASE` with two guards
true at once, where TLC takes the first and the logic leaves the choice open (its
cases are exclusive now), and so had `WireValue` of `Codecs`, where a six-speed
model's lock and power were also among the values that all other families share;
and the callers that `CloseDrain` fails were written
without the parentheses that make the union mean the same to both tools.
`ObeyedIsShown` said at first that a confirmed call shows all that was asked for,
which held in the run only because the device was never found in a mode that makes
the difference.

## Disagreements between the code and its words

The models do what the code does, in these places too. No property claims the
opposite, and none is needed to see them:

- `config_flow.py:159` says "Do not create a second protocol entry for an already
  configured MAC", but the check is made when an identity is accepted and not
  again when the entry is created (`config_flow.py:521`). A device that speaks
  both protocols, found by its legacy identity in one flow and by its Life
  identity in another (DHCP and a form, say), gets two entries if both are
  accepted before either is confirmed: the two unique ids differ. A second way
  needs no race: reconfiguring a Life entry without MAC by a reply that has one
  (`config_flow.py:420`) compares that MAC with no other entry.
  `MacSharedTwoWays` says that there is no third.
- A Life device that is configured by its MAC, through its legacy entry, is meant
  to be left out of a discovery (`local_discovery.py:148`), but its replies without
  MAC are let in, and a reply with the MAC is skipped without removing what was
  recorded. It is offered as an identity without MAC, which the check of the config
  flow passes too. `OfferedOnce` makes this its exception.
- `352_plus_probe.py:376` promises "representation consistency checks", but
  answers without ETag compare equal: a body that the device replaced between two
  blocks, and does not tag, is reported complete though it is a mixture. `WholeBody`
  says that no other mixture is.
- The ephemeral port that `udp.py:91` falls back to when 11530 is occupied is
  also taken when the integration's own closing socket still occupies it.
- A `release` cancelled while it waits for the lock never gives its reference
  back (`ReleaseCancelled`), so that "the final consumer" (`udp.py:117`) may not
  close the socket.
- An answer to a repeated query of an earlier read may serve a later one, so the
  two verifying reads of a cleanup (`schedule.py:71`, `160`) need not both be new.
  What the cleanup then reports is still true (`ReportTruthful`), unless another
  controller wrote. Of the schedule manager's two, one delayed reply is caught
  and two are not.

## Plan

Done: the shared endpoint, the client with its abstract service, Life power,
the legacy runtime, the schedule programs and the manager's sessions, discovery, the config flow, the
codecs and entities with the intake of datagrams, the two probes.

Proofs: none is left but those of the liveness properties.

Left of the code: how the schedule manager scans a network, the session of
the Life probe around its requests, the header capture.

## Not modelled

Byte layouts, CRCs and cryptography (a packet is either what it claims or
refused), fields that nothing depends on (volumes, climate, remaining minutes)
and the sensors that pass one field through, the manager's input formats and the texts of
forms, which resources the Life probe asks for and how it classifies replies,
packet capture and redaction in the tools, logging, diagnostics and their
redaction, translations and brand files, Home Assistant itself beyond the calls
it makes.
