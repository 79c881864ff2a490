--------------------------- MODULE LegacyRuntime ---------------------------
(***************************************************************************)
(* The Home Assistant side of one device that speaks the legacy protocol:  *)
(* set-up and unload of its entry (__init__.py, async_create_runtime,      *)
(* RuntimeData.async_close), the availability watch against a clock, and   *)
(* what the entry remembers of the address and the header identity the     *)
(* client learns from datagrams (transport.py, _datagram_received).        *)
(*                                                                         *)
(* The client itself is the one of DeviceClient; here it is a refresh that *)
(* takes at most Request ticks and is answered or fails.  Time passes in   *)
(* ticks; what is due happens before the next one.                         *)
(***************************************************************************)
EXTENDS Naturals

CONSTANTS Hosts,       \* addresses datagrams of the device come from
          Identities,  \* company, wire type and auth of a datagram's header
          Check,       \* AVAILABILITY_CHECK_SECONDS, in ticks
          Timeout,     \* AVAILABILITY_TIMEOUT_SECONDS, in ticks
          Request      \* the client's timeout, in ticks

ASSUME RuntimeAssumption ==
    /\ Check \in Nat \ {0} /\ Timeout \in Nat /\ Request \in Nat
    /\ Check <= Timeout

VARIABLES
    stage,      \* where set-up or unload stands
    entry,      \* host and identity in entry.data: all that outlives a restart
    \* LocalDeviceClient
    bound,      \* started and not closed
    client,     \* host and _identity
    stray,      \* a client that was started and will never be closed
    \* RuntimeData
    listening,  \* the client's listeners are attached
    watching,   \* the interval timer is set
    elapsed,    \* ticks since the timer fired
    refresh,    \* _refresh_task
    waited,     \* ticks the refresh under way has waited
    available,  \* available
    seen,       \* ticks since last_seen
    unasked     \* ticks since a state came or a refresh was under way

lifeVars == <<stage, bound, stray, listening, watching>>
dataVars == <<entry, client>>
watchVars == <<elapsed, refresh, waited, available, seen, unasked>>
vars == <<lifeVars, dataVars, watchVars>>

Learned == [host : Hosts, identity : Identities]

\* Ages beyond the longest that matters are not told apart.
MaxAge == Timeout + Check + Request + 1
Older(n) == IF n < MaxAge THEN n + 1 ELSE n

TypeOK ==
    /\ stage \in {"start", "query", "create", "forward", "open", "unload",
                  "stop", "close", "ended"}
    /\ entry \in Learned /\ client \in Learned
    /\ bound \in BOOLEAN /\ stray \in BOOLEAN
    /\ listening \in BOOLEAN /\ watching \in BOOLEAN
    /\ elapsed \in 0..Check
    /\ refresh \in {"none", "new", "query"}
    /\ waited \in 0..Request
    /\ available \in BOOLEAN
    /\ seen \in 0..MaxAge /\ unasked \in 0..MaxAge

Init ==
    /\ stage = "start"
    /\ entry \in Learned /\ client = entry
    /\ bound = FALSE /\ stray = FALSE
    /\ listening = FALSE /\ watching = FALSE
    /\ elapsed = 0 /\ refresh = "none" /\ waited = 0
    /\ available = FALSE /\ seen = 0 /\ unasked = 0

-----------------------------------------------------------------------------
(* Set-up                                                                  *)

Start ==
    /\ stage = "start"
    /\ \/ bound' = TRUE /\ stage' = "query" /\ waited' = 0
       \/ stage' = "close" /\ UNCHANGED <<bound, waited>>  \* no socket
    /\ UNCHANGED <<stray, listening, watching, dataVars, elapsed, refresh,
                   available, seen, unasked>>

\* The first refresh times out or cannot be sent.
QueryFails ==
    /\ stage = "query"
    /\ stage' = "close"
    /\ UNCHANGED <<bound, stray, listening, watching, dataVars, watchVars>>

\* `except asyncio.CancelledError: raise` leaves the client as it is.
SetupCancelled ==
    /\ stage \in {"start", "query", "create"}
    /\ stage' = "ended"
    /\ stray' = (stray \/ bound)
    /\ bound' = FALSE
    /\ UNCHANGED <<listening, watching, dataVars, watchVars>>

\* Mutant: what was learned before the listeners were attached is not saved.
CreateUnsaved ==
    /\ stage = "create"
    /\ stage' = "forward"
    /\ listening' = TRUE /\ watching' = TRUE
    /\ available' = TRUE /\ seen' = 0 /\ unasked' = 0
    /\ elapsed' = 0
    /\ UNCHANGED <<bound, stray, entry, client, refresh, waited>>

\* Mutant: the watch is not started.
CreateUnwatched ==
    /\ stage = "create"
    /\ stage' = "forward"
    /\ listening' = TRUE
    /\ available' = TRUE /\ seen' = 0 /\ unasked' = 0
    /\ entry' = client
    /\ UNCHANGED <<watching, elapsed, bound, stray, client, refresh, waited>>

\* From the answered refresh to the returned runtime.
Create ==
    /\ stage = "create"
    /\ stage' = "forward"
    /\ listening' = TRUE /\ watching' = TRUE
    /\ available' = TRUE /\ seen' = 0 /\ unasked' = 0
    /\ elapsed' = 0
    /\ entry' = client
    /\ UNCHANGED <<bound, stray, client, refresh, waited>>

-----------------------------------------------------------------------------
(* Unload: async_close, up to the cancelled refresh task, then the client  *)

BeginClose ==
    /\ stage' = "stop"
    /\ listening' = FALSE /\ watching' = FALSE
    /\ UNCHANGED <<bound, stray, dataVars, watchVars>>

\* Mutant: a failed set-up of the platforms leaves the runtime running.
ForwardedLeft ==
    /\ stage = "forward"
    /\ stage' \in {"open", "ended"}
    /\ UNCHANGED <<bound, stray, listening, watching, dataVars, watchVars>>

\* The platforms are set up, or one fails or is cancelled.
Forwarded ==
    /\ stage = "forward"
    /\ \/ /\ stage' = "open"
          /\ UNCHANGED <<bound, stray, listening, watching, dataVars, watchVars>>
       \/ BeginClose

UnloadCall ==
    /\ stage = "open"
    /\ stage' = "unload"
    /\ UNCHANGED <<bound, stray, listening, watching, dataVars, watchVars>>

\* The platforms are unloaded, or one refuses and the entry stays.
Unloaded ==
    /\ stage = "unload"
    /\ \/ /\ stage' = "open"
          /\ UNCHANGED <<bound, stray, listening, watching, dataVars, watchVars>>
       \/ BeginClose

\* The refresh task has ended with its cancellation.
RefreshStopped ==
    /\ stage = "stop"
    /\ refresh' = "none"
    /\ stage' = "close"
    /\ UNCHANGED <<bound, stray, listening, watching, dataVars, elapsed, waited,
                   available, seen, unasked>>

ClientClosed ==
    /\ stage = "close"
    /\ bound' = FALSE
    /\ stage' = "ended"
    /\ UNCHANGED <<stray, listening, watching, dataVars, watchVars>>

\* The process is killed; only the entry's data is left.
Crash ==
    /\ stage' = "ended"
    /\ bound' = FALSE /\ stray' = FALSE
    /\ listening' = FALSE /\ watching' = FALSE
    /\ refresh' = "none"
    /\ UNCHANGED <<dataVars, elapsed, waited, available, seen, unasked>>

\* Home Assistant retries the entry, reloads it or has been restarted.
Again ==
    /\ stage = "ended"
    /\ stage' = "start"
    /\ client' = entry
    /\ available' = FALSE /\ seen' = 0 /\ unasked' = 0
    /\ UNCHANGED <<bound, stray, listening, watching, entry, elapsed, refresh,
                   waited>>

-----------------------------------------------------------------------------
(* Datagrams                                                               *)

\* What an answer ends: the first query, or the refresh of the watch.
Answered ==
    /\ stage' = IF stage = "query" THEN "create" ELSE stage
    /\ refresh' = IF refresh = "query" THEN "none" ELSE refresh

Unanswered == UNCHANGED <<stage, refresh>>

\* async_update_entry by the identity listener, which runs before the address
\* is stored, and by the state listener, which runs after.
Remembered(learned, hasState) ==
    entry' = CASE listening /\ hasState -> learned
               [] listening /\ ~hasState /\ learned.identity # client.identity
                    -> [learned EXCEPT !.host = client.host]
               [] OTHER -> entry

\* A valid datagram of this device, with or without a state.
Receive(learned, hasState) ==
    /\ bound
    /\ client' = learned
    /\ Remembered(learned, hasState)
    /\ \/ Unanswered
       \/ hasState /\ Answered
    /\ IF listening /\ hasState
       THEN available' = TRUE /\ seen' = 0 /\ unasked' = 0
       ELSE UNCHANGED <<available, seen, unasked>>
    /\ UNCHANGED <<bound, stray, listening, watching, elapsed, waited>>

-----------------------------------------------------------------------------
(* The availability watch                                                  *)

TimerDue == watching /\ elapsed = Check

\* Mutant: a device that is shown unavailable is given up.
CheckStalenessOfAvailable ==
    /\ TimerDue
    /\ elapsed' = 0
    /\ refresh' = IF refresh = "none" /\ available /\ seen >= Check THEN "new" ELSE refresh
    /\ UNCHANGED <<lifeVars, dataVars, waited, available, seen, unasked>>

\* _async_check_staleness
CheckStaleness ==
    /\ TimerDue
    /\ elapsed' = 0
    /\ refresh' = IF refresh = "none" /\ seen >= Check THEN "new" ELSE refresh
    /\ UNCHANGED <<lifeVars, dataVars, waited, available, seen, unasked>>

\* The task runs: refresh_if_stale looks once more before it queries.
RefreshBegins ==
    /\ refresh = "new" /\ stage # "stop"
    /\ refresh' = IF seen < Check THEN "none" ELSE "query"
    /\ unasked' = IF seen < Check THEN unasked ELSE 0
    /\ waited' = 0
    /\ UNCHANGED <<lifeVars, dataVars, elapsed, available, seen>>

\* No answer in time, or the query could not be sent.
RefreshFails ==
    /\ refresh = "query" /\ stage # "stop"
    /\ refresh' = "none"
    /\ available' = (available /\ seen < Timeout)
    /\ UNCHANGED <<lifeVars, dataVars, elapsed, waited, seen, unasked>>

Waiting == stage = "query" \/ refresh = "query"

\* Time does not pass over what is due: the loop has nothing slow to run.
Tick ==
    /\ stage # "create" /\ ~TimerDue /\ refresh # "new"
    /\ Waiting => waited < Request
    /\ waited' = IF Waiting THEN waited + 1 ELSE waited
    /\ elapsed' = IF watching THEN elapsed + 1 ELSE elapsed
    /\ seen' = Older(seen)
    /\ unasked' = IF watching /\ refresh = "none" THEN Older(unasked) ELSE unasked
    /\ UNCHANGED <<lifeVars, dataVars, refresh, available>>

-----------------------------------------------------------------------------
(* The system                                                              *)

Setup == Start \/ QueryFails \/ Create \/ Forwarded

Unload == Unloaded \/ RefreshStopped \/ ClientClosed

Watch == CheckStaleness \/ RefreshBegins \/ RefreshFails

Next ==
    \/ Setup \/ SetupCancelled \/ Crash \/ Again
    \/ UnloadCall \/ Unload
    \/ \E learned \in Learned, hasState \in BOOLEAN : Receive(learned, hasState)
    \/ Watch
    \/ Tick

Spec == Init /\ [][Next]_vars

-----------------------------------------------------------------------------
(* Properties                                                              *)

Running == stage \in {"forward", "open", "unload"}

\* A silent device does not stay available: with no state for the timeout, one
\* check interval and one request, the failed refreshes have said so
\* (runtime.py:106-128).  And only a device that has been silent for the whole
\* timeout is shown unavailable, though states may come while a refresh fails.
SilenceNoticed ==
    Running => IF available THEN seen < Timeout + Check + Request ELSE seen >= Timeout

\* A device that is not heard is asked again before two check intervals are over,
\* however long it has been silent, whatever the refreshes before have come to
\* and whenever its states came in between: nothing else would find it again if it
\* does not broadcast (runtime.py:106-122, transport.py:233-246).
AskedAgain == Running => unasked < 2 * Check

\* The entry always has the identity in use, so that a restart begins with it,
\* whether it was learned before or after the listeners were attached.
IdentitySaved == Running => entry.identity = client.identity

\* Unless its set-up was cancelled, an entry that is not loaded leaves nothing
\* behind: no client, no listener, no timer, no refresh.
NothingLeftBehind ==
    stage = "ended" => /\ ~bound /\ ~listening /\ ~watching
                       /\ refresh = "none"

-----------------------------------------------------------------------------
(* Inductive invariant, in parts                                           *)

\* A runtime that is set up has its listeners and its timer.
RunningWatched ==
    /\ Running => listening /\ watching
    /\ listening \/ watching => Running

\* A refresh runs only beside a runtime; async_close waits for its end.
RefreshOwned == refresh # "none" => Running \/ stage = "stop"

\* Where a started client can be.
BoundStages ==
    /\ bound => stage \notin {"start", "ended"}
    /\ Running \/ stage \in {"query", "create"} => bound

\* How long a device can have been silent without anybody having noticed.
SilenceBounded ==
    Running /\ available =>
        /\ refresh = "none" => seen < Timeout + elapsed
        /\ refresh = "new" => seen < Timeout + Check
        /\ refresh = "query" => seen < Timeout + Check + waited

\* Only a silent device is shown unavailable.
UnavailableSilent == Running /\ ~available => seen >= Timeout

\* The timer that finds a device heard less than a check interval ago finds it
\* silent the next time.
AskedInTime ==
    Running =>
        /\ unasked <= seen
        /\ refresh = "none" => unasked < Check + elapsed
        /\ refresh = "new" => unasked < 2 * Check /\ elapsed = 0
        /\ refresh = "query" => unasked = 0

IndInv ==
    TypeOK /\ RunningWatched /\ RefreshOwned /\ BoundStages /\ IdentitySaved
           /\ SilenceBounded /\ UnavailableSilent /\ AskedInTime
=============================================================================
