------------------------ MODULE LegacyRuntimeProofs ------------------------
(***************************************************************************)
(* Theorems about LegacyRuntime, for any addresses, identities and times:  *)
(* above all that the silence of a device is noticed within the timeout,   *)
(* one check interval and one request.  Each part of the invariant has a   *)
(* lemma with one step per action.                                         *)
(*                                                                         *)
(* The second part is about DeviceView, the view the runtime's entities    *)
(* give of a device: what a command's path through codec, device, filter   *)
(* of duplicates and state shows in the end, for every model, percentage   *)
(* and window.  Its steps are facts about the codecs and the curves first, *)
(* and then an invariant, one lemma for each part.                         *)
(***************************************************************************)
EXTENDS LegacyRuntime, DeviceView, SequenceTheorems, WellFoundedInduction, TLAPS

LEMMA InitInv == Init => IndInv
<1> SUFFICES ASSUME Init PROVE IndInv
    OBVIOUS
<1> USE RuntimeAssumption DEF Init
<1>1. /\ elapsed \in 0..Check /\ waited \in 0..Request
      /\ seen \in 0..MaxAge /\ unasked \in 0..MaxAge
      BY DEF MaxAge
<1>2. TypeOK
      BY <1>1 DEF TypeOK
<1>3. RunningWatched
      BY DEF RunningWatched, Running
<1>4. RefreshOwned
      BY DEF RefreshOwned
<1>5. BoundStages
      BY DEF BoundStages, Running
<1>6. IdentitySaved
      BY DEF IdentitySaved
<1>7. SilenceBounded
      BY DEF SilenceBounded, Running
<1>8. UnavailableSilent
      BY DEF UnavailableSilent, Running
<1>9. AskedInTime
      BY DEF AskedInTime, Running
<1>. QED
      BY <1>2, <1>3, <1>4, <1>5, <1>6, <1>7, <1>8, <1>9 DEF IndInv

LEMMA TypeStep == IndInv /\ [Next]_vars => TypeOK'
<1> SUFFICES ASSUME IndInv, [Next]_vars PROVE TypeOK'
    OBVIOUS
<1> USE RuntimeAssumption
    DEF IndInv, lifeVars, dataVars, watchVars, TypeOK, MaxAge
<1>1. CASE Start
      <2>1. waited' \in 0..Request
            BY <1>1 DEF Start
      <2>2. bound' \in BOOLEAN
            BY <1>1 DEF Start
      <2>3. /\ stage' \in {"query", "close"}
            /\ UNCHANGED <<dataVars, stray, listening, watching, available,
                           elapsed, refresh, seen, unasked>>
            BY <1>1 DEF Start
      <2>. QED
            BY <2>1, <2>2, <2>3
<1>2. CASE QueryFails
      BY <1>2 DEF QueryFails
<1>3. CASE SetupCancelled
      BY <1>3 DEF SetupCancelled
<1>4. CASE Create
      BY <1>4 DEF Create
<1>5. CASE Forwarded
      BY <1>5 DEF Forwarded, BeginClose
<1>6. CASE UnloadCall
      BY <1>6 DEF UnloadCall
<1>7. CASE Unloaded
      BY <1>7 DEF Unloaded, BeginClose
<1>8. CASE RefreshStopped
      BY <1>8 DEF RefreshStopped
<1>9. CASE ClientClosed
      BY <1>9 DEF ClientClosed
<1>10. CASE Crash
      BY <1>10 DEF Crash
<1>11. CASE Again
      <2>1. /\ seen' \in 0..MaxAge /\ unasked' \in 0..MaxAge
            /\ stage' = "start" /\ client' = entry
            BY <1>11 DEF Again
      <2>2. available' \in BOOLEAN
            BY <1>11 DEF Again
      <2>3. UNCHANGED <<entry, bound, stray, listening, watching, elapsed,
                        refresh, waited>>
            BY <1>11 DEF Again
      <2>. QED
            BY <2>1, <2>2, <2>3
<1>12. ASSUME NEW learned \in Learned, NEW hasState \in BOOLEAN,
              Receive(learned, hasState)
       PROVE  TypeOK'
      <2>1. client' \in Learned /\ entry' \in Learned
            <3>1. [learned EXCEPT !.host = client.host] \in Learned
                  BY DEF Learned
            <3>. QED
                  BY <3>1, <1>12 DEF Receive, Remembered
      <2>2. available' \in BOOLEAN
            <3>1. available' = TRUE \/ available' = available
                  BY <1>12 DEF Receive
            <3>. QED
                  BY <3>1
      <2>3. seen' \in 0..MaxAge
            <3>1. seen' = 0 \/ seen' = seen
                  BY <1>12 DEF Receive
            <3>. QED
                  BY <3>1
      <2>6. unasked' \in 0..MaxAge
            <3>1. unasked' = 0 \/ unasked' = unasked
                  BY <1>12 DEF Receive
            <3>. QED
                  BY <3>1
      <2>4. stage' \in {stage, "create"} /\ refresh' \in {refresh, "none"}
            BY <1>12 DEF Receive, Answered, Unanswered
      <2>5. UNCHANGED <<bound, stray, listening, watching, elapsed, waited>>
            BY <1>12 DEF Receive
      <2>. QED
            BY <2>1, <2>2, <2>3, <2>4, <2>5, <2>6
<1>13. CASE CheckStaleness
      BY <1>13 DEF CheckStaleness, TimerDue
<1>14. CASE RefreshBegins
      BY <1>14 DEF RefreshBegins
<1>15. CASE RefreshFails
      BY <1>15 DEF RefreshFails
<1>16. CASE Tick
      BY <1>16 DEF Tick, TimerDue, Waiting, Older
<1>17. CASE UNCHANGED vars
      BY <1>17 DEF vars
<1>. QED
      BY <1>1, <1>2, <1>3, <1>4, <1>5, <1>6, <1>7, <1>8, <1>9, <1>10, <1>11, <1>12, <1>13, <1>14, <1>15, <1>16, <1>17
         DEF Next, Setup, Unload, Watch

\* Listeners and timer exist exactly while the runtime is set up.
LEMMA WatchedStep == IndInv /\ [Next]_vars => RunningWatched'
<1> SUFFICES ASSUME IndInv, [Next]_vars PROVE RunningWatched'
    OBVIOUS
<1> USE RuntimeAssumption
    DEF IndInv, lifeVars, dataVars, watchVars, TypeOK, RunningWatched, Running
<1>1. CASE Start
      BY <1>1 DEF Start
<1>2. CASE QueryFails
      BY <1>2 DEF QueryFails
<1>3. CASE SetupCancelled
      BY <1>3 DEF SetupCancelled
<1>4. CASE Create
      BY <1>4 DEF Create
<1>5. CASE Forwarded
      BY <1>5 DEF Forwarded, BeginClose
<1>6. CASE UnloadCall
      BY <1>6 DEF UnloadCall
<1>7. CASE Unloaded
      BY <1>7 DEF Unloaded, BeginClose
<1>8. CASE RefreshStopped
      BY <1>8 DEF RefreshStopped
<1>9. CASE ClientClosed
      BY <1>9 DEF ClientClosed
<1>10. CASE Crash
      BY <1>10 DEF Crash
<1>11. CASE Again
      BY <1>11 DEF Again
<1>12. ASSUME NEW learned \in Learned, NEW hasState \in BOOLEAN,
              Receive(learned, hasState)
       PROVE  RunningWatched'
       BY <1>12 DEF Receive, Remembered, Answered, Unanswered
<1>13. CASE CheckStaleness
      BY <1>13 DEF CheckStaleness, TimerDue
<1>14. CASE RefreshBegins
      BY <1>14 DEF RefreshBegins
<1>15. CASE RefreshFails
      BY <1>15 DEF RefreshFails
<1>16. CASE Tick
      BY <1>16 DEF Tick, TimerDue, Waiting, Older
<1>17. CASE UNCHANGED vars
      BY <1>17 DEF vars
<1>. QED
      BY <1>1, <1>2, <1>3, <1>4, <1>5, <1>6, <1>7, <1>8, <1>9, <1>10, <1>11, <1>12, <1>13, <1>14, <1>15, <1>16, <1>17
         DEF Next, Setup, Unload, Watch

\* A refresh is started by the timer only, and async_close waits for it.
LEMMA OwnedStep == IndInv /\ [Next]_vars => RefreshOwned'
<1> SUFFICES ASSUME IndInv, [Next]_vars PROVE RefreshOwned'
    OBVIOUS
<1> USE RuntimeAssumption
    DEF IndInv, lifeVars, dataVars, watchVars, TypeOK,
        RunningWatched, RefreshOwned, Running
<1>1. CASE Start
      BY <1>1 DEF Start
<1>2. CASE QueryFails
      BY <1>2 DEF QueryFails
<1>3. CASE SetupCancelled
      BY <1>3 DEF SetupCancelled
<1>4. CASE Create
      BY <1>4 DEF Create
<1>5. CASE Forwarded
      BY <1>5 DEF Forwarded, BeginClose
<1>6. CASE UnloadCall
      BY <1>6 DEF UnloadCall
<1>7. CASE Unloaded
      BY <1>7 DEF Unloaded, BeginClose
<1>8. CASE RefreshStopped
      BY <1>8 DEF RefreshStopped
<1>9. CASE ClientClosed
      BY <1>9 DEF ClientClosed
<1>10. CASE Crash
      BY <1>10 DEF Crash
<1>11. CASE Again
      BY <1>11 DEF Again
<1>12. ASSUME NEW learned \in Learned, NEW hasState \in BOOLEAN,
              Receive(learned, hasState)
       PROVE  RefreshOwned'
       BY <1>12 DEF Receive, Remembered, Answered, Unanswered
<1>13. CASE CheckStaleness
      BY <1>13 DEF CheckStaleness, TimerDue
<1>14. CASE RefreshBegins
      BY <1>14 DEF RefreshBegins
<1>15. CASE RefreshFails
      BY <1>15 DEF RefreshFails
<1>16. CASE Tick
      BY <1>16 DEF Tick, TimerDue, Waiting, Older
<1>17. CASE UNCHANGED vars
      BY <1>17 DEF vars
<1>. QED
      BY <1>1, <1>2, <1>3, <1>4, <1>5, <1>6, <1>7, <1>8, <1>9, <1>10, <1>11, <1>12, <1>13, <1>14, <1>15, <1>16, <1>17
         DEF Next, Setup, Unload, Watch

\* The client is closed where set-up and unload end.
LEMMA BoundStep == IndInv /\ [Next]_vars => BoundStages'
<1> SUFFICES ASSUME IndInv, [Next]_vars PROVE BoundStages'
    OBVIOUS
<1> USE RuntimeAssumption
    DEF IndInv, lifeVars, dataVars, watchVars, TypeOK, BoundStages, Running
<1>1. CASE Start
      BY <1>1 DEF Start
<1>2. CASE QueryFails
      BY <1>2 DEF QueryFails
<1>3. CASE SetupCancelled
      BY <1>3 DEF SetupCancelled
<1>4. CASE Create
      <2>1. stage = "create" /\ stage' = "forward" /\ bound' = bound
            BY <1>4 DEF Create
      <2>2. bound
            BY <2>1
      <2>. QED
            BY <2>1, <2>2
<1>5. CASE Forwarded
      BY <1>5 DEF Forwarded, BeginClose
<1>6. CASE UnloadCall
      BY <1>6 DEF UnloadCall
<1>7. CASE Unloaded
      BY <1>7 DEF Unloaded, BeginClose
<1>8. CASE RefreshStopped
      BY <1>8 DEF RefreshStopped
<1>9. CASE ClientClosed
      <2>1. ~bound' /\ stage' = "ended"
            BY <1>9 DEF ClientClosed
      <2>. QED
            BY <2>1
<1>10. CASE Crash
      BY <1>10 DEF Crash
<1>11. CASE Again
      BY <1>11 DEF Again
<1>12. ASSUME NEW learned \in Learned, NEW hasState \in BOOLEAN,
              Receive(learned, hasState)
       PROVE  BoundStages'
       BY <1>12 DEF Receive, Remembered, Answered, Unanswered
<1>13. CASE CheckStaleness
      BY <1>13 DEF CheckStaleness, TimerDue
<1>14. CASE RefreshBegins
      BY <1>14 DEF RefreshBegins
<1>15. CASE RefreshFails
      BY <1>15 DEF RefreshFails
<1>16. CASE Tick
      BY <1>16 DEF Tick, TimerDue, Waiting, Older
<1>17. CASE UNCHANGED vars
      BY <1>17 DEF vars
<1>. QED
      BY <1>1, <1>2, <1>3, <1>4, <1>5, <1>6, <1>7, <1>8, <1>9, <1>10, <1>11, <1>12, <1>13, <1>14, <1>15, <1>16, <1>17
         DEF Next, Setup, Unload, Watch

\* The identity is saved at creation and whenever a listener learns another.
LEMMA SavedStep == IndInv /\ [Next]_vars => IdentitySaved'
<1> SUFFICES ASSUME IndInv, [Next]_vars PROVE IdentitySaved'
    OBVIOUS
<1> USE RuntimeAssumption
    DEF IndInv, lifeVars, dataVars, watchVars, TypeOK,
        RunningWatched, IdentitySaved, Running, Learned
<1>1. CASE Start
      BY <1>1 DEF Start
<1>2. CASE QueryFails
      BY <1>2 DEF QueryFails
<1>3. CASE SetupCancelled
      BY <1>3 DEF SetupCancelled
<1>4. CASE Create
      BY <1>4 DEF Create
<1>5. CASE Forwarded
      BY <1>5 DEF Forwarded, BeginClose
<1>6. CASE UnloadCall
      BY <1>6 DEF UnloadCall
<1>7. CASE Unloaded
      BY <1>7 DEF Unloaded, BeginClose
<1>8. CASE RefreshStopped
      BY <1>8 DEF RefreshStopped
<1>9. CASE ClientClosed
      BY <1>9 DEF ClientClosed
<1>10. CASE Crash
      BY <1>10 DEF Crash
<1>11. CASE Again
      BY <1>11 DEF Again
<1>12. ASSUME NEW learned \in Learned, NEW hasState \in BOOLEAN,
              Receive(learned, hasState)
       PROVE  IdentitySaved'
       BY <1>12 DEF Receive, Remembered, Answered, Unanswered
<1>13. CASE CheckStaleness
      BY <1>13 DEF CheckStaleness, TimerDue
<1>14. CASE RefreshBegins
      BY <1>14 DEF RefreshBegins
<1>15. CASE RefreshFails
      BY <1>15 DEF RefreshFails
<1>16. CASE Tick
      BY <1>16 DEF Tick, TimerDue, Waiting, Older
<1>17. CASE UNCHANGED vars
      BY <1>17 DEF vars
<1>. QED
      BY <1>1, <1>2, <1>3, <1>4, <1>5, <1>6, <1>7, <1>8, <1>9, <1>10, <1>11, <1>12, <1>13, <1>14, <1>15, <1>16, <1>17
         DEF Next, Setup, Unload, Watch

\* The clock argument: a failed refresh leaves less than the timeout, a check
\* interval passes before the next one, and that one takes a request.
LEMMA SilenceStep == IndInv /\ [Next]_vars => SilenceBounded'
<1> SUFFICES ASSUME IndInv, [Next]_vars PROVE SilenceBounded'
    OBVIOUS
<1> USE RuntimeAssumption
    DEF IndInv, lifeVars, dataVars, watchVars, TypeOK,
        RunningWatched, RefreshOwned, SilenceBounded, Running, MaxAge
<1>1. CASE Start
      BY <1>1 DEF Start
<1>2. CASE QueryFails
      BY <1>2 DEF QueryFails
<1>3. CASE SetupCancelled
      BY <1>3 DEF SetupCancelled
<1>4. CASE Create
      BY <1>4 DEF Create
<1>5. CASE Forwarded
      BY <1>5 DEF Forwarded, BeginClose
<1>6. CASE UnloadCall
      BY <1>6 DEF UnloadCall
<1>7. CASE Unloaded
      BY <1>7 DEF Unloaded, BeginClose
<1>8. CASE RefreshStopped
      BY <1>8 DEF RefreshStopped
<1>9. CASE ClientClosed
      BY <1>9 DEF ClientClosed
<1>10. CASE Crash
      BY <1>10 DEF Crash
<1>11. CASE Again
      BY <1>11 DEF Again
<1>12. ASSUME NEW learned \in Learned, NEW hasState \in BOOLEAN,
              Receive(learned, hasState)
       PROVE  SilenceBounded'
      <2>1. CASE hasState /\ listening
            <3>1. seen' = 0 /\ elapsed' = elapsed /\ waited' = waited
                  BY <1>12, <2>1 DEF Receive
            <3>. QED
                  BY <3>1
      <2>2. CASE ~(hasState /\ listening)
            <3>1. UNCHANGED <<seen, elapsed, waited, available, listening>>
                  BY <1>12, <2>2 DEF Receive
            <3>2. CASE Running
                  <4>1. UNCHANGED <<stage, refresh>>
                        BY <3>2, <2>2, <1>12 DEF Receive, Answered, Unanswered
                  <4>. QED
                        BY <4>1, <3>1
            <3>3. CASE ~Running
                  <4>1. stage' \in {stage, "create"}
                        BY <1>12 DEF Receive, Answered, Unanswered
                  <4>. QED
                        BY <3>3, <4>1
            <3>. QED
                  BY <3>2, <3>3
      <2>. QED
            BY <2>1, <2>2
<1>13. CASE CheckStaleness
      BY <1>13 DEF CheckStaleness, TimerDue
<1>14. CASE RefreshBegins
      <2>1. waited' = 0 /\ UNCHANGED <<stage, available, seen, elapsed>>
            BY <1>14 DEF RefreshBegins
      <2>2. /\ refresh = "new"
            /\ refresh' = IF seen < Check THEN "none" ELSE "query"
            BY <1>14 DEF RefreshBegins
      <2>. QED
            BY <2>1, <2>2
<1>15. CASE RefreshFails
      <2>1. refresh' = "none" /\ UNCHANGED <<stage, seen, elapsed>>
            BY <1>15 DEF RefreshFails
      <2>2. available' => seen < Timeout
            BY <1>15 DEF RefreshFails
      <2>. QED
            BY <2>1, <2>2
<1>16. CASE Tick
      BY <1>16 DEF Tick, TimerDue, Waiting, Older
<1>17. CASE UNCHANGED vars
      BY <1>17 DEF vars
<1>. QED
      BY <1>1, <1>2, <1>3, <1>4, <1>5, <1>6, <1>7, <1>8, <1>9, <1>10, <1>11, <1>12, <1>13, <1>14, <1>15, <1>16, <1>17
         DEF Next, Setup, Unload, Watch

\* A state makes the device available at once, also while a refresh fails; nothing
\* but a state ends its silence.
LEMMA UnavailableStep == IndInv /\ [Next]_vars => UnavailableSilent'
<1> SUFFICES ASSUME IndInv, [Next]_vars PROVE UnavailableSilent'
    OBVIOUS
<1> USE RuntimeAssumption
    DEF IndInv, lifeVars, dataVars, watchVars, TypeOK,
        RunningWatched, RefreshOwned, UnavailableSilent, Running, MaxAge
<1>1. CASE Start
      BY <1>1 DEF Start
<1>2. CASE QueryFails
      BY <1>2 DEF QueryFails
<1>3. CASE SetupCancelled
      BY <1>3 DEF SetupCancelled
<1>4. CASE Create
      BY <1>4 DEF Create
<1>5. CASE Forwarded
      BY <1>5 DEF Forwarded, BeginClose
<1>6. CASE UnloadCall
      BY <1>6 DEF UnloadCall
<1>7. CASE Unloaded
      BY <1>7 DEF Unloaded, BeginClose
<1>8. CASE RefreshStopped
      BY <1>8 DEF RefreshStopped
<1>9. CASE ClientClosed
      BY <1>9 DEF ClientClosed
<1>10. CASE Crash
      BY <1>10 DEF Crash
<1>11. CASE Again
      BY <1>11 DEF Again
<1>12. ASSUME NEW learned \in Learned, NEW hasState \in BOOLEAN,
              Receive(learned, hasState)
       PROVE  UnavailableSilent'
      <2>1. CASE hasState /\ listening
            <3>1. /\ seen' = 0 /\ unasked' = 0 /\ available'
                  /\ elapsed' = elapsed
                  BY <1>12, <2>1 DEF Receive
            <3>2. refresh' \in {refresh, "none"}
                  BY <1>12 DEF Receive, Answered, Unanswered
            <3>3. stage' = stage \/ ~Running'
                  BY <1>12 DEF Receive, Answered, Unanswered
            <3>. QED
                  BY <3>1, <3>2, <3>3
      <2>2. CASE ~(hasState /\ listening)
            <3>1. UNCHANGED <<seen, unasked, elapsed, available, listening>>
                  BY <1>12, <2>2 DEF Receive
            <3>2. CASE Running
                  <4>1. UNCHANGED <<stage, refresh>>
                        BY <3>2, <2>2, <1>12 DEF Receive, Answered, Unanswered
                  <4>. QED
                        BY <4>1, <3>1
            <3>3. CASE ~Running
                  <4>1. stage' \in {stage, "create"}
                        BY <1>12 DEF Receive, Answered, Unanswered
                  <4>. QED
                        BY <3>3, <4>1
            <3>. QED
                  BY <3>2, <3>3
      <2>. QED
            BY <2>1, <2>2
<1>13. CASE CheckStaleness
      BY <1>13 DEF CheckStaleness, TimerDue
<1>14. CASE RefreshBegins
      BY <1>14 DEF RefreshBegins
<1>15. CASE RefreshFails
      <2>1. UNCHANGED <<stage, seen>>
            BY <1>15 DEF RefreshFails
      <2>2. available' = (available /\ seen < Timeout)
            BY <1>15 DEF RefreshFails
      <2>3. ~available' => ~available \/ ~(seen < Timeout)
            BY <2>2, Zenon
      <2>. QED
            BY <2>1, <2>3
<1>16. CASE Tick
      BY <1>16 DEF Tick, TimerDue, Waiting, Older
<1>17. CASE UNCHANGED vars
      BY <1>17 DEF vars
<1>. QED
      BY <1>1, <1>2, <1>3, <1>4, <1>5, <1>6, <1>7, <1>8, <1>9, <1>10, <1>11, <1>12, <1>13, <1>14, <1>15, <1>16, <1>17
         DEF Next, Setup, Unload, Watch

\* The timer that finds the device heard too lately to ask it finds it silent the
\* next time, unless a state has come meanwhile.
LEMMA AskedStep == IndInv /\ [Next]_vars => AskedInTime'
<1> SUFFICES ASSUME IndInv, [Next]_vars PROVE AskedInTime'
    OBVIOUS
<1> USE RuntimeAssumption
    DEF IndInv, lifeVars, dataVars, watchVars, TypeOK,
        RunningWatched, RefreshOwned, AskedInTime, Running, MaxAge
<1>1. CASE Start
      BY <1>1 DEF Start
<1>2. CASE QueryFails
      BY <1>2 DEF QueryFails
<1>3. CASE SetupCancelled
      BY <1>3 DEF SetupCancelled
<1>4. CASE Create
      BY <1>4 DEF Create
<1>5. CASE Forwarded
      BY <1>5 DEF Forwarded, BeginClose
<1>6. CASE UnloadCall
      BY <1>6 DEF UnloadCall
<1>7. CASE Unloaded
      BY <1>7 DEF Unloaded, BeginClose
<1>8. CASE RefreshStopped
      BY <1>8 DEF RefreshStopped
<1>9. CASE ClientClosed
      BY <1>9 DEF ClientClosed
<1>10. CASE Crash
      BY <1>10 DEF Crash
<1>11. CASE Again
      BY <1>11 DEF Again
<1>12. ASSUME NEW learned \in Learned, NEW hasState \in BOOLEAN,
              Receive(learned, hasState)
       PROVE  AskedInTime'
      <2>1. CASE hasState /\ listening
            <3>1. /\ seen' = 0 /\ unasked' = 0 /\ available'
                  /\ elapsed' = elapsed
                  BY <1>12, <2>1 DEF Receive
            <3>2. refresh' \in {refresh, "none"}
                  BY <1>12 DEF Receive, Answered, Unanswered
            <3>3. stage' = stage \/ ~Running'
                  BY <1>12 DEF Receive, Answered, Unanswered
            <3>. QED
                  BY <3>1, <3>2, <3>3
      <2>2. CASE ~(hasState /\ listening)
            <3>1. UNCHANGED <<seen, unasked, elapsed, available, listening>>
                  BY <1>12, <2>2 DEF Receive
            <3>2. CASE Running
                  <4>1. UNCHANGED <<stage, refresh>>
                        BY <3>2, <2>2, <1>12 DEF Receive, Answered, Unanswered
                  <4>. QED
                        BY <4>1, <3>1
            <3>3. CASE ~Running
                  <4>1. stage' \in {stage, "create"}
                        BY <1>12 DEF Receive, Answered, Unanswered
                  <4>. QED
                        BY <3>3, <4>1
            <3>. QED
                  BY <3>2, <3>3
      <2>. QED
            BY <2>1, <2>2
<1>13. CASE CheckStaleness
      <2>1. UNCHANGED <<stage, seen, unasked>> /\ elapsed = Check /\ elapsed' = 0
            BY <1>13 DEF CheckStaleness, TimerDue
      <2>2. refresh' = IF refresh = "none" /\ seen >= Check THEN "new" ELSE refresh
            BY <1>13 DEF CheckStaleness
      <2>. QED
            BY <2>1, <2>2
<1>14. CASE RefreshBegins
      <2>1. UNCHANGED <<stage, seen, elapsed>>
            BY <1>14 DEF RefreshBegins
      <2>2. refresh = "new"
            BY <1>14 DEF RefreshBegins
      <2>3. CASE seen < Check
            <3>1. refresh' = "none" /\ unasked' = unasked
                  BY <1>14, <2>3 DEF RefreshBegins
            <3>. QED
                  BY <2>1, <2>2, <2>3, <3>1
      <2>4. CASE ~(seen < Check)
            <3>1. refresh' = "query" /\ unasked' = 0
                  BY <1>14, <2>4 DEF RefreshBegins
            <3>. QED
                  BY <2>1, <3>1
      <2>. QED
            BY <2>3, <2>4
<1>15. CASE RefreshFails
      BY <1>15 DEF RefreshFails
<1>16. CASE Tick
      BY <1>16 DEF Tick, TimerDue, Waiting, Older
<1>17. CASE UNCHANGED vars
      BY <1>17 DEF vars
<1>. QED
      BY <1>1, <1>2, <1>3, <1>4, <1>5, <1>6, <1>7, <1>8, <1>9, <1>10, <1>11, <1>12, <1>13, <1>14, <1>15, <1>16, <1>17
         DEF Next, Setup, Unload, Watch

THEOREM Invariance == Spec => []IndInv
<1>1. IndInv /\ [Next]_vars => IndInv'
      BY TypeStep, WatchedStep, OwnedStep, BoundStep, SavedStep, SilenceStep,
         UnavailableStep, AskedStep
         DEF IndInv
<1>2. QED
      BY InitInv, <1>1, PTL DEF Spec

\* Every variable keeps its type, whatever the constants.
THEOREM TypeCorrect == Spec => []TypeOK
<1>1. IndInv => TypeOK
      BY DEF IndInv
<1>2. QED
      BY <1>1, Invariance, PTL

\* A device that falls silent does not stay available longer than the timeout,
\* one check and one request, for any values of the three, and none is shown
\* unavailable before the timeout.
THEOREM SilenceIsNoticed == Spec => []SilenceNoticed
<1>1. IndInv => SilenceNoticed
      BY RuntimeAssumption
         DEF IndInv, TypeOK, SilenceBounded, UnavailableSilent, SilenceNoticed, MaxAge
<1>2. QED
      BY <1>1, Invariance, PTL

\* What is in use is what a restart will find.
THEOREM IdentityIsSaved == Spec => []IdentitySaved
<1>1. IndInv => IdentitySaved
      BY DEF IndInv
<1>2. QED
      BY <1>1, Invariance, PTL

\* An entry that is not loaded has no client, listener, timer or refresh left.
THEOREM NothingIsLeftBehind == Spec => []NothingLeftBehind
<1>1. IndInv => NothingLeftBehind
      BY DEF IndInv, TypeOK, RunningWatched, RefreshOwned, BoundStages, Running,
             NothingLeftBehind
<1>2. QED
      BY <1>1, Invariance, PTL

\* A device is asked again before two check intervals are over since it was heard
\* or asked last.
THEOREM DeviceIsAskedAgain == Spec => []AskedAgain
<1>1. IndInv => AskedAgain
      BY RuntimeAssumption DEF IndInv, TypeOK, AskedInTime, AskedAgain, MaxAge
<1>2. QED
      BY <1>1, Invariance, PTL

-----------------------------------------------------------------------------
(* DeviceView: sequences                                                    *)

\* f[n] is what still counts of the first n of the entries s.
CountsTo(f, s, n) ==
    f = [k \in 0..n |-> IF k = 0 THEN <<>>
                        ELSE IF s[k].age <= Window THEN Append(f[k-1], s[k]) ELSE f[k-1]]

LEMMA CountsValues ==
    ASSUME NEW f, NEW s, NEW n \in Nat, CountsTo(f, s, n), NEW k \in 0..n
    PROVE  f[k] = IF k = 0 THEN <<>>
                  ELSE IF s[k].age <= Window THEN Append(f[k-1], s[k]) ELSE f[k-1]
<1> DEFINE F == [j \in 0..n |-> IF j = 0 THEN <<>>
                    ELSE IF s[j].age <= Window THEN Append(f[j-1], s[j]) ELSE f[j-1]]
<1>1. f = F
      BY DEF CountsTo
<1>2. F[k] = IF k = 0 THEN <<>>
             ELSE IF s[k].age <= Window THEN Append(f[k-1], s[k]) ELSE f[k-1]
      OBVIOUS
<1> HIDE DEF F
<1>. QED
      BY <1>1, <1>2

\* The order of the naturals, as a relation.
Below == {p \in Nat \X Nat : p[1] < p[2]}

LEMMA LeastNat ==
    ASSUME NEW T, T \subseteq Nat, T # {}
    PROVE  \E x \in T : \A y \in T : x <= y
<1>1. IsWellFoundedOn(Below, Nat)
      BY NatLessThanWellFounded DEF OpToRel, Below
<1>2. PICK x \in T : \A y \in T : ~ (<<y, x>> \in Below)
      BY <1>1, WFMin
<1>3. ASSUME NEW y \in T PROVE x <= y
      <2>1. x \in Nat /\ y \in Nat /\ ~ (<<y, x>> \in Below)
            BY <1>2
      <2>2. ~(y < x)
            BY <2>1 DEF Below
      <2>. QED
            BY <2>1, <2>2
<1>. QED
      BY <1>3

LEMMA CountsExist ==
    ASSUME NEW s, NEW n \in Nat
    PROVE  \E f : CountsTo(f, s, n)
<1> DEFINE T == {m \in Nat : ~ \E f : CountsTo(f, s, m)}
<1> SUFFICES ASSUME T # {} PROVE FALSE
    OBVIOUS
<1>1. PICK m \in T : \A k \in T : m <= k
      BY LeastNat
<1>2. m \in Nat /\ ~ \E f : CountsTo(f, s, m)
      OBVIOUS
<1>3. m # 0
      <2> DEFINE e == [k \in 0..0 |-> <<>>]
      <2>1. e = [k \in 0..0 |-> IF k = 0 THEN <<>>
                    ELSE IF s[k].age <= Window THEN Append(e[k-1], s[k]) ELSE e[k-1]]
            OBVIOUS
      <2>. QED
            BY <1>2, <2>1 DEF CountsTo
<1>4. PICK g : CountsTo(g, s, m - 1)
      BY <1>1, <1>2, <1>3
<1> DEFINE f == [k \in 0..m |-> IF k < m THEN g[k]
                    ELSE IF s[m].age <= Window THEN Append(g[m-1], s[m]) ELSE g[m-1]]
<1>5. ASSUME NEW k \in 0..m
      PROVE  f[k] = IF k = 0 THEN <<>>
                    ELSE IF s[k].age <= Window THEN Append(f[k-1], s[k]) ELSE f[k-1]
      <2>1. CASE k < m
            <3>1. k \in 0..(m-1) /\ f[k] = g[k] /\ (k # 0 => f[k-1] = g[k-1])
                  BY <2>1, <1>2
            <3>2. m - 1 \in Nat
                  BY <1>2, <1>3
            <3> HIDE DEF f, T
            <3>. QED
                  BY <3>1, <3>2, <1>4, CountsValues
      <2>2. CASE k = m
            <3>1. f[m] = (IF s[m].age <= Window THEN Append(g[m-1], s[m]) ELSE g[m-1])
                  BY <1>2
            <3>2. f[m-1] = g[m-1]
                  BY <1>2, <1>3
            <3> HIDE DEF f, T
            <3>. QED
                  BY <3>1, <3>2, <2>2, <1>3
      <2>. QED
            BY <2>1, <2>2, <1>2
<1>6. f = [k \in 0..m |-> IF k = 0 THEN <<>>
              ELSE IF s[k].age <= Window THEN Append(f[k-1], s[k]) ELSE f[k-1]]
      BY <1>5
<1>. QED
      BY <1>2, <1>6 DEF CountsTo

\* What counts of the entries s: entries of s, within the window.
CountedOf(t, s, R) ==
    /\ t \in Seq(R)
    /\ \A i \in 1..Len(t) : \E j \in 1..Len(s) : t[i] = s[j] /\ s[j].age <= Window

LEMMA CountsTypes ==
    ASSUME NEW R, NEW s \in Seq(R), NEW f, CountsTo(f, s, Len(s)), NEW n \in 0..Len(s)
    PROVE  CountedOf(f[n], s, R)
<1> DEFINE T == {m \in 0..Len(s) : ~CountedOf(f[m], s, R)}
<1> SUFFICES ASSUME T # {} PROVE FALSE
    OBVIOUS
<1>0. Len(s) \in Nat /\ T \subseteq Nat
      OBVIOUS
<1>1. PICK m \in T : \A k \in T : m <= k
      BY <1>0, LeastNat
<1>2. m \in 0..Len(s) /\ ~CountedOf(f[m], s, R)
      OBVIOUS
<1>3. f[m] = IF m = 0 THEN <<>>
             ELSE IF s[m].age <= Window THEN Append(f[m-1], s[m]) ELSE f[m-1]
      BY <1>0, <1>2, CountsValues
<1>4. m # 0
      BY <1>2, <1>3 DEF CountedOf
<1>5. m - 1 \in 0..Len(s) /\ ~(m <= m - 1)
      BY <1>0, <1>2, <1>4
<1>6. CountedOf(f[m-1], s, R)
      BY <1>1, <1>5
<1>7. s[m].age <= Window /\ f[m] = Append(f[m-1], s[m])
      BY <1>2, <1>3, <1>4, <1>6
<1>8. m \in 1..Len(s) /\ s[m] \in R
      BY <1>0, <1>2, <1>4, ElementOfSeq
<1>9. f[m-1] \in Seq(R)
      BY <1>6 DEF CountedOf
<1> DEFINE t == f[m-1]
<1>10. /\ Append(t, s[m]) \in Seq(R) /\ Len(Append(t, s[m])) = Len(t) + 1 /\ Len(t) \in Nat
       /\ \A i \in 1..Len(t) : Append(t, s[m])[i] = t[i]
       /\ Append(t, s[m])[Len(t) + 1] = s[m]
      BY <1>8, <1>9, AppendProperties
<1> HIDE DEF T
<1>11. \A i \in 1..Len(t) + 1 :
          \E j \in 1..Len(s) : Append(t, s[m])[i] = s[j] /\ s[j].age <= Window
      <2> TAKE i \in 1..Len(t) + 1
      <2>1. CASE i = Len(t) + 1
            BY <2>1, <1>7, <1>8, <1>10
      <2>2. CASE i # Len(t) + 1
            <3>1. i \in 1..Len(t)
                  BY <2>2, <1>10
            <3>. QED
                  BY <3>1, <1>6, <1>10 DEF CountedOf
      <2>. QED
            BY <2>1, <2>2
<1>. QED
      BY <1>2, <1>7, <1>10, <1>11 DEF CountedOf

LEMMA UnexpiredCounts ==
    ASSUME NEW R, recent \in Seq(R)
    PROVE  CountedOf(Unexpired, recent, R)
<1> DEFINE f == CHOOSE g : CountsTo(g, recent, Len(recent))
<1>1. Unexpired = f[Len(recent)]
      BY DEF Unexpired, CountsTo
<1>2. Len(recent) \in Nat
      OBVIOUS
<1>3. \E g : CountsTo(g, recent, Len(recent))
      BY <1>2, CountsExist
<1>4. CountsTo(f, recent, Len(recent))
      BY <1>3, Zenon
<1> HIDE DEF f
<1>. QED
      BY <1>1, <1>2, <1>4, CountsTypes

LEMMA Families ==
    ASSUME NEW m \in Models
    PROVE  /\ m \in SixSpeed => Family[m] = "A5A0" /\ m \notin FiveSpeed /\ m \notin Continuous
           /\ m \in FiveSpeed => Family[m] = "F072_X50" /\ m \notin SixSpeed /\ m \notin Continuous
           /\ m \in Continuous => Family[m] = "F072_G30" /\ m \notin SixSpeed /\ m \notin FiveSpeed
           /\ m = "M25" => Family[m] = "M25" /\ m \notin Purifiers
           /\ m \in SixSpeed \/ m \in FiveSpeed \/ m \in Continuous \/ m = "M25"
           /\ m # "M25" => m \in Purifiers
    BY DEF Models, Purifiers, SixSpeed, FiveSpeed, Continuous, Family

\* What the state says of a purifier whose registers are r.
Reads(m, r, s) ==
    /\ s = [f \in Fields |-> s[f]]
    /\ s.mode = r.mode /\ s.timer = Known(r.timer, Timers)
    /\ s.profile = IF m \in Continuous /\ r.profile # 0 THEN 1 ELSE r.profile
    /\ s.speed = IF m \in Continuous THEN None ELSE Known(r.speed, 1 .. 6)
    /\ s.lock = IF m \in SixSpeed THEN TrueIfEleven(r.lock) ELSE TrueIfZero(r.lock)
    /\ s.display = TrueIfZero(r.display) /\ s.power = TrueIfZero(r.power)
    /\ s.ptc = IF m \in Continuous THEN Known(r.ptc, 0 .. 2) ELSE None
    /\ s.flow = IF m \in Continuous /\ r.flow \in MinFlow .. MaxFlow(m) /\ r.flow % 5 = 0
                THEN r.flow ELSE None
    /\ s.pm25 = r.pm25 /\ s.backlight = None

LEMMA DecodesPurifier ==
    ASSUME NEW m \in Purifiers, NEW r \in Registers(m)
    PROVE  Reads(m, r, Decode(m, r))
<1>1. m \in Models
      BY DEF Models
<1>2. CASE m \in SixSpeed
      <2>1. Decode(m, r) = DecodeA5A0(r) /\ m \notin Continuous
            BY <1>1, <1>2, Families DEF Decode
      <2>. QED
            BY <1>2, <2>1, ZenonT(60) DEF Reads, DecodeA5A0, DecodeCommon, Nothing, Fields, Timers
<1>3. CASE m \in FiveSpeed
      <2>1. Decode(m, r) = DecodeX50(r) /\ m \notin Continuous /\ m \notin SixSpeed
            BY <1>1, <1>3, Families DEF Decode
      <2>. QED
            BY <2>1, ZenonT(60) DEF Reads, DecodeX50, DecodeCommon, Nothing, Fields, Timers
<1>4. CASE m \in Continuous
      <2>1. Decode(m, r) = DecodeG30(m, r) /\ m \notin SixSpeed
            BY <1>1, <1>4, Families DEF Decode
      <2>. QED
            BY <1>4, <2>1, ZenonT(60) DEF Reads, DecodeG30, DecodeCommon, Nothing, Fields, Timers
<1>. QED
      BY <1>2, <1>3, <1>4 DEF Purifiers

LEMMA DecodesDetector ==
    ASSUME NEW r
    PROVE  LET s == Decode("M25", r)
           IN s = [f \in Fields |-> IF f \in DOMAIN r THEN r[f] ELSE None]
<1>1. "M25" \in Models
      BY DEF Models
<1>2. Decode("M25", r) = DecodeM25(r)
      BY <1>1, Families DEF Decode
<1>. QED
      BY <1>2 DEF DecodeM25

LEMMA Bytes ==
    ASSUME NEW v
    PROVE  /\ TrueIfZero(v) \in BOOLEAN \cup {None}
           /\ TrueIfEleven(v) \in BOOLEAN \cup {None}
           /\ TrueIfZero(Zero) = TRUE /\ TrueIfZero(Eleven) = FALSE
           /\ TrueIfEleven(Zero) = FALSE /\ TrueIfEleven(Eleven) = TRUE
    BY DEF TrueIfZero, TrueIfEleven, Zero, Eleven

LEMMA ReadsState ==
    ASSUME NEW m \in Purifiers, NEW r \in Registers(m), NEW s, Reads(m, r, s)
    PROVE  IsState(m, s)
<1>1. m \in Models /\ m # "M25"
      BY DEF Models, Purifiers, SixSpeed, FiveSpeed, Continuous
<1>2. r \in [mode : Nat, profile : Nat, speed : Nat, timer : Nat, lock : Nat, display : Nat,
             power : Nat, ptc : Nat, flow : Nat, pm25 : Nat]
      BY <1>1 DEF Registers
<1>3. \A f \in Switched : s[f] \in BOOLEAN \cup {None}
      BY Bytes DEF Reads, Switched
<1>4. \A f \in Fields \ Switched : s[f] \in Int \cup {None}
      BY <1>2 DEF Reads, Fields, Switched, Known
<1>5. m \in Continuous => s.flow = None \/ (s.flow \in MinFlow .. MaxFlow(m) /\ s.flow % 5 = 0)
      BY DEF Reads
<1>6. m \in SixSpeed \cup FiveSpeed => s.speed \in 1 .. 6 \cup {None}
      BY <1>1, Families DEF Reads, Known
<1>. QED
      BY <1>3, <1>4, <1>5, <1>6 DEF IsState, Reads

\* A report, once decoded, is a state.
LEMMA DecodesState ==
    ASSUME NEW m \in Models, NEW d \in Reports(m)
    PROVE  IsState(m, Decode(m, d.regs))
<1>1. CASE m = "M25"
      <2>1. d.regs \in [pm25 : Nat] \cup [backlight : {0, 1}]
            BY <1>1 DEF Reports
      <2> DEFINE s == Decode(m, d.regs)
      <2>2. s = [f \in Fields |-> IF f \in DOMAIN d.regs THEN d.regs[f] ELSE None]
            BY <1>1, DecodesDetector
      <2>3. \A f \in Fields : s[f] \in Int \cup {None} /\ (f \in Switched => s[f] = None)
            <3>1. CASE d.regs \in [pm25 : Nat]
                  BY <2>2, <3>1 DEF Fields, Switched
            <3>2. CASE d.regs \in [backlight : {0, 1}]
                  BY <2>2, <3>2 DEF Fields, Switched
            <3>. QED
                  BY <2>1, <3>1, <3>2
      <2>4. s = [f \in Fields |-> s[f]]
            BY <2>2
      <2> HIDE DEF s
      <2>5. Switched \subseteq Fields
            BY DEF Switched, Fields
      <2>6. m \notin Continuous /\ m \notin SixSpeed \cup FiveSpeed
            BY <1>1, Families DEF Purifiers
      <2>. QED
            BY <2>3, <2>4, <2>5, <2>6 DEF IsState, s
<1>2. CASE m # "M25"
      <2>1. m \in Purifiers /\ d.regs \in Registers(m)
            BY <1>2, Families DEF Reports
      <2>. QED
            BY <2>1, DecodesPurifier, ReadsState
<1>. QED
      BY <1>1, <1>2

LEMMA MergesState ==
    ASSUME NEW m \in Models, NEW s, NEW t, IsState(m, s), IsState(m, t)
    PROVE  IsState(m, Merge(m, s, t))
<1>1. CASE Merge(m, s, t) = t
      BY <1>1
<1>2. CASE Merge(m, s, t) # t
      <2>1. m = "M25" /\ Merge(m, s, t) = [f \in Fields |-> IF t[f] = None THEN s[f] ELSE t[f]]
            BY <1>2, Families DEF Merge
      <2>2. Switched \subseteq Fields
            BY DEF Switched, Fields
      <2>3. m \notin Continuous /\ m \notin SixSpeed \cup FiveSpeed
            BY <2>1, Families DEF Purifiers
      <2>. QED
            BY <2>1, <2>2, <2>3 DEF IsState
<1>. QED
      BY <1>1, <1>2

LEMMA StateIsSome ==
    ASSUME NEW m, NEW s, IsState(m, s)
    PROVE  s # None
<1>1. \A f \in Fields : s[f] \in Int \cup BOOLEAN \cup {None}
      BY DEF IsState
<1>2. s \in [Fields -> Int \cup BOOLEAN \cup {None}]
      BY <1>1 DEF IsState
<1>. QED
      BY <1>2, NoneAssumption

-----------------------------------------------------------------------------
(* Percentages, speeds and flows                                            *)

\* A model's flows are 40 and the next 260 or 410 cubic metres.
Spans == {260, 410}

FlowAt(span, p) == 40 + 5 * ((2 * (p - 1) * span + 495) \div 990)

PercentAt(span, flow) == Round(span + 99 * (flow - 40), span)

LEMMA FlowRange ==
    ASSUME NEW p \in 1 .. 100, NEW span \in Spans
    PROVE  FlowAt(span, p) \in 40 .. 40 + span /\ FlowAt(span, p) % 5 = 0
<1>1. CASE span = 260
      BY <1>1 DEF FlowAt
<1>2. CASE span = 410
      BY <1>2 DEF FlowAt
<1>. QED
      BY <1>1, <1>2 DEF Spans

LEMMA FlowReturns ==
    ASSUME NEW f \in Int, NEW span \in Spans, f \in 40 .. 40 + span, f % 5 = 0
    PROVE  FlowAt(span, PercentAt(span, f)) = f /\ PercentAt(span, f) \in 1 .. 100
<1>1. CASE span = 260
      BY <1>1 DEF FlowAt, PercentAt, Round
<1>2. CASE span = 410
      BY <1>2 DEF FlowAt, PercentAt, Round
<1>. QED
      BY <1>1, <1>2 DEF Spans

LEMMA PercentReturns ==
    ASSUME NEW p \in 1 .. 100, NEW span \in Spans
    PROVE  Near(PercentAt(span, FlowAt(span, p)), p, 1)
<1>1. CASE span = 260
      BY <1>1 DEF FlowAt, PercentAt, Round, Near
<1>2. CASE span = 410
      BY <1>2 DEF FlowAt, PercentAt, Round, Near
<1>. QED
      BY <1>1, <1>2 DEF Spans

LEMMA FlowGrows ==
    ASSUME NEW p \in 1 .. 99, NEW span \in Spans
    PROVE  /\ FlowAt(span, p) <= FlowAt(span, p + 1)
           /\ PercentAt(span, FlowAt(span, 1)) = 1 /\ PercentAt(span, FlowAt(span, 100)) = 100
<1>1. CASE span = 260
      BY <1>1 DEF FlowAt, PercentAt, Round
<1>2. CASE span = 410
      BY <1>2 DEF FlowAt, PercentAt, Round
<1>. QED
      BY <1>1, <1>2 DEF Spans

LEMMA SpanOf ==
    ASSUME NEW m \in Continuous
    PROVE  /\ MaxFlow(m) - MinFlow \in Spans /\ MinFlow = 40
           /\ MaxFlow(m) = 40 + (MaxFlow(m) - MinFlow)
           /\ \A p \in Int : FlowFor(m, p) = FlowAt(MaxFlow(m) - MinFlow, p)
<1>1. /\ MaxFlow(m) \in {300, 450} /\ MinFlow = 40
      BY DEF MaxFlow, MinFlow
<1>2. MaxFlow(m) - MinFlow \in Spans /\ MaxFlow(m) = 40 + (MaxFlow(m) - MinFlow)
      BY <1>1 DEF Spans
<1>3. ASSUME NEW p \in Int
      PROVE  FlowFor(m, p) = FlowAt(MaxFlow(m) - MinFlow, p)
      <2> DEFINE span == MaxFlow(m) - MinFlow
      <2>1. FlowFor(m, p) = MinFlow + 5 * ((2 * (p - 1) * span + 99 * 5) \div (2 * 99 * 5))
            BY DEF FlowFor
      <2>2. 99 * 5 = 495 /\ 2 * 99 * 5 = 990
            OBVIOUS
      <2>. QED
            BY <1>1, <2>1, <2>2 DEF FlowAt
<1>. QED
      BY <1>1, <1>2, <1>3

\* The item of a percentage is the first that reaches it.
IsItem(i, p, n) ==
    /\ i \in 1 .. n /\ p <= (i * 100) \div n
    /\ i > 1 => ((i - 1) * 100) \div n < p

LEMMA ItemExists ==
    ASSUME NEW p \in 1 .. 100, NEW n \in {5, 6}
    PROVE  \E i \in 1 .. n : IsItem(i, p, n)
<1>1. CASE n = 5
      <2>1. \/ IsItem(1, p, 5) \/ IsItem(2, p, 5) \/ IsItem(3, p, 5) \/ IsItem(4, p, 5)
            \/ IsItem(5, p, 5)
            BY DEF IsItem
      <2>. QED
            BY <1>1, <2>1
<1>2. CASE n = 6
      <2>1. \/ IsItem(1, p, 6) \/ IsItem(2, p, 6) \/ IsItem(3, p, 6) \/ IsItem(4, p, 6)
            \/ IsItem(5, p, 6) \/ IsItem(6, p, 6)
            BY DEF IsItem
      <2>. QED
            BY <1>2, <2>1
<1>. QED
      BY <1>1, <1>2

LEMMA ItemsGrow ==
    ASSUME NEW n \in {5, 6}, NEW i \in 1 .. n, NEW j \in 1 .. n, i < j
    PROVE  (i * 100) \div n <= ((j - 1) * 100) \div n
<1>1. CASE n = 5
      BY <1>1
<1>2. CASE n = 6
      BY <1>2
<1>. QED
      BY <1>1, <1>2

LEMMA ItemOf ==
    ASSUME NEW p \in 1 .. 100, NEW n \in {5, 6}
    PROVE  IsItem(PercentageItem(p, n), p, n)
<1> DEFINE First(i) == /\ p <= ItemPercentage(i, n)
                       /\ \A j \in 1 .. i - 1 : ItemPercentage(j, n) < p
<1>1. PICK i \in 1 .. n : IsItem(i, p, n)
      BY ItemExists
<1>2. ASSUME NEW k \in Int
      PROVE  (k * 100) \div n \in Int
      <2>1. CASE n = 5
            BY <2>1
      <2>2. CASE n = 6
            BY <2>2
      <2>. QED
            BY <2>1, <2>2
<1>3. First(i)
      <2>1. ASSUME NEW j \in 1 .. i - 1
            PROVE  ItemPercentage(j, n) < p
            <3>1. i \in Nat /\ j \in 1 .. n /\ j <= i - 1
                  BY <1>1
            <3>2. (j * 100) \div n <= ((i - 1) * 100) \div n
                  <4>1. j < i
                        BY <3>1
                  <4>. QED
                        BY <1>1, <3>1, <4>1, ItemsGrow
            <3>3. ((i - 1) * 100) \div n < p
                  BY <1>1, <3>1 DEF IsItem
            <3>4. (j * 100) \div n \in Int /\ ((i - 1) * 100) \div n \in Int
                  BY <3>1, <1>2
            <3>. QED
                  BY <3>2, <3>3, <3>4 DEF ItemPercentage
      <2>. QED
            BY <1>1, <2>1 DEF IsItem, ItemPercentage
<1>4. PercentageItem(p, n) = CHOOSE k \in 1 .. n : First(k)
      BY DEF PercentageItem
<1>5. PercentageItem(p, n) \in 1 .. n /\ First(PercentageItem(p, n))
      BY <1>1, <1>3, <1>4
<1> DEFINE k == PercentageItem(p, n)
<1>6. k > 1 => k - 1 \in 1 .. k - 1
      BY <1>5
<1> HIDE DEF k
<1>. QED
      BY <1>5, <1>6 DEF IsItem, ItemPercentage, k

\* An item's percentage is within one item's share, asks for the item again,
\* and is a percentage.
LEMMA ItemPercentages ==
    ASSUME NEW n \in {5, 6}, NEW i \in 1 .. n
    PROVE  /\ ItemPercentage(i, n) \in 1 .. 100
           /\ PercentageItem(ItemPercentage(i, n), n) = i
           /\ ItemPercentage(n, n) = 100
<1>1. ItemPercentage(i, n) \in 1 .. 100 /\ ItemPercentage(n, n) = 100
      <2>1. CASE n = 5
            BY <2>1 DEF ItemPercentage
      <2>2. CASE n = 6
            BY <2>2 DEF ItemPercentage
      <2>. QED
            BY <2>1, <2>2
<1>2. IsItem(PercentageItem(ItemPercentage(i, n), n), ItemPercentage(i, n), n)
      BY <1>1, ItemOf
<1> DEFINE k == PercentageItem(ItemPercentage(i, n), n)
<1>3. k \in 1 .. n
      BY <1>2 DEF IsItem
<1>4. k = i
      <2>1. CASE n = 5
            BY <2>1, <1>2, <1>3 DEF IsItem, ItemPercentage
      <2>2. CASE n = 6
            BY <2>2, <1>2, <1>3 DEF IsItem, ItemPercentage
      <2>. QED
            BY <2>1, <2>2
<1>. QED
      BY <1>1, <1>4

LEMMA ItemNear ==
    ASSUME NEW p \in 1 .. 100, NEW n \in {5, 6}, NEW i, IsItem(i, p, n)
    PROVE  Near(ItemPercentage(i, n), p, 100 \div n)
<1>1. CASE n = 5
      BY <1>1 DEF IsItem, ItemPercentage, Near
<1>2. CASE n = 6
      BY <1>2 DEF IsItem, ItemPercentage, Near
<1>. QED
      BY <1>1, <1>2

LEMMA ItemsOrdered ==
    ASSUME NEW p \in 1 .. 99, NEW n \in {5, 6}, NEW i, IsItem(i, p, n), NEW j, IsItem(j, p + 1, n)
    PROVE  i <= j
<1>1. CASE n = 5
      BY <1>1 DEF IsItem
<1>2. CASE n = 6
      BY <1>2 DEF IsItem
<1>. QED
      BY <1>1, <1>2

-----------------------------------------------------------------------------
(* Commands                                                                 *)

LEMMA PurifierKinds ==
    ASSUME NEW m \in Purifiers
    PROVE  /\ m \in Models /\ m # "M25" /\ Family[m] # "M25"
           /\ (Family[m] = "A5A0") = (m \in SixSpeed)
           /\ (Family[m] = "F072_G30") = (m \in Continuous)
           /\ m \in Continuous => m \notin SixSpeed
           /\ m \notin Continuous => Speeds(m) \in {5, 6}
           /\ Speeds(m) = IF m \in SixSpeed THEN 6 ELSE 5
           /\ Registers(m) = [mode : Nat, profile : Nat, speed : Nat, timer : Nat, lock : Nat,
                              display : Nat, power : Nat, ptc : Nat, flow : Nat, pm25 : Nat]
<1>1. m \in Models /\ m # "M25"
      BY DEF Models, Purifiers, SixSpeed, FiveSpeed, Continuous
<1>2. m \in SixSpeed \/ m \in FiveSpeed \/ m \in Continuous
      BY DEF Purifiers
<1>3. /\ Family[m] # "M25"
      /\ (Family[m] = "A5A0") = (m \in SixSpeed)
      /\ (Family[m] = "F072_G30") = (m \in Continuous)
      /\ m \in Continuous => m \notin SixSpeed
      BY <1>1, <1>2, Families
<1>4. Speeds(m) = IF m \in SixSpeed THEN 6 ELSE 5
      BY DEF Speeds
<1>5. Registers(m) = [mode : Nat, profile : Nat, speed : Nat, timer : Nat, lock : Nat,
                      display : Nat, power : Nat, ptc : Nat, flow : Nat, pm25 : Nat]
      BY <1>1 DEF Registers
<1>. QED
      BY <1>1, <1>3, <1>4, <1>5

LEMMA PercentageKnown ==
    ASSUME NEW m \in Purifiers, NEW s, IsState(m, s)
    PROVE  /\ Percentage(m, s) \in 0 .. 100 \cup {None}
           /\ s.power = FALSE => Percentage(m, s) = 0
           /\ s.power # FALSE => Percentage(m, s) # 0
           /\ ManualPercentage(m, s) \in 1 .. 100
<1>1. ASSUME s.power # FALSE
      PROVE  Percentage(m, s) \in 1 .. 100 \cup {None}
      <2>1. CASE m \in Continuous
            <3>1. Percentage(m, s) = IF s.flow = None THEN None
                                     ELSE PercentAt(MaxFlow(m) - MinFlow, s.flow)
                  BY <1>1, <2>1, SpanOf DEF Percentage, IsOn, PercentAt
            <3>2. CASE s.flow = None
                  BY <3>1, <3>2
            <3>3. CASE s.flow # None
                  <4>1. s.flow \in MinFlow .. MaxFlow(m) /\ s.flow % 5 = 0
                        BY <2>1, <3>3 DEF IsState
                  <4> DEFINE span == MaxFlow(m) - MinFlow
                  <4>2. span \in Spans /\ MinFlow = 40 /\ MaxFlow(m) = 40 + span
                        BY <2>1, SpanOf
                  <4> HIDE DEF span
                  <4>3. s.flow \in Int /\ s.flow \in 40 .. 40 + span
                        BY <4>1, <4>2 DEF Spans
                  <4>4. PercentAt(span, s.flow) \in 1 .. 100
                        BY <4>1, <4>2, <4>3, FlowReturns
                  <4>. QED
                        BY <3>1, <3>3, <4>4 DEF span
            <3>. QED
                  BY <3>2, <3>3
      <2>2. CASE m \notin Continuous
            <3>1. Percentage(m, s) = IF s.speed = None THEN None
                                     ELSE IF s.speed > Speeds(m) THEN 100
                                     ELSE ItemPercentage(s.speed, Speeds(m))
                  BY <1>1, <2>2 DEF Percentage, IsOn
            <3>2. s.speed \in 1 .. 6 \cup {None} /\ Speeds(m) \in {5, 6}
                  BY <2>2, PurifierKinds DEF IsState, Purifiers
            <3>. QED
                  BY <3>1, <3>2, ItemPercentages
      <2>. QED
            BY <2>1, <2>2
<1>2. s.power = FALSE => Percentage(m, s) = 0
      BY DEF Percentage, IsOn
<1>3. None \notin Int
      BY NoneAssumption
<1>4. Round(100, SpeedCount(m)) \in 1 .. 100
      <2>1. SpeedCount(m) \in {5, 6, 100}
            BY PurifierKinds DEF SpeedCount
      <2>. QED
            BY <2>1 DEF Round
<1>5. Percentage(m, s) \in 0 .. 100 \cup {None} /\ (s.power # FALSE => Percentage(m, s) # 0)
      <2>1. CASE s.power = FALSE
            <3>1. Percentage(m, s) = 0
                  BY <2>1, <1>2, Zenon
            <3>2. 0 \in 0 .. 100 \cup {None}
                  OBVIOUS
            <3>. QED
                  BY <2>1, <3>1, <3>2, Zenon
      <2>2. CASE s.power # FALSE
            <3>1. Percentage(m, s) \in 1 .. 100 \/ Percentage(m, s) = None
                  BY <2>2, <1>1
            <3>. QED
                  BY <2>2, <3>1, <1>3
      <2>. QED
            BY <2>1, <2>2
<1>6. ManualPercentage(m, s) \in 1 .. 100
      BY <1>4, <1>5 DEF ManualPercentage
<1>. QED
      BY <1>2, <1>5, <1>6

\* The frame of a percentage, and what confirms it.
LEMMA PercentageCommand ==
    ASSUME NEW m \in Purifiers, NEW p \in 1 .. 100
    PROVE  LET c == SetPercentage(m, p)
               i == PercentageItem(p, Speeds(m))
           IN /\ m \in Continuous =>
                   /\ Encode(m, c) = [code |-> 88, value |-> FlowFor(m, p)]
                   /\ \A s : Confirms(m, s, c) <=> s.flow = FlowFor(m, p)
              /\ m \notin Continuous =>
                   /\ Encode(m, c) = [code |-> 82, value |-> i]
                   /\ \A s : Confirms(m, s, c) <=> s.speed = i
              /\ c.op # "backlight"
<1>1. ~(p <= 0)
      OBVIOUS
<1>2. CASE m \in Continuous
      <2>1. SetPercentage(m, p) = [op |-> "percentage", value |-> p]
            BY <1>1, <1>2 DEF SetPercentage, Command, WireValue, Logical
      <2>2. Encode(m, [op |-> "percentage", value |-> p]) = EncodePercentage(m, p)
            BY PurifierKinds DEF Encode
      <2>3. EncodePercentage(m, p) = [code |-> 88, value |-> FlowFor(m, p)]
            BY <1>1, <1>2, PurifierKinds DEF EncodePercentage, FlowFrame
      <2>4. ASSUME NEW s
            PROVE  Confirms(m, s, [op |-> "percentage", value |-> p]) <=> s.flow = FlowFor(m, p)
            BY <1>1, <1>2, PurifierKinds DEF Confirms
      <2>. QED
            BY <1>2, <2>1, <2>2, <2>3, <2>4
<1>3. CASE m \notin Continuous
      <2> DEFINE i == PercentageItem(p, Speeds(m))
      <2>1. SetPercentage(m, p) = [op |-> "speed", value |-> i]
            BY <1>1, <1>3 DEF SetPercentage, Command, WireValue, Logical
      <2>2. i \in 1 .. Speeds(m) /\ Speeds(m) = IF m \in SixSpeed THEN 6 ELSE 5
            BY <1>3, PurifierKinds, ItemOf DEF IsItem
      <2>3. \/ m \in SixSpeed /\ Family[m] = "A5A0"
            \/ m \notin SixSpeed /\ Family[m] = "F072_X50"
            BY <1>3, Families, PurifierKinds DEF Purifiers
      <2> HIDE DEF i
      <2>4. Encode(m, [op |-> "speed", value |-> i]) = EncodeValue(m, [op |-> "speed", value |-> i])
            BY PurifierKinds DEF Encode
      <2>5. EncodeValue(m, [op |-> "speed", value |-> i]) = [code |-> 82, value |-> i]
            BY <2>2, <2>3 DEF EncodeValue, Values, Code
      <2>6. ASSUME NEW s
            PROVE  Confirms(m, s, [op |-> "speed", value |-> i]) <=> s.speed = i
            BY DEF Confirms
      <2>. QED
            BY <1>3, <2>1, <2>4, <2>5, <2>6 DEF i
<1>. QED
      BY <1>2, <1>3

\* The byte that turns a model on.
OnByte(m) == IF m \in SixSpeed THEN ThirtyFive ELSE Zero

LEMMA PowerCommand ==
    ASSUME NEW m \in Purifiers, NEW v \in {0, 1}
    PROVE  LET c == Command(m, "power", v)
           IN /\ Encode(m, c) = [code |-> 94, value |-> IF v = 1 THEN OnByte(m) ELSE Eleven]
              /\ \A s : Confirms(m, s, c) <=> s.power = (v = 1)
              /\ c.op # "backlight"
<1> DEFINE b == IF v = 1 THEN OnByte(m) ELSE Eleven
<1>1. Command(m, "power", v) = [op |-> "power", value |-> b]
      <2>1. CASE m \in SixSpeed
            BY <2>1 DEF Command, WireValue, Logical, OnByte
      <2>2. CASE m \notin SixSpeed
            BY <2>2 DEF Command, WireValue, Logical, OnByte
      <2>. QED
            BY <2>1, <2>2
<1>2. b \in {Zero, Eleven, ThirtyFive} /\ (b = OnByte(m)) = (v = 1)
      BY DEF OnByte, Zero, Eleven, ThirtyFive
<1>3. \/ m \in SixSpeed /\ Family[m] = "A5A0" /\ b \in {ThirtyFive, Eleven}
      \/ m \notin SixSpeed /\ Family[m] \in {"F072_X50", "F072_G30"} /\ b \in {Zero, Eleven}
      BY Families, PurifierKinds DEF Purifiers, OnByte
<1> HIDE DEF b
<1>4. Encode(m, [op |-> "power", value |-> b]) = [code |-> 94, value |-> b]
      <2>1. Encode(m, [op |-> "power", value |-> b]) = EncodeValue(m, [op |-> "power", value |-> b])
            BY PurifierKinds DEF Encode
      <2>. QED
            BY <1>3, <2>1 DEF EncodeValue, Values, F072Values, Code
<1>5. ASSUME NEW s
      PROVE  Confirms(m, s, [op |-> "power", value |-> b]) <=> s.power = (v = 1)
      <2>1. Confirms(m, s, [op |-> "power", value |-> b]) <=> s.power = (b = OnByte(m))
            BY PurifierKinds DEF Confirms, OnByte
      <2>. QED
            BY <1>2, <2>1
<1>. QED
      BY <1>1, <1>4, <1>5 DEF b

\* What confirms a setting, by its logical value.
SettingConfirms(m, s, op, v) ==
    CASE op = "mode"       -> s.mode = v
      [] op = "timer"      -> s.timer = v
      [] op = "ptc"        -> s.ptc \in {None, v}
      [] op = "child_lock" -> s.lock = (v = 1)
      [] OTHER             -> s.display = (v = 1)

\* What may be chosen of the settings with a table of values.
SettingValues(m) ==
    [mode |-> {Presets(m)[p] : p \in DOMAIN Presets(m) \ {"manual"}}, timer |-> Timers,
     ptc |-> IF m \in Continuous THEN 0 .. 2 ELSE {}, child_lock |-> {0, 1}, display |-> {0, 1}]

SettingByte(m, op, v) ==
    CASE op = "child_lock" -> IF (v = 1) = (m \in SixSpeed) THEN Eleven ELSE Zero
      [] op = "display"    -> IF v = 1 THEN Zero ELSE Eleven
      [] OTHER             -> v

LEMMA PresetValues ==
    ASSUME NEW m \in Purifiers
    PROVE  /\ "manual" \in DOMAIN Presets(m) /\ Presets(m)["manual"] = 4
           /\ \A p \in DOMAIN Presets(m) \ {"manual"} :
                 Presets(m)[p] \in IF m \in Continuous THEN {1, 5} ELSE {1, 2, 3, 5}
           /\ \A p, q \in DOMAIN Presets(m) : Presets(m)[q] = Presets(m)[p] => q = p
<1>1. CASE m \in Continuous
      <2>1. Presets(m) = [auto |-> 1, manual |-> 4, deep_clean |-> 5]
            BY <1>1 DEF Presets, Continuous
      <2>. QED
            BY <1>1, <2>1
<1>2. CASE m \notin Continuous /\ m \in {"X83C", "X50S"}
      <2>1. Presets(m) = [auto |-> 1, manual |-> 4, sleep |-> 2, turbo |-> 3]
            BY <1>2 DEF Presets
      <2>. QED
            BY <1>2, <2>1
<1>3. CASE m \notin Continuous /\ m \notin {"X83C", "X50S"}
      <2>1. Presets(m) = [auto |-> 1, manual |-> 4, sleep |-> 2, turbo |-> 3, deep_clean |-> 5]
            BY <1>3 DEF Presets
      <2>. QED
            BY <1>3, <2>1
<1>. QED
      BY <1>1, <1>2, <1>3

LEMMA SettingCommand ==
    ASSUME NEW m \in Purifiers, NEW op \in DOMAIN SettingValues(m), NEW v \in SettingValues(m)[op]
    PROVE  LET c == Command(m, op, v)
           IN /\ Encode(m, c) = [code |-> Code[op], value |-> SettingByte(m, op, v)]
              /\ \A s : Confirms(m, s, c) <=> SettingConfirms(m, s, op, v)
              /\ c.op # "backlight" /\ SettingByte(m, op, v) \in Nat
<1> DEFINE b == SettingByte(m, op, v)
<1>1. op \in {"mode", "timer", "ptc", "child_lock", "display"}
      BY DEF SettingValues
<1>2. Command(m, op, v) = [op |-> op, value |-> b]
      <2>1. CASE op \in {"mode", "timer", "ptc"}
            BY <2>1 DEF Command, WireValue, Logical, SettingByte
      <2>2. CASE op = "child_lock" /\ m \in SixSpeed
            BY <2>2 DEF Command, WireValue, Logical, SettingByte
      <2>3. CASE op = "child_lock" /\ m \notin SixSpeed
            <3>1. v \in {0, 1}
                  BY <2>3 DEF SettingValues
            <3>. QED
                  BY <2>3, <3>1 DEF Command, WireValue, Logical, SettingByte
      <2>4. CASE op = "display"
            BY <2>4 DEF Command, WireValue, Logical, SettingByte
      <2>. QED
            BY <1>1, <2>1, <2>2, <2>3, <2>4
<1>3. \/ m \in SixSpeed /\ m \notin Continuous /\ Family[m] = "A5A0"
      \/ m \notin SixSpeed /\ m \notin Continuous /\ Family[m] = "F072_X50"
      \/ m \notin SixSpeed /\ m \in Continuous /\ Family[m] = "F072_G30"
      BY Families, PurifierKinds DEF Purifiers
<1>4. op \in DOMAIN Values[Family[m]] /\ b \in Values[Family[m]][op] /\ b \in Nat
      <2>1. CASE op = "mode"
            <3>1. b = v /\ v \in IF m \in Continuous THEN {1, 5} ELSE {1, 2, 3, 5}
                  BY <2>1, PresetValues DEF SettingByte, SettingValues
            <3> HIDE DEF b
            <3>. QED
                  BY <2>1, <3>1, <1>3 DEF Values, F072Values
      <2>2. CASE op = "timer"
            BY <2>2, <1>3 DEF Values, F072Values, SettingByte, SettingValues, Timers
      <2>3. CASE op = "ptc"
            BY <2>3, <1>3 DEF Values, F072Values, SettingByte, SettingValues
      <2>4. CASE op \in {"child_lock", "display"}
            <3>1. b \in {Zero, Eleven}
                  BY <2>4 DEF SettingByte
            <3> HIDE DEF b
            <3>. QED
                  BY <2>4, <3>1, <1>3 DEF Values, F072Values, Zero, Eleven
      <2>. QED
            BY <1>1, <2>1, <2>2, <2>3, <2>4
<1>5. Encode(m, [op |-> op, value |-> b]) = [code |-> Code[op], value |-> b]
      <2> HIDE DEF b
      <2>1. Encode(m, [op |-> op, value |-> b]) = EncodeValue(m, [op |-> op, value |-> b])
            BY <1>1, PurifierKinds DEF Encode
      <2>. QED
            BY <1>4, <2>1 DEF EncodeValue
<1>6. ASSUME NEW s
      PROVE  Confirms(m, s, [op |-> op, value |-> b]) <=> SettingConfirms(m, s, op, v)
      <2>1. CASE op \in {"mode", "timer", "ptc"}
            BY <2>1 DEF Confirms, SettingConfirms, SettingByte
      <2>2. CASE op \in {"child_lock", "display"}
            <3>1. v \in {0, 1}
                  BY <2>2 DEF SettingValues
            <3>2. (v = 1) = (b = IF op = "child_lock" /\ m \in SixSpeed THEN Eleven ELSE Zero)
                  BY <2>2, <3>1 DEF SettingByte, Zero, Eleven
            <3> HIDE DEF b
            <3>3. CASE op = "child_lock"
                  BY <3>3, <3>2, PurifierKinds DEF Confirms, SettingConfirms
            <3>4. CASE op = "display"
                  BY <3>4, <3>2 DEF Confirms, SettingConfirms
            <3>. QED
                  BY <2>2, <3>3, <3>4
      <2>. QED
            BY <1>1, <2>1, <2>2
<1>. QED
      BY <1>1, <1>2, <1>4, <1>5, <1>6

\* How far the percentage shown may be from the one asked for.
Share(m) == IF m \in Continuous THEN 1 ELSE 100 \div Speeds(m)

\* A confirmed percentage is shown within a step, and asks for the same again.
LEMMA PercentageShown ==
    ASSUME NEW m \in Purifiers, NEW p \in 1 .. 100, NEW s, s.power # FALSE,
           Confirms(m, s, SetPercentage(m, p))
    PROVE  LET q == Percentage(m, s)
           IN /\ q \in 1 .. 100 /\ Near(q, p, Share(m))
              /\ Encode(m, SetPercentage(m, q)) = Encode(m, SetPercentage(m, p))
<1> DEFINE q == Percentage(m, s)
<1>0. None \notin Int
      BY NoneAssumption
<1>1. CASE m \in Continuous
      <2> DEFINE span == MaxFlow(m) - MinFlow
      <2>1. span \in Spans /\ MinFlow = 40 /\ \A x \in Int : FlowFor(m, x) = FlowAt(span, x)
            BY <1>1, SpanOf
      <2>2. s.flow = FlowAt(span, p)
            BY <1>1, <2>1, PercentageCommand
      <2>3. q = IF s.flow = None THEN None ELSE PercentAt(span, s.flow)
            BY <1>1, <2>1 DEF Percentage, IsOn, PercentAt
      <2> HIDE DEF q, span
      <2>4. /\ s.flow \in 40 .. 40 + span /\ s.flow % 5 = 0
            BY <2>1, <2>2, FlowRange
      <2>5. s.flow \in Int
            BY <2>1, <2>4 DEF Spans
      <2>6. q = PercentAt(span, s.flow)
            BY <1>0, <2>3, <2>5
      <2>7. q \in 1 .. 100 /\ FlowAt(span, q) = s.flow
            BY <2>1, <2>4, <2>5, <2>6, FlowReturns
      <2>8. Near(q, p, 1)
            BY <2>1, <2>2, <2>6, PercentReturns
      <2>9. FlowFor(m, q) = FlowFor(m, p)
            BY <2>1, <2>2, <2>7
      <2>10. Encode(m, SetPercentage(m, q)) = Encode(m, SetPercentage(m, p))
            <3>1. Encode(m, SetPercentage(m, q)) = [code |-> 88, value |-> FlowFor(m, q)]
                  BY <1>1, <2>7, PercentageCommand
            <3>2. Encode(m, SetPercentage(m, p)) = [code |-> 88, value |-> FlowFor(m, p)]
                  BY <1>1, PercentageCommand
            <3>. QED
                  BY <2>9, <3>1, <3>2
      <2>. QED
            BY <1>1, <2>7, <2>8, <2>10 DEF Share, q
<1>2. CASE m \notin Continuous
      <2> DEFINE n == Speeds(m)
                 i == PercentageItem(p, n)
      <2>1. n \in {5, 6} /\ IsItem(i, p, n) /\ s.speed = i
            <3>1. n \in {5, 6} /\ s.speed = i
                  BY <1>2, PurifierKinds, PercentageCommand
            <3> HIDE DEF n
            <3>. QED
                  BY <3>1, ItemOf
      <2>2. i \in 1 .. n /\ s.speed # None /\ ~(s.speed > n)
            BY <1>0, <2>1 DEF IsItem
      <2>3. q = IF s.speed = None THEN None ELSE IF s.speed > n THEN 100
                ELSE ItemPercentage(s.speed, n)
            BY <1>2 DEF Percentage, IsOn
      <2> HIDE DEF q, n, i
      <2>4. q = ItemPercentage(i, n)
            BY <2>1, <2>2, <2>3
      <2>5. q \in 1 .. 100 /\ PercentageItem(q, n) = i
            BY <2>1, <2>2, <2>4, ItemPercentages
      <2>6. Near(q, p, 100 \div n)
            BY <2>1, <2>4, ItemNear
      <2>7. Encode(m, SetPercentage(m, q)) = [code |-> 82, value |-> PercentageItem(q, n)]
            BY <1>2, <2>5, PercentageCommand DEF n
      <2>8. Encode(m, SetPercentage(m, p)) = [code |-> 82, value |-> i]
            BY <1>2, PercentageCommand DEF n, i
      <2>. QED
            <3>1. Encode(m, SetPercentage(m, q)) = Encode(m, SetPercentage(m, p))
                  BY <2>5, <2>7, <2>8
            <3>2. Share(m) = 100 \div n
                  BY <1>2 DEF Share, n
            <3>. QED
                  BY <2>5, <2>6, <3>1, <3>2 DEF q
<1>. QED
      BY <1>1, <1>2

\* A percentage that was shown is shown again.
LEMMA PercentageKept ==
    ASSUME NEW m \in Purifiers, NEW t, IsState(m, t), Percentage(m, t) \notin {None, 0},
           NEW s, s.power # FALSE, Confirms(m, s, SetPercentage(m, Percentage(m, t)))
    PROVE  Percentage(m, s) = Percentage(m, t)
<1> DEFINE p == Percentage(m, t)
<1>0. None \notin Int
      BY NoneAssumption
<1>1. t.power # FALSE
      BY PercentageKnown
<1>2. p \in 1 .. 100
      <2>1. p \in 0 .. 100 \cup {None} /\ p \notin {None, 0}
            BY PercentageKnown
      <2> HIDE DEF p
      <2>. QED
            BY <2>1
<1>3. CASE m \in Continuous
      <2> DEFINE span == MaxFlow(m) - MinFlow
      <2>1. /\ span \in Spans /\ MinFlow = 40 /\ MaxFlow(m) = 40 + span
            /\ \A x \in Int : FlowFor(m, x) = FlowAt(span, x)
            BY <1>3, SpanOf
      <2>2. p = IF t.flow = None THEN None ELSE PercentAt(span, t.flow)
            BY <1>1, <1>3, <2>1 DEF Percentage, IsOn, PercentAt
      <2>3. Percentage(m, s) = IF s.flow = None THEN None ELSE PercentAt(span, s.flow)
            BY <1>3, <2>1 DEF Percentage, IsOn, PercentAt
      <2>4. s.flow = FlowFor(m, p)
            BY <1>2, <1>3, PercentageCommand
      <2> HIDE DEF p, span
      <2>5. t.flow # None
            BY <1>0, <1>2, <2>2
      <2>6. t.flow \in MinFlow .. MaxFlow(m) /\ t.flow % 5 = 0
            BY <1>3, <2>5 DEF IsState
      <2>7. t.flow \in Int /\ t.flow \in 40 .. 40 + span
            BY <2>1, <2>6 DEF Spans
      <2>8. FlowAt(span, p) = t.flow
            BY <2>1, <2>2, <2>5, <2>6, <2>7, FlowReturns
      <2>9. s.flow = t.flow
            BY <1>2, <2>1, <2>4, <2>8
      <2>. QED
            BY <2>2, <2>3, <2>9 DEF p
<1>4. CASE m \notin Continuous
      <2> DEFINE n == Speeds(m)
      <2>1. n \in {5, 6} /\ s.speed = PercentageItem(p, n)
            BY <1>2, <1>4, PurifierKinds, PercentageCommand
      <2>2. p = IF t.speed = None THEN None ELSE IF t.speed > n THEN 100
                ELSE ItemPercentage(t.speed, n)
            BY <1>1, <1>4 DEF Percentage, IsOn
      <2>3. Percentage(m, s) = IF s.speed = None THEN None ELSE IF s.speed > n THEN 100
                ELSE ItemPercentage(s.speed, n)
            BY <1>4 DEF Percentage, IsOn
      <2>4. t.speed \in 1 .. 6 \cup {None}
            BY <1>4 DEF IsState, Purifiers
      <2> HIDE DEF p, n
      <2>5. t.speed \in 1 .. 6
            BY <1>0, <1>2, <2>2, <2>4
      <2>6. \E j \in 1 .. n : p = ItemPercentage(j, n)
            <3>1. CASE t.speed > n
                  <4>1. p = 100
                        BY <2>2, <2>5, <1>0, <3>1
                  <4>2. n \in 1 .. n
                        BY <2>1
                  <4>. QED
                        BY <2>1, <4>1, <4>2, ItemPercentages
            <3>2. CASE ~(t.speed > n)
                  <4>1. t.speed \in 1 .. n
                        BY <2>1, <2>5, <3>2
                  <4>2. p = ItemPercentage(t.speed, n)
                        BY <2>2, <2>5, <1>0, <3>2
                  <4>. QED
                        BY <4>1, <4>2
            <3>. QED
                  BY <3>1, <3>2
      <2>7. PICK j \in 1 .. n : p = ItemPercentage(j, n)
            BY <2>6
      <2>8. s.speed = j
            BY <2>1, <2>7, ItemPercentages
      <2>9. s.speed # None /\ ~(s.speed > n)
            BY <1>0, <2>1, <2>7, <2>8
      <2>. QED
            BY <2>3, <2>7, <2>8, <2>9 DEF p
<1>. QED
      BY <1>3, <1>4

-----------------------------------------------------------------------------
(* What a step asks for, and what the entities show then                    *)

PercentageOf(m, b, step) ==
    IF step.service = "set_percentage" THEN step.value ELSE ManualPercentage(m, b)

\* A step of a purifier asks for power, for a percentage or for a setting.
Power(m, c, step) ==
    \/ step.service \in {"turn_on", "turn_on_at", "turn_on_in"} /\ c = Command(m, "power", 1)
    \/ step.service = "turn_off" /\ c = Command(m, "power", 0)
    \/ step.service = "set_percentage" /\ step.value = 0 /\ c = Command(m, "power", 0)

Percent(m, b, c, step) ==
    /\ \/ step.service = "set_percentage" /\ step.value \in 1 .. 100
       \/ step.service = "set_preset_mode" /\ step.preset = "manual"
    /\ PercentageOf(m, b, step) \in 1 .. 100
    /\ c = SetPercentage(m, PercentageOf(m, b, step))

Preset(m, c, step) ==
    /\ step.service = "set_preset_mode" /\ step.preset \in DOMAIN Presets(m) \ {"manual"}
    /\ Presets(m)[step.preset] \in SettingValues(m)["mode"]
    /\ c = Command(m, "mode", Presets(m)[step.preset])

Setting(m, c, step) ==
    /\ step.service \in {"child_lock", "display", "timer", "ptc"}
    /\ step.value \in SettingValues(m)[step.service]
    /\ c = Command(m, step.service, step.value)

LEMMA StepAsks ==
    ASSUME NEW m \in Purifiers, NEW b, IsState(m, b), NEW step \in Services(m, 0 .. 100)
    PROVE  LET c == CommandOf(m, b, step)
           IN Power(m, c, step) \/ Percent(m, b, c, step) \/ Preset(m, c, step) \/ Setting(m, c, step)
<1> DEFINE c == CommandOf(m, b, step)
<1>1. \/ step.service \in {"turn_on", "turn_off"}
      \/ step.service \in {"turn_on_at", "set_percentage"} /\ step.value \in 0 .. 100
      \/ step.service \in {"turn_on_in", "set_preset_mode"} /\ step.preset \in DOMAIN Presets(m)
      \/ step.service \in {"child_lock", "display"} /\ step.value \in {0, 1}
      \/ step.service = "timer" /\ step.value \in Timers
      \/ step.service = "ptc" /\ step.value \in 0 .. 2 /\ m \in Continuous
      BY PurifierKinds DEF Services
<1>2. CASE step.service \in {"turn_on", "turn_on_at", "turn_on_in", "turn_off"}
      BY <1>2 DEF CommandOf, Power
<1>3. CASE step.service = "set_percentage"
      <2>1. c = SetPercentage(m, step.value) /\ step.value \in 0 .. 100
            BY <1>1, <1>3 DEF CommandOf
      <2>2. CASE step.value = 0
            BY <1>3, <2>1, <2>2 DEF SetPercentage, Power
      <2>3. CASE step.value # 0
            BY <1>3, <2>1, <2>3 DEF Percent, PercentageOf
      <2>. QED
            BY <2>2, <2>3
<1>4. CASE step.service = "set_preset_mode"
      <2>1. c = SetPreset(m, b, step.preset) /\ step.preset \in DOMAIN Presets(m)
            BY <1>1, <1>4 DEF CommandOf
      <2>2. CASE step.preset = "manual"
            <3>1. PercentageOf(m, b, step) = ManualPercentage(m, b)
                  BY <1>4 DEF PercentageOf
            <3>2. ManualPercentage(m, b) \in 1 .. 100
                  BY PercentageKnown
            <3>. QED
                  BY <1>4, <2>1, <2>2, <3>1, <3>2 DEF SetPreset, Percent
      <2>3. CASE step.preset # "manual"
            BY <1>4, <2>1, <2>3 DEF SetPreset, Preset, SettingValues
      <2>. QED
            BY <2>2, <2>3
<1>5. CASE step.service \in {"child_lock", "display", "timer", "ptc"}
      <2>1. c = Command(m, step.service, step.value)
            BY <1>5 DEF CommandOf
      <2>2. step.value \in SettingValues(m)[step.service]
            BY <1>1, <1>5 DEF SettingValues
      <2>. QED
            BY <1>5, <2>1, <2>2 DEF Setting
<1>. QED
      BY <1>1, <1>2, <1>3, <1>4, <1>5

LEMMA PresetShown ==
    ASSUME NEW m \in Purifiers, NEW p \in DOMAIN Presets(m), NEW s,
           s.mode = Presets(m)[p], s.power # FALSE
    PROVE  PresetMode(m, s) = p
<1>1. PresetMode(m, s) = CHOOSE q \in DOMAIN Presets(m) : Presets(m)[q] = s.mode
      BY DEF PresetMode, IsOn
<1>2. \A q \in DOMAIN Presets(m) : Presets(m)[q] = s.mode <=> q = p
      BY PresetValues
<1>. QED
      BY <1>1, <1>2

\* A confirmed step shows what was asked for.
LEMMA ConfirmedIsShown ==
    ASSUME NEW m \in Purifiers, NEW s, NEW b, IsState(m, b),
           NEW step \in Services(m, 0 .. 100), Confirms(m, s, CommandOf(m, b, step))
    PROVE  Shows(m, s, b, step)
<1> DEFINE c == CommandOf(m, b, step)
<1>1. CASE Power(m, c, step)
      <2>1. CASE step.service \in {"turn_on", "turn_on_at", "turn_on_in"}
            <3>1. c = Command(m, "power", 1)
                  BY <1>1, <2>1 DEF Power
            <3>2. s.power = (1 = 1)
                  BY <3>1, PowerCommand
            <3>. QED
                  BY <2>1, <3>2 DEF Shows, IsOn
      <2>2. CASE step.service = "turn_off"
            <3>1. c = Command(m, "power", 0)
                  BY <1>1, <2>2 DEF Power
            <3>2. s.power = (0 = 1)
                  BY <3>1, PowerCommand
            <3>3. 0 # 1
                  OBVIOUS
            <3>4. s.power = FALSE
                  BY <3>2, <3>3, Zenon
            <3>. QED
                  BY <2>2, <3>4 DEF Shows, IsOn
      <2>3. CASE step.service = "set_percentage" /\ step.value = 0
            <3>1. c = Command(m, "power", 0)
                  BY <1>1, <2>3 DEF Power
            <3>2. s.power = (0 = 1)
                  BY <3>1, PowerCommand
            <3>3. 0 # 1
                  OBVIOUS
            <3>4. s.power = FALSE
                  BY <3>2, <3>3, Zenon
            <3>. QED
                  BY <2>3, <3>4 DEF Shows, IsOn
      <2>. QED
            BY <1>1, <2>1, <2>2, <2>3 DEF Power
<1>2. CASE Percent(m, b, c, step)
      <2> DEFINE p == PercentageOf(m, b, step)
      <2>1. p \in 1 .. 100 /\ Confirms(m, s, SetPercentage(m, p))
            BY <1>2 DEF Percent
      <2>2. CASE s.power = FALSE
            BY <1>2, <2>2 DEF Percent, Shows, IsOn
      <2>3. CASE s.power # FALSE /\ step.service = "set_percentage"
            <3>1. p = step.value
                  BY <2>3 DEF PercentageOf
            <3>2. Near(Percentage(m, s), step.value, Share(m))
                  BY <2>1, <2>3, <3>1, PercentageShown
            <3>3. ~(step.value = 0)
                  BY <2>1, <3>1
            <3>. QED
                  BY <2>3, <3>2, <3>3 DEF Shows, IsOn, Share
      <2>4. CASE s.power # FALSE /\ step.service = "set_preset_mode" /\ step.preset = "manual"
            <3>1. ASSUME Percentage(m, b) \notin {None, 0}
                  PROVE  Percentage(m, s) = Percentage(m, b)
                  <4>1. p = Percentage(m, b)
                        BY <2>4, <3>1 DEF PercentageOf, ManualPercentage
                  <4>. QED
                        BY <2>1, <2>4, <3>1, <4>1, PercentageKept
            <3>. QED
                  BY <2>4, <3>1 DEF Shows, IsOn
      <2>. QED
            BY <1>2, <2>2, <2>3, <2>4 DEF Percent
<1>3. CASE Preset(m, c, step)
      <2>1. s.mode = Presets(m)[step.preset]
            <3>1. c = Command(m, "mode", Presets(m)[step.preset])
                  BY <1>3 DEF Preset
            <3>2. "mode" \in DOMAIN SettingValues(m)
                  BY DEF SettingValues
            <3>3. SettingConfirms(m, s, "mode", Presets(m)[step.preset])
                  BY <1>3, <3>1, <3>2, SettingCommand DEF Preset
            <3>. QED
                  BY <3>3 DEF SettingConfirms
      <2>2. s.power # FALSE => PresetMode(m, s) = step.preset
            BY <1>3, <2>1, PresetShown DEF Preset
      <2>. QED
            BY <1>3, <2>2 DEF Preset, Shows, IsOn
<1>4. CASE Setting(m, c, step)
      <2>1. SettingConfirms(m, s, step.service, step.value)
            BY <1>4, SettingCommand DEF Setting, SettingValues
      <2>. QED
            BY <1>4, <2>1 DEF Setting, Shows, SettingConfirms
<1>. QED
      BY <1>1, <1>2, <1>3, <1>4, StepAsks

-----------------------------------------------------------------------------
(* A device that obeys                                                      *)

Names == {"mode", "profile", "speed", "timer", "lock", "display", "power", "ptc", "flow", "pm25"}

\* The registers of a purifier, and a change of one or of the mode as well.
LEMMA RegistersAre ==
    ASSUME NEW m \in Purifiers
    PROVE  Registers(m) = [Names -> Nat]
<1>1. ASSUME NEW r \in [mode : Nat, profile : Nat, speed : Nat, timer : Nat, lock : Nat,
             display : Nat, power : Nat, ptc : Nat, flow : Nat, pm25 : Nat]
      PROVE  r \in [Names -> Nat]
      BY DEF Names
<1>2. ASSUME NEW r \in [Names -> Nat]
      PROVE  r \in [mode : Nat, profile : Nat, speed : Nat, timer : Nat, lock : Nat,
             display : Nat, power : Nat, ptc : Nat, flow : Nat, pm25 : Nat]
      BY DEF Names
<1>. QED
      BY <1>1, <1>2, PurifierKinds

Turned(r, g, b) == [r EXCEPT ![g] = b]

TurnedManual(r, g, b) == [r EXCEPT ![g] = b, !.mode = 4]

LEMMA TurnedOnce ==
    ASSUME NEW m \in Purifiers, NEW r \in Registers(m), NEW g \in Names, NEW b \in Nat
    PROVE  LET o == Turned(r, g, b)
           IN /\ o \in Registers(m) /\ o[g] = b
              /\ \A h \in Names : h # g => o[h] = r[h]
              /\ Turned(o, g, b) = o
<1> DEFINE o == Turned(r, g, b)
<1>1. r \in [Names -> Nat]
      BY RegistersAre
<1>2. o \in [Names -> Nat] /\ o[g] = b /\ \A h \in Names : h # g => o[h] = r[h]
      BY <1>1 DEF Turned
<1> HIDE DEF o
<1>3. Turned(o, g, b) = o
      BY <1>2 DEF Turned
<1>. QED
      BY <1>2, <1>3, RegistersAre DEF o

LEMMA TurnedTwice ==
    ASSUME NEW m \in Purifiers, NEW r \in Registers(m), NEW g \in Names \ {"mode"}, NEW b \in Nat
    PROVE  LET o == TurnedManual(r, g, b)
           IN /\ o \in Registers(m) /\ o[g] = b /\ o.mode = 4
              /\ \A h \in Names \ {g, "mode"} : o[h] = r[h]
              /\ TurnedManual(o, g, b) = o
<1> DEFINE o == TurnedManual(r, g, b)
<1>1. r \in [Names -> Nat] /\ "mode" \in Names
      BY RegistersAre DEF Names
<1>2. /\ o \in [Names -> Nat] /\ o[g] = b /\ o.mode = 4
      /\ \A h \in Names \ {g, "mode"} : o[h] = r[h]
      BY <1>1 DEF TurnedManual
<1> HIDE DEF o
<1>3. TurnedManual(o, g, b) = o
      BY <1>1, <1>2 DEF TurnedManual
<1>. QED
      BY <1>2, <1>3, RegistersAre DEF o

\* What a device does that has obeyed a frame.
LEMMA ObeyedPower ==
    ASSUME NEW m \in Purifiers, NEW r \in Registers(m), NEW v \in {0, 1}
    PROVE  LET c == Command(m, "power", v)
               o == Obey(r, Encode(m, c))
           IN /\ o \in Registers(m) /\ Obey(o, Encode(m, c)) = o
              /\ Decode(m, o).power = (v = 1)
<1> DEFINE c == Command(m, "power", v)
           f == Encode(m, c)
           o == Obey(r, f)
           b == IF v = 1 THEN Zero ELSE Eleven
<1>1. \A x : Obey(x, f) = Turned(x, "power", b)
      BY PowerCommand DEF Turned, Obey, Code, OnByte, Zero, Eleven, ThirtyFive
<1>2. b \in Nat
      BY DEF Zero, Eleven
<1>3. o = Turned(r, "power", b) /\ Obey(o, f) = Turned(o, "power", b)
      BY <1>1
<1> HIDE DEF c, f, o
<1>4. TrueIfZero(b) = (v = 1)
      <2>1. CASE v = 1
            <3>1. TrueIfZero(b) = TRUE
                  BY <2>1 DEF TrueIfZero
            <3>. QED
                  BY <2>1, <3>1, Zenon
      <2>2. CASE v = 0
            <3>1. TrueIfZero(b) = FALSE /\ v # 1
                  BY <2>2 DEF TrueIfZero, Zero, Eleven
            <3>. QED
                  BY <3>1, Zenon
      <2>. QED
            BY <2>1, <2>2
<1> HIDE DEF b
<1>5. o \in Registers(m) /\ Obey(o, f) = o /\ o.power = b
      <2>1. LET t == Turned(r, "power", b)
            IN t \in Registers(m) /\ t["power"] = b /\ Turned(t, "power", b) = t
            BY <1>2, TurnedOnce DEF Names
      <2>. QED
            BY <1>3, <2>1
<1>6. Decode(m, o).power = TrueIfZero(b)
      BY <1>5, DecodesPurifier DEF Reads
<1>. QED
      BY <1>4, <1>5, <1>6 DEF c, f, o

LEMMA ObeyedPercentage ==
    ASSUME NEW m \in Purifiers, NEW r \in Registers(m), NEW p \in 1 .. 100
    PROVE  LET c == SetPercentage(m, p)
               o == Obey(r, Encode(m, c))
               s == Decode(m, o)
           IN /\ o \in Registers(m) /\ Obey(o, Encode(m, c)) = o
              /\ Confirms(m, s, c) /\ s.mode = 4 /\ s.power = TrueIfZero(r.power)
<1> DEFINE c == SetPercentage(m, p)
           f == Encode(m, c)
           o == Obey(r, f)
           s == Decode(m, o)
           x == FlowFor(m, p)
           i == PercentageItem(p, Speeds(m))
<1>1. CASE m \in Continuous
      <2>1. \A y : Obey(y, f) = TurnedManual(y, "flow", x)
            <3>1. f = [code |-> 88, value |-> x]
                  BY <1>1, PercentageCommand
            <3> HIDE DEF f, x
            <3>2. \A y : Obey(y, f) = [y EXCEPT !.flow = x, !.mode = 4]
                  BY <3>1 DEF Obey, Code
            <3>. QED
                  BY <3>2 DEF TurnedManual
      <2>2. o = TurnedManual(r, "flow", x) /\ Obey(o, f) = TurnedManual(o, "flow", x)
            BY <2>1
      <2>3. x \in MinFlow .. MaxFlow(m) /\ x % 5 = 0 /\ x \in Nat
            <3> DEFINE span == MaxFlow(m) - MinFlow
            <3>1. span \in Spans /\ MinFlow = 40 /\ MaxFlow(m) = 40 + span /\ x = FlowAt(span, p)
                  BY <1>1, SpanOf
            <3> HIDE DEF span, x
            <3>2. x \in 40 .. 40 + span /\ x % 5 = 0
                  BY <3>1, FlowRange
            <3>. QED
                  BY <3>1, <3>2 DEF Spans
      <2>4. Confirms(m, s, c) <=> s.flow = x
            BY <1>1, PercentageCommand
      <2> HIDE DEF c, f, o, s, x
      <2>5. o \in Registers(m) /\ Obey(o, f) = o /\ o.flow = x /\ o.mode = 4 /\ o.power = r.power
            BY <2>2, <2>3, TurnedTwice DEF Names
      <2>6. Reads(m, o, s)
            BY <2>5, DecodesPurifier DEF s
      <2>7. s.flow = x /\ s.mode = 4 /\ s.power = TrueIfZero(r.power)
            BY <1>1, <2>3, <2>5, <2>6 DEF Reads
      <2>. QED
            BY <2>4, <2>5, <2>7 DEF c, f, o, s
<1>2. CASE m \notin Continuous
      <2>1. \A y : Obey(y, f) = TurnedManual(y, "speed", i)
            <3>1. f = [code |-> 82, value |-> i]
                  BY <1>2, PercentageCommand
            <3> HIDE DEF f, i
            <3>2. \A y : Obey(y, f) = [y EXCEPT !.speed = i, !.mode = 4]
                  BY <3>1 DEF Obey, Code
            <3>. QED
                  BY <3>2 DEF TurnedManual
      <2>2. o = TurnedManual(r, "speed", i) /\ Obey(o, f) = TurnedManual(o, "speed", i)
            BY <2>1
      <2>3. i \in 1 .. 6
            <3>1. IsItem(i, p, Speeds(m)) /\ Speeds(m) \in {5, 6}
                  BY <1>2, PurifierKinds, ItemOf
            <3>. QED
                  BY <3>1 DEF IsItem
      <2>4. Confirms(m, s, c) <=> s.speed = i
            BY <1>2, PercentageCommand
      <2> HIDE DEF c, f, o, s, i
      <2>5. o \in Registers(m) /\ Obey(o, f) = o /\ o.speed = i /\ o.mode = 4 /\ o.power = r.power
            BY <2>2, <2>3, TurnedTwice DEF Names
      <2>6. Reads(m, o, s)
            BY <2>5, DecodesPurifier DEF s
      <2>7. s.speed = i /\ s.mode = 4 /\ s.power = TrueIfZero(r.power)
            BY <1>2, <2>3, <2>5, <2>6 DEF Reads, Known
      <2>. QED
            BY <2>4, <2>5, <2>7 DEF c, f, o, s
<1>. QED
      BY <1>1, <1>2

\* The register of a setting.
Register == [mode |-> "mode", timer |-> "timer", ptc |-> "ptc", child_lock |-> "lock",
             display |-> "display"]

LEMMA ObeyedSetting ==
    ASSUME NEW m \in Purifiers, NEW r \in Registers(m),
           NEW op \in DOMAIN SettingValues(m), NEW v \in SettingValues(m)[op]
    PROVE  LET c == Command(m, op, v)
               o == Obey(r, Encode(m, c))
               s == Decode(m, o)
           IN /\ o \in Registers(m) /\ Obey(o, Encode(m, c)) = o
              /\ Confirms(m, s, c) /\ (op = "ptc" => s.ptc = v) /\ (op = "mode" => s.mode = v)
<1> DEFINE c == Command(m, op, v)
           f == Encode(m, c)
           o == Obey(r, f)
           s == Decode(m, o)
           b == SettingByte(m, op, v)
           g == Register[op]
<1>0. op \in {"mode", "timer", "ptc", "child_lock", "display"}
      BY DEF SettingValues
<1>1. f = [code |-> Code[op], value |-> b] /\ (Confirms(m, s, c) <=> SettingConfirms(m, s, op, v))
      /\ b \in Nat
      BY SettingCommand
<1>2. \A y : Obey(y, f) = Turned(y, g, b)
      BY <1>0, <1>1 DEF Turned, Obey, Code, Register
<1>3. o = Turned(r, g, b) /\ Obey(o, f) = Turned(o, g, b)
      BY <1>2
<1>4. g \in {"mode", "timer", "ptc", "lock", "display"}
      BY <1>0 DEF Register
<1> HIDE DEF c, f, o, s, b, g
<1>5. o \in Registers(m) /\ Obey(o, f) = o /\ o[g] = b
      <2>1. LET t == Turned(r, g, b)
            IN t \in Registers(m) /\ t[g] = b /\ Turned(t, g, b) = t
            <3>1. g \in Names /\ b \in Nat
                  BY <1>1, <1>4 DEF Names
            <3>. QED
                  BY <3>1, TurnedOnce
      <2>. QED
            BY <1>3, <2>1
<1>6. Reads(m, o, s)
      BY <1>5, DecodesPurifier DEF s
<1>7. SettingConfirms(m, s, op, v) /\ (op = "ptc" => s.ptc = v) /\ (op = "mode" => s.mode = v)
      <2>1. CASE op = "mode"
            BY <2>1, <1>5, <1>6 DEF Reads, SettingConfirms, b, g, SettingByte, Register
      <2>2. CASE op = "timer"
            <3>1. v \in Timers /\ o.timer = v
                  BY <2>2, <1>5 DEF SettingValues, b, g, SettingByte, Register
            <3>. QED
                  BY <2>2, <3>1, <1>6 DEF Reads, SettingConfirms, Known
      <2>3. CASE op = "ptc"
            <3>1. v \in 0 .. 2 /\ o.ptc = v /\ m \in Continuous
                  BY <2>3, <1>5 DEF SettingValues, b, g, SettingByte, Register
            <3>. QED
                  BY <2>3, <3>1, <1>6 DEF Reads, SettingConfirms, Known
      <2>4. CASE op = "child_lock"
            <3>1. v \in {0, 1} /\ o.lock = b /\ b = IF (v = 1) = (m \in SixSpeed) THEN Eleven ELSE Zero
                  BY <2>4, <1>5 DEF SettingValues, b, g, SettingByte, Register
            <3>2. s.lock = IF m \in SixSpeed THEN TrueIfEleven(b) ELSE TrueIfZero(b)
                  BY <3>1, <1>6 DEF Reads
            <3>3. s.lock = (v = 1)
                  <4>1. CASE v = 1
                        <5>1. s.lock = TRUE
                              BY <4>1, <3>1, <3>2 DEF TrueIfEleven, TrueIfZero, Zero, Eleven
                        <5>. QED
                              BY <4>1, <5>1, Zenon
                  <4>2. CASE v = 0
                        <5>1. s.lock = FALSE /\ v # 1
                              BY <4>2, <3>1, <3>2 DEF TrueIfEleven, TrueIfZero, Zero, Eleven
                        <5>. QED
                              BY <5>1, Zenon
                  <4>. QED
                        BY <3>1, <4>1, <4>2
            <3>. QED
                  BY <2>4, <3>3 DEF SettingConfirms
      <2>5. CASE op = "display"
            <3>1. v \in {0, 1} /\ o.display = b /\ b = IF v = 1 THEN Zero ELSE Eleven
                  BY <2>5, <1>5 DEF SettingValues, b, g, SettingByte, Register
            <3>2. s.display = (v = 1)
                  <4>1. s.display = TrueIfZero(b)
                        BY <3>1, <1>6 DEF Reads
                  <4>2. CASE v = 1
                        <5>1. s.display = TRUE
                              BY <4>1, <4>2, <3>1 DEF TrueIfZero
                        <5>. QED
                              BY <4>2, <5>1, Zenon
                  <4>3. CASE v = 0
                        <5>1. s.display = FALSE /\ v # 1
                              BY <4>1, <4>3, <3>1 DEF TrueIfZero, Zero, Eleven
                        <5>. QED
                              BY <5>1, Zenon
                  <4>. QED
                        BY <3>1, <4>2, <4>3
            <3>. QED
                  BY <2>5, <3>2 DEF SettingConfirms
      <2>. QED
            BY <1>0, <2>1, <2>2, <2>3, <2>4, <2>5
<1>. QED
      BY <1>1, <1>5, <1>7 DEF c, f, o, s

LEMMA FrameIsSome ==
    ASSUME NEW k \in Int, NEW v \in Int
    PROVE  [code |-> k, value |-> v] # None
    BY NoneAssumption

\* A purifier that has obeyed a step's frame does nothing new if it is sent again,
\* reports what confirms the step, and shows all that was asked for.
LEMMA PurifierObeys ==
    ASSUME NEW m \in Purifiers, NEW b, IsState(m, b), NEW step \in Services(m, 0 .. 100),
           NEW r \in Registers(m)
    PROVE  LET c == CommandOf(m, b, step)
               f == Encode(m, c)
               o == Obey(r, f)
               s == Decode(m, o)
           IN /\ f # None /\ c.op # "backlight"
              /\ o \in Registers(m) /\ Obey(o, f) = o
              /\ Confirms(m, s, c) /\ ShowsAll(m, s, b, step)
<1> DEFINE c == CommandOf(m, b, step)
           f == Encode(m, c)
           o == Obey(r, f)
           s == Decode(m, o)
<1>1. Confirms(m, s, c) => Shows(m, s, b, step)
      BY ConfirmedIsShown
<1>2. CASE Power(m, c, step)
      <2>1. PICK v \in {0, 1} : c = Command(m, "power", v)
            BY <1>2 DEF Power
      <2>2. f = [code |-> 94, value |-> IF v = 1 THEN OnByte(m) ELSE Eleven] /\ c.op # "backlight"
            BY <2>1, PowerCommand
      <2>3. f # None
            BY <2>2, FrameIsSome DEF OnByte, Zero, Eleven, ThirtyFive
      <2>4. o \in Registers(m) /\ Obey(o, f) = o /\ s.power = (v = 1)
            BY <2>1, ObeyedPower
      <2>5. Confirms(m, s, c)
            BY <2>1, <2>4, PowerCommand
      <2>6. ShowsAll(m, s, b, step)
            <3>1. ~(step.service = "set_percentage" /\ step.value > 0)
                  BY <1>2 DEF Power
            <3>2. step.service # "set_preset_mode" /\ step.service # "ptc"
                  BY <1>2 DEF Power
            <3>. QED
                  BY <1>1, <2>5, <3>1, <3>2 DEF ShowsAll
      <2>. QED
            BY <2>2, <2>3, <2>4, <2>5, <2>6
<1>3. CASE Percent(m, b, c, step)
      <2> DEFINE p == PercentageOf(m, b, step)
      <2>1. p \in 1 .. 100 /\ c = SetPercentage(m, p)
            BY <1>3 DEF Percent
      <2> HIDE DEF p
      <2>2. f # None /\ c.op # "backlight"
            <3>1. CASE m \in Continuous
                  <4>1. f = [code |-> 88, value |-> FlowFor(m, p)] /\ c.op # "backlight"
                        BY <2>1, <3>1, PercentageCommand, SMTT(60)
                  <4>2. FlowFor(m, p) \in Int
                        <5> DEFINE span == MaxFlow(m) - MinFlow
                        <5>1. span \in Spans /\ FlowFor(m, p) = FlowAt(span, p)
                              BY <2>1, <3>1, SpanOf
                        <5> HIDE DEF span
                        <5>2. FlowAt(span, p) \in 40 .. 40 + span
                              BY <2>1, <5>1, FlowRange
                        <5>. QED
                              BY <5>1, <5>2 DEF Spans
                  <4>. QED
                        BY <4>1, <4>2, FrameIsSome
            <3>2. CASE m \notin Continuous
                  <4>1. /\ f = [code |-> 82, value |-> PercentageItem(p, Speeds(m))]
                        /\ c.op # "backlight"
                        BY <2>1, <3>2, PercentageCommand, SMTT(60)
                  <4>2. PercentageItem(p, Speeds(m)) \in Int
                        BY <2>1, <3>2, ItemOf, PurifierKinds DEF IsItem
                  <4>. QED
                        BY <4>1, <4>2, FrameIsSome
            <3>. QED
                  BY <3>1, <3>2
      <2>3. o \in Registers(m) /\ Obey(o, f) = o /\ Confirms(m, s, c) /\ s.mode = 4
            <3> DEFINE w == Obey(r, Encode(m, SetPercentage(m, p)))
            <3>1. /\ w \in Registers(m) /\ Obey(w, Encode(m, SetPercentage(m, p))) = w
                  /\ Confirms(m, Decode(m, w), SetPercentage(m, p)) /\ Decode(m, w).mode = 4
                  BY <2>1, ObeyedPercentage
            <3>. QED
                  BY <2>1, <3>1
      <2>4. ShowsAll(m, s, b, step)
            <3>1. IsOn(s) = FALSE \/ PresetMode(m, s) = "manual"
                  <4>1. /\ "manual" \in DOMAIN Presets(m) /\ s.mode = Presets(m)["manual"]
                        BY <2>3, PresetValues
                  <4> HIDE DEF s
                  <4>. QED
                        BY <4>1, PresetShown DEF IsOn
            <3>2. step.service # "ptc"
                  BY <1>3 DEF Percent
            <3>. QED
                  BY <1>1, <2>3, <3>1, <3>2 DEF ShowsAll
      <2>. QED
            BY <2>2, <2>3, <2>4
<1>4. CASE Preset(m, c, step)
      <2> DEFINE v == Presets(m)[step.preset]
      <2>1. v \in SettingValues(m)["mode"] /\ c = Command(m, "mode", v)
            BY <1>4 DEF Preset
      <2>2. "mode" \in DOMAIN SettingValues(m)
            BY DEF SettingValues
      <2> HIDE DEF v
      <2>3. /\ f = [code |-> Code["mode"], value |-> SettingByte(m, "mode", v)]
            /\ c.op # "backlight" /\ SettingByte(m, "mode", v) \in Nat
            BY <2>1, <2>2, SettingCommand
      <2>4. f # None
            BY <2>3, FrameIsSome DEF Code
      <2>5. o \in Registers(m) /\ Obey(o, f) = o /\ Confirms(m, s, c)
            BY <2>1, <2>2, ObeyedSetting
      <2>6. ShowsAll(m, s, b, step)
            BY <1>1, <1>4, <2>5 DEF ShowsAll, Preset
      <2>. QED
            BY <2>3, <2>4, <2>5, <2>6
<1>5. CASE Setting(m, c, step)
      <2> DEFINE op == step.service
                 v == step.value
      <2>1. /\ op \in {"child_lock", "display", "timer", "ptc"}
            /\ v \in SettingValues(m)[op] /\ c = Command(m, op, v)
            BY <1>5 DEF Setting
      <2>2. op \in DOMAIN SettingValues(m)
            BY <2>1 DEF SettingValues
      <2> HIDE DEF v, op
      <2>3. /\ f = [code |-> Code[op], value |-> SettingByte(m, op, v)]
            /\ c.op # "backlight" /\ SettingByte(m, op, v) \in Nat
            BY <2>1, <2>2, SettingCommand
      <2>4. f # None
            BY <2>1, <2>3, FrameIsSome DEF Code
      <2>5. o \in Registers(m) /\ Obey(o, f) = o /\ Confirms(m, s, c) /\ (op = "ptc" => s.ptc = v)
            BY <2>1, <2>2, ObeyedSetting
      <2>6. ShowsAll(m, s, b, step)
            BY <1>1, <2>1, <2>5 DEF ShowsAll, op, v
      <2>. QED
            BY <2>3, <2>4, <2>5, <2>6
<1>. QED
      BY <1>2, <1>3, <1>4, <1>5, StepAsks

LEMMA DetectorSteps ==
    ASSUME NEW step \in Services("M25", 0 .. 100), NEW b
    PROVE  LET c == CommandOf("M25", b, step)
           IN /\ step.service = "backlight" /\ step.value \in {0, 1}
              /\ Encode("M25", c) = [code |-> 163, value |-> step.value]
              /\ \A s : Confirms("M25", s, c) <=> s.backlight = step.value
              /\ c.op = "backlight" /\ Rest(step) = None
<1>1. step.service = "backlight" /\ step.value \in {0, 1}
      BY DEF Services
<1>2. CommandOf("M25", b, step) = [op |-> "backlight", value |-> step.value]
      BY <1>1 DEF CommandOf, Command, WireValue, Logical
<1>3. "M25" \in Models /\ Family["M25"] = "M25"
      BY Families DEF Models
<1>4. Encode("M25", [op |-> "backlight", value |-> step.value])
      = EncodeBacklight([op |-> "backlight", value |-> step.value])
      BY <1>3, Families DEF Encode
<1>5. EncodeBacklight([op |-> "backlight", value |-> step.value])
      = [code |-> 163, value |-> step.value]
      BY <1>1 DEF EncodeBacklight
<1>6. \A s : Confirms("M25", s, [op |-> "backlight", value |-> step.value])
            <=> s.backlight = step.value
      BY DEF Confirms
<1>7. Rest(step) = None
      BY <1>1 DEF Rest
<1>. QED
      BY <1>1, <1>2, <1>4, <1>5, <1>6, <1>7

LEMMA DetectorObeys ==
    ASSUME NEW b, NEW step \in Services("M25", 0 .. 100), NEW r \in Registers("M25")
    PROVE  LET f == Encode("M25", CommandOf("M25", b, step))
               o == Obey(r, f)
           IN /\ f # None /\ o \in Registers("M25") /\ Obey(o, f) = o
              /\ o.backlight = step.value
<1> DEFINE f == Encode("M25", CommandOf("M25", b, step))
           v == step.value
           o == Obey(r, f)
<1>1. f = [code |-> 163, value |-> v] /\ v \in {0, 1}
      BY DetectorSteps
<1> HIDE DEF f, v
<1>2. f # None
      BY <1>1, FrameIsSome
<1>3. \A x : Obey(x, f) = [x EXCEPT !.backlight = v]
      BY <1>1 DEF Obey, Code
<1>4. r \in [pm25 : Nat, backlight : {0, 1}]
      BY DEF Registers
<1>5. o = [r EXCEPT !.backlight = v] /\ Obey(o, f) = [o EXCEPT !.backlight = v]
      BY <1>3
<1> HIDE DEF o
<1>6. o = [pm25 |-> r.pm25, backlight |-> v]
      BY <1>4, <1>5
<1>7. Obey(o, f) = o /\ o \in [pm25 : Nat, backlight : {0, 1}] /\ o.backlight = v
      BY <1>1, <1>4, <1>5, <1>6
<1>. QED
      BY <1>2, <1>7 DEF Registers, o, f, v

\* The same of any model, and of the report of the kind the step waits for.
LEMMA StepObeyed ==
    ASSUME NEW m \in Models, NEW b, IsState(m, b), NEW step \in Services(m, 0 .. 100),
           NEW r \in Registers(m)
    PROVE  LET c == CommandOf(m, b, step)
               f == Encode(m, c)
               o == Obey(r, f)
           IN /\ f # None /\ o \in Registers(m) /\ Obey(o, f) = o
              /\ (c.op = "backlight") = (m = "M25")
              /\ ShowsAll(m, Decode(m, o), b, step)
              /\ \A q : LET d == Report(m, o, IF m = "M25" THEN "backlight" ELSE "state", q)
                        IN Confirms(m, Decode(m, d.regs), c)
<1>1. CASE m \in Purifiers
      <2>1. m # "M25"
            BY <1>1, PurifierKinds
      <2>. QED
            BY <1>1, <2>1, PurifierObeys DEF Report
<1>2. CASE m = "M25"
      <2> DEFINE c == CommandOf(m, b, step)
                 f == Encode(m, c)
                 o == Obey(r, f)
      <2>1. f # None /\ o \in Registers(m) /\ Obey(o, f) = o /\ o.backlight = step.value
            BY <1>2, DetectorObeys
      <2>2. /\ step.service = "backlight" /\ c.op = "backlight"
            /\ \A s : Confirms(m, s, c) <=> s.backlight = step.value
            BY <1>2, DetectorSteps
      <2> HIDE DEF c, f, o
      <2>3. "backlight" \in DOMAIN o /\ "backlight" \in Fields
            BY <1>2, <2>1 DEF Registers, Fields
      <2>4. Decode(m, o).backlight = step.value
            BY <1>2, <2>1, <2>3, DecodesDetector
      <2>5. ShowsAll(m, Decode(m, o), b, step)
            BY <2>2, <2>4 DEF ShowsAll, Shows
      <2>6. ASSUME NEW q
            PROVE  LET d == Report(m, o, "backlight", q)
                   IN Confirms(m, Decode(m, d.regs), c)
            <3> DEFINE regs == [backlight |-> o.backlight]
            <3>1. Report(m, o, "backlight", q).regs = regs
                  BY <1>2 DEF Report
            <3>2. Decode(m, regs).backlight = step.value
                  BY <1>2, <2>1, <2>3, DecodesDetector
            <3>. QED
                  BY <2>2, <3>1, <3>2
      <2>. QED
            BY <1>2, <2>1, <2>2, <2>5, <2>6 DEF c, f, o
<1>. QED
      BY <1>1, <1>2, Families

LEMMA StepShown ==
    ASSUME NEW m \in Models, NEW s, NEW b, IsState(m, b), NEW step \in Services(m, 0 .. 100),
           Confirms(m, s, CommandOf(m, b, step))
    PROVE  Shows(m, s, b, step)
<1>1. CASE m \in Purifiers
      BY <1>1, ConfirmedIsShown
<1>2. CASE m = "M25"
      <2>1. step.service = "backlight" /\ s.backlight = step.value
            BY <1>2, DetectorSteps
      <2>. QED
            BY <2>1 DEF Shows
<1>. QED
      BY <1>1, <1>2, Families

LEMMA RestIsAStep ==
    ASSUME NEW m \in Models, NEW step \in Services(m, 0 .. 100), Rest(step) # None
    PROVE  Rest(step) \in Services(m, 0 .. 100)
<1>1. m # "M25"
      BY DetectorSteps
<1>2. \/ step.service = "turn_on_at" /\ step.value \in 0 .. 100
      \/ step.service = "turn_on_in" /\ step.preset \in DOMAIN Presets(m)
      BY <1>1 DEF Services, Rest
<1>3. CASE step.service = "turn_on_at"
      BY <1>1, <1>2, <1>3 DEF Services, Rest
<1>4. CASE step.service = "turn_on_in"
      BY <1>1, <1>2, <1>4 DEF Services, Rest
<1>. QED
      BY <1>2, <1>3, <1>4

-----------------------------------------------------------------------------
(* The invariant of DeviceView, one lemma for each part                     *)

Entries == [data : Reports(model), age : Nat]

LEMMA Times ==
    /\ Window \in Nat /\ MaxRecent \in Nat /\ Attempts = 3
    /\ Interval \in Nat /\ Interval > 0 /\ Window < 2 * Interval
<1>1. Window \in Nat /\ MaxRecent \in Nat /\ CommandTimeout \in Nat
      BY TimesAssumption
<1>2. Attempts = 3 /\ Interval = CommandTimeout \div 3
      BY DEF Interval, Attempts
<1>3. Interval \in Nat
      <2> DEFINE t == CommandTimeout
      <2>1. Interval = t \div 3 /\ t \in Nat
            BY <1>1, <1>2
      <2> HIDE DEF t
      <2>. QED
            BY <2>1
<1>. QED
      BY <1>1, <1>2, <1>3, WindowAssumption

LEMMA ReportIs ==
    ASSUME NEW m \in Models, NEW r \in Registers(m), NEW kind \in Kinds(m), NEW q \in Nat
    PROVE  Report(m, r, kind, q) \in Reports(m) /\ Report(m, r, kind, q).kind = kind
<1>1. CASE m = "M25" /\ kind = "state"
      BY <1>1 DEF Report, Reports, Registers
<1>2. CASE m = "M25" /\ kind = "backlight"
      BY <1>2 DEF Report, Reports, Registers
<1>3. CASE m # "M25"
      <2>1. kind = "state"
            BY <1>3 DEF Kinds
      <2>. QED
            BY <1>3, <2>1 DEF Report, Reports
<1>. QED
      BY <1>1, <1>2, <1>3 DEF Kinds

LEMMA BeginsAt ==
    ASSUME model \in Models, registers \in Registers(model),
           NEW step \in Services(model, 0 .. 100), NEW known, IsState(model, known),
           Begin(step, known)
    PROVE  LET c == CommandOf(model, known, step)
           IN /\ call' = [step |-> step, before |-> known, after |-> known, command |-> c,
                          frame |-> Encode(model, c), attempts |-> 0, due |-> 0,
                          result |-> "running"]
              /\ steps' = steps + 1
<1>1. Encode(model, CommandOf(model, known, step)) # None
      BY StepObeyed
<1>. QED
      BY <1>1 DEF Begin

LEMMA Expects ==
    ASSUME ViewTypeOK, StepEncoded, call # None
    PROVE  /\ ExpectedKind = IF model = "M25" THEN "backlight" ELSE "state"
           /\ ExpectedKind \in Kinds(model)
<1>1. model \in Models /\ registers \in Registers(model) /\ IsCall(call)
      BY SelectedAssumption DEF ViewTypeOK
<1>2. (call.command.op = "backlight") = (model = "M25")
      BY <1>1, StepObeyed DEF IsCall, StepEncoded
<1>. QED
      BY <1>2 DEF ExpectedKind, Kinds

LEMMA MergedConfirms ==
    ASSUME ViewTypeOK, StepEncoded, call # None, NEW d \in Reports(model), Confirming(d)
    PROVE  Confirms(model, Merge(model, state, Decode(model, d.regs)), call.command)
<1>1. model \in Models /\ IsCall(call)
      BY SelectedAssumption DEF ViewTypeOK
<1> DEFINE s == Decode(model, d.regs)
<1>2. d.kind = ExpectedKind /\ Confirms(model, s, call.command)
      BY DEF Confirming
<1>3. CASE model # "M25"
      <2>1. Merge(model, state, s) = s
            BY <1>1, <1>3, Families, PurifierKinds DEF Merge
      <2>. QED
            BY <1>2, <2>1
<1>4. CASE model = "M25"
      <2>1. \A t : Confirms(model, t, call.command) <=> t.backlight = call.step.value
            BY <1>1, <1>4, DetectorSteps DEF IsCall, StepEncoded
      <2>2. d.kind = "backlight"
            BY <1>2, <1>4, Expects
      <2>3. d.regs \in [backlight : {0, 1}]
            BY <1>4, <2>2 DEF Reports
      <2>4. "backlight" \in Fields
            BY DEF Fields
      <2>5. s.backlight = d.regs.backlight
            BY <1>4, <2>3, <2>4, DecodesDetector
      <2> HIDE DEF s
      <2>6. s.backlight # None
            BY <2>3, <2>5, NoneAssumption
      <2>7. Merge(model, state, s).backlight = s.backlight
            BY <2>4, <2>6 DEF Merge
      <2>. QED
            BY <1>2, <2>1, <2>7 DEF s
<1>. QED
      BY <1>3, <1>4

\* What is remembered when d has been taken in.
LEMMA IntakeRecent ==
    ASSUME ViewTypeOK, NEW d \in Reports(model),
           \/ Seen(d) /\ recent' = Pruned(d)
           \/ ~Seen(d) /\ Remember(d)
    PROVE  /\ recent' \in Seq(Entries)
           /\ \A i \in 1 .. Len(recent') :
                 \/ \E j \in 1 .. Len(recent) :
                       /\ recent'[i] = recent[j] /\ recent[j].age <= Window
                       /\ ~Seen(d) => recent[j].data # d
                 \/ ~Seen(d) /\ recent'[i] = [data |-> d, age |-> 0]
<1> DEFINE u == Unexpired
           e == [data |-> d, age |-> 0]
<1>1. recent \in Seq(Entries)
      BY DEF ViewTypeOK, Entries
<1>2. CountedOf(u, recent, Entries) /\ Pruned(d) = u
      BY <1>1, UnexpiredCounts DEF Pruned
<1>3. /\ Seen(d) <=> \E i \in DOMAIN u : u[i].data = d
      BY <1>2 DEF Seen
<1>4. e \in Entries
      BY DEF Entries
<1> HIDE DEF u, e
<1>5. /\ u \in Seq(Entries) /\ Len(u) \in Nat /\ DOMAIN u = 1 .. Len(u)
      /\ \A i \in 1 .. Len(u) : \E j \in 1 .. Len(recent) : u[i] = recent[j] /\ recent[j].age <= Window
      BY <1>2 DEF CountedOf
<1>6. CASE Seen(d)
      <2>1. recent' = u
            BY <1>2, <1>6
      <2>. QED
            BY <1>5, <1>6, <2>1
<1>7. CASE ~Seen(d)
      <2> DEFINE w == Append(u, e)
      <2>1. /\ w \in Seq(Entries) /\ Len(w) = Len(u) + 1 /\ w[Len(u) + 1] = e
            /\ \A i \in 1 .. Len(u) : w[i] = u[i]
            BY <1>4, <1>5, AppendProperties
      <2>2. recent' = IF Len(w) > MaxRecent THEN Tail(w) ELSE w
            BY <1>2, <1>7 DEF Remember, e, u
      <2> HIDE DEF w
      <2>3. ASSUME NEW i \in 1 .. Len(w)
            PROVE  \/ \E j \in 1 .. Len(recent) :
                         w[i] = recent[j] /\ recent[j].age <= Window /\ recent[j].data # d
                   \/ w[i] = e
            <3>1. CASE i = Len(u) + 1
                  BY <3>1, <2>1
            <3>2. CASE i # Len(u) + 1
                  <4>1. i \in 1 .. Len(u) /\ w[i] = u[i]
                        BY <1>5, <2>1, <3>2
                  <4>2. u[i].data # d
                        BY <1>3, <1>5, <1>7, <4>1
                  <4>. QED
                        BY <1>5, <4>1, <4>2
            <3>. QED
                  BY <3>1, <3>2
      <2>4. CASE Len(w) > MaxRecent
            <3>1. /\ Tail(w) \in Seq(Entries) /\ Len(Tail(w)) = Len(w) - 1
                  /\ \A i \in 1 .. Len(Tail(w)) : Tail(w)[i] = w[i + 1] /\ i + 1 \in 1 .. Len(w)
                  BY <1>5, <2>1, HeadTailProperties
            <3>2. recent' = Tail(w)
                  BY <2>2, <2>4
            <3>. QED
                  BY <1>7, <2>3, <3>1, <3>2 DEF e
      <2>5. CASE ~(Len(w) > MaxRecent)
            <3>1. recent' = w
                  BY <2>2, <2>5
            <3>. QED
                  BY <1>7, <2>1, <2>3, <3>1 DEF e
      <2>. QED
            BY <2>4, <2>5
<1>. QED
      BY <1>6, <1>7

LEMMA TypedNext ==
    ASSUME model \in Selected, echoes \in BOOLEAN, UNCHANGED <<model, echoes>>,
           registers' \in Registers(model), air' \in Seq(Reports(model)),
           recent' \in Seq(Entries), IsState(model, state'), call' # None => IsCall(call'),
           steps' \in Nat, disturbed' \in BOOLEAN
    PROVE  ViewTypeOK'
<1>1. call' # None => IsCall(call)'
      BY DEF IsCall
<1>2. IsState(model, state)'
      OBVIOUS
<1>. QED
      BY <1>1, <1>2 DEF ViewTypeOK, Entries

LEMMA ViewTypeStep == ViewInv /\ [ViewNext]_viewVars => ViewTypeOK'
<1> SUFFICES ASSUME ViewInv, [ViewNext]_viewVars PROVE ViewTypeOK'
    OBVIOUS
<1> USE DEF ViewInv
<1>0. /\ model \in Selected /\ model \in Models /\ registers \in Registers(model)
      /\ echoes \in BOOLEAN /\ air \in Seq(Reports(model)) /\ recent \in Seq(Entries)
      /\ IsState(model, state) /\ (call # None => IsCall(call))
      /\ steps \in Nat /\ disturbed \in BOOLEAN
      BY SelectedAssumption DEF ViewTypeOK, Entries
<1>1. CASE Press
      <2>1. /\ registers' \in Registers(model) /\ disturbed' = TRUE
            /\ UNCHANGED <<model, echoes, air, recent, state, call, steps>>
            BY <1>0, <1>1, SelectedAssumption DEF Press, clientVars
      <2>. QED
            BY <1>0, <2>1, TypedNext
<1>2. CASE Broadcast
      <2>1. PICK kind \in Kinds(model) : air' = <<Report(model, registers, kind, 0)>>
            BY <1>2 DEF Broadcast
      <2>2. air' \in Seq(Reports(model))
            BY <1>0, <2>1, ReportIs
      <2>3. UNCHANGED <<model, registers, echoes, recent, state, call, steps, disturbed>>
            BY <1>2 DEF Broadcast, device, clientVars
      <2>. QED
            BY <1>0, <2>2, <2>3, TypedNext
<1>3. CASE CallService
      <2>1. PICK step \in Services(model, Percentages) : Begin(step, state)
            BY <1>3 DEF CallService
      <2>2. step \in Services(model, 0 .. 100)
            BY <2>1, PercentagesAssumption DEF Services
      <2>3. UNCHANGED <<model, registers, echoes, air, recent, state>> /\ disturbed' = FALSE
            BY <1>3 DEF CallService, device
      <2>4. IsCall(call') /\ steps' = steps + 1
            BY <1>0, <2>1, <2>2, BeginsAt, Times DEF IsCall
      <2>5. steps' \in Nat /\ disturbed' \in BOOLEAN
            <3>1. disturbed' \in BOOLEAN
                  BY <2>3, Zenon
            <3>. QED
                  BY <1>0, <2>4, <3>1
      <2>6. /\ UNCHANGED <<model, echoes>> /\ registers' \in Registers(model)
            /\ air' \in Seq(Reports(model)) /\ recent' \in Seq(Entries) /\ IsState(model, state')
            BY <1>0, <2>3
      <2>. QED
            BY <1>0, <2>4, <2>5, <2>6, TypedNext
<1>4. CASE Attempt
      <2>0. call # None /\ IsCall(call)
            BY <1>0, <1>4 DEF Attempt, CallRunning
      <2>1. /\ call' = [call EXCEPT !.attempts = @ + 1, !.due = Interval]
            /\ call.attempts < Attempts
            /\ UNCHANGED <<model, echoes, recent, state, steps>>
            BY <1>4 DEF Attempt
      <2> DEFINE obeyed == Obey(registers, call.frame)
      <2>2. obeyed \in Registers(model)
            <3>1. call.step \in Services(model, 0 .. 100) /\ IsState(model, call.before)
                  BY <2>0 DEF IsCall
            <3>2. call.frame = Encode(model, CommandOf(model, call.before, call.step))
                  BY <2>0 DEF StepEncoded
            <3>. QED
                  BY <1>0, <3>1, <3>2, StepObeyed
      <2>3. ASSUME NEW r \in Registers(model)
            PROVE  Answer(r) \in Seq(Reports(model))
            <3>1. Report(model, r, ExpectedKind, IF echoes THEN steps ELSE 0) \in Reports(model)
                  BY <1>0, <2>0, Expects, ReportIs
            <3>. QED
                  BY <1>0, <3>1 DEF Answer
      <2>4. registers' \in {registers, obeyed}
            BY <1>4 DEF Attempt
      <2>5. air' \in {air, Answer(obeyed), Answer(registers)}
            BY <1>4 DEF Attempt
      <2>6. disturbed' \in {disturbed, TRUE}
            BY <1>4 DEF Attempt
      <2>7. registers' \in Registers(model) /\ air' \in Seq(Reports(model)) /\ disturbed' \in BOOLEAN
            <3> HIDE DEF obeyed
            <3>. QED
                  BY <1>0, <2>2, <2>3, <2>4, <2>5, <2>6
      <2>8. IsCall(call')
            <3>1. call.attempts + 1 \in 0 .. Attempts /\ Interval \in 0 .. Interval
                  BY <2>0, <2>1, Times DEF IsCall
            <3>. QED
                  BY <2>0, <2>1, <3>1 DEF IsCall
      <2>. QED
            BY <1>0, <2>1, <2>7, <2>8, TypedNext
<1>5. CASE GiveUp
      <2>1. call # None /\ IsCall(call)
            BY <1>0, <1>5 DEF GiveUp, CallRunning
      <2>2. /\ call' = [call EXCEPT !.result = "failed", !.after = state]
            /\ UNCHANGED <<model, registers, echoes, air, recent, state, steps, disturbed>>
            BY <1>5 DEF GiveUp, device
      <2>3. IsCall(call')
            BY <1>0, <2>1, <2>2 DEF IsCall
      <2>. QED
            BY <1>0, <2>2, <2>3, TypedNext
<1>6. CASE TimePasses
      <2>1. recent' = [i \in DOMAIN recent |->
                  [recent[i] EXCEPT !.age = IF @ > Window THEN @ ELSE @ + 1]]
            BY <1>6 DEF TimePasses
      <2>2. recent' \in Seq(Entries)
            <3>1. DOMAIN recent = 1 .. Len(recent) /\ Len(recent) \in Nat
                  BY <1>0
            <3>2. ASSUME NEW i \in 1 .. Len(recent)
                  PROVE  [recent[i] EXCEPT !.age = IF @ > Window THEN @ ELSE @ + 1] \in Entries
                  <4>1. recent[i] \in Entries
                        BY <1>0, <3>1
                  <4>. QED
                        BY <4>1 DEF Entries
            <3>3. recent' \in [1 .. Len(recent) -> Entries]
                  BY <2>1, <3>1, <3>2
            <3>. QED
                  BY <3>1, <3>3, SeqDef
      <2>3. UNCHANGED <<model, registers, echoes, air, state, steps, disturbed>>
            BY <1>6 DEF TimePasses, device
      <2>4. call' # None => IsCall(call')
            <3>1. CASE CallRunning
                  <4>1. call # None /\ call.due > 0 /\ call' = [call EXCEPT !.due = @ - 1]
                        BY <1>6, <3>1 DEF TimePasses, CallRunning
                  <4>. QED
                        BY <1>0, <4>1, Times, SMTT(60) DEF IsCall
            <3>2. CASE ~CallRunning
                  BY <1>0, <1>6, <3>2 DEF TimePasses
            <3>. QED
                  BY <3>1, <3>2
      <2>. QED
            BY <1>0, <2>2, <2>3, <2>4, TypedNext
<1>7. CASE Intake
      <2> DEFINE d == Head(air)
      <2>1. /\ d \in Reports(model) /\ air' \in Seq(Reports(model))
            BY <1>0, <1>7, HeadTailProperties DEF Intake
      <2>2. UNCHANGED <<model, registers, echoes, disturbed>>
            BY <1>7 DEF Intake, device
      <2>3. CASE Seen(d)
            <3>1. recent' = Pruned(d) /\ UNCHANGED <<state, call, steps>>
                  BY <1>7, <2>3 DEF Intake
            <3>2. recent' \in Seq(Entries)
                  BY <2>1, <2>3, <3>1, IntakeRecent
            <3>. QED
                  BY <1>0, <2>1, <2>2, <3>1, <3>2, TypedNext
      <2>4. CASE ~Seen(d)
            <3>1. /\ Remember(d) /\ state' = Merge(model, state, Decode(model, d.regs))
                  /\ Confirm(d, state')
                  BY <1>7, <2>4 DEF Intake
            <3>2. recent' \in Seq(Entries)
                  BY <2>1, <2>4, <3>1, IntakeRecent
            <3>3. IsState(model, state')
                  BY <1>0, <2>1, <3>1, DecodesState, MergesState
            <3>4. (call' # None => IsCall(call')) /\ steps' \in Nat
                  <4>1. CASE UNCHANGED <<call, steps>>
                        BY <1>0, <4>1
                  <4>2. CASE CallRunning /\ steps' = steps
                             /\ call' = [call EXCEPT !.result = "confirmed", !.after = state']
                        BY <1>0, <3>3, <4>2 DEF IsCall, CallRunning
                  <4>3. CASE CallRunning /\ Rest(call.step) # None /\ Begin(Rest(call.step), state')
                        <5>1. IsCall(call)
                              BY <1>0, <4>3 DEF CallRunning
                        <5>2. Rest(call.step) \in Services(model, 0 .. 100)
                              BY <1>0, <4>3, <5>1, RestIsAStep DEF IsCall
                        <5>. QED
                              BY <1>0, <3>3, <4>3, <5>2, BeginsAt, Times DEF IsCall
                  <4>. QED
                        BY <3>1, <4>1, <4>2, <4>3 DEF Confirm
            <3>. QED
                  BY <1>0, <2>1, <2>2, <3>2, <3>3, <3>4, TypedNext
      <2>. QED
            BY <2>3, <2>4
<1>8. CASE UNCHANGED viewVars
      BY <1>0, <1>8 DEF viewVars, device, clientVars, ViewTypeOK, IsCall, Entries
<1>. QED
      BY <1>1, <1>2, <1>3, <1>4, <1>5, <1>6, <1>7, <1>8 DEF ViewNext

LEMMA ViewTyped ==
    ASSUME ViewTypeOK
    PROVE  /\ model \in Selected /\ model \in Models /\ registers \in Registers(model)
           /\ air \in Seq(Reports(model)) /\ recent \in Seq(Entries)
           /\ DOMAIN recent = 1 .. Len(recent) /\ Len(recent) \in Nat
           /\ IsState(model, state) /\ (call # None => IsCall(call))
    BY SelectedAssumption DEF ViewTypeOK, Entries

\* The report at the head of those on their way.
LEMMA HeadIs ==
    ASSUME ViewTypeOK, air # <<>>
    PROVE  /\ Head(air) \in Reports(model)
           /\ Len(Tail(air)) = Len(air) - 1 /\ Len(air) \in Nat \ {0} /\ air[1] = Head(air)
           /\ \A i \in 2 .. Len(air) : Tail(air)[i - 1] = air[i]
    BY ViewTyped, HeadTailProperties

LEMMA RecentStep == ViewInv /\ [ViewNext]_viewVars => RecentTaken'
<1> SUFFICES ASSUME ViewInv, [ViewNext]_viewVars PROVE RecentTaken'
    OBVIOUS
<1>0. ViewTypeOK /\ RecentTaken
      BY DEF ViewInv
<1>1. CASE UNCHANGED <<recent, taken>>
      BY <1>0, <1>1 DEF RecentTaken
<1>2. CASE TimePasses
      <2>1. /\ recent' = [i \in DOMAIN recent |->
                  [recent[i] EXCEPT !.age = IF @ > Window THEN @ ELSE @ + 1]]
            /\ taken' = {[t EXCEPT !.age = @ + 1] : t \in {t \in taken : t.age < Window}}
            BY <1>2 DEF TimePasses
      <2>2. DOMAIN recent = 1 .. Len(recent) /\ Len(recent) \in Nat /\ recent \in Seq(Entries)
            BY <1>0, ViewTyped
      <2>3. Len(recent') = Len(recent)
            BY <2>1, <2>2
      <2>4. ASSUME NEW i \in 1 .. Len(recent), recent'[i].age <= Window
            PROVE  recent'[i] \in taken'
            <3> DEFINE e == recent[i]
            <3>1. e \in [data : Reports(model), age : Nat]
                  <4>1. e \in Entries
                        BY <2>2, ElementOfSeq
                  <4>. QED
                        BY <4>1 DEF Entries
            <3>2. recent'[i] = [e EXCEPT !.age = IF e.age > Window THEN e.age ELSE e.age + 1]
                  BY <2>1, <2>2
            <3>3. recent'[i].age = IF e.age > Window THEN e.age ELSE e.age + 1
                  BY <3>1, <3>2
            <3>4. ~(e.age > Window) /\ e.age < Window /\ e.age <= Window
                  <4>1. e.age \in Nat
                        BY <3>1
                  <4> HIDE DEF e
                  <4>. QED
                        BY <2>4, <3>3, <4>1, Times
            <3>5. e \in taken
                  BY <1>0, <3>4 DEF RecentTaken
            <3>6. recent'[i] = [e EXCEPT !.age = e.age + 1]
                  BY <3>2, <3>4
            <3> DEFINE young == {t \in taken : t.age < Window}
            <3>7. e \in young
                  BY <3>4, <3>5
            <3>8. recent'[i] = [e EXCEPT !.age = @ + 1]
                  BY <3>6
            <3>9. taken' = {[t EXCEPT !.age = @ + 1] : t \in young}
                  BY <2>1
            <3> HIDE DEF e, young
            <3>. QED
                  BY <3>7, <3>8, <3>9
      <2>. QED
            BY <2>3, <2>4 DEF RecentTaken
<1>3. CASE Intake
      <2> DEFINE d == Head(air)
      <2>1. d \in Reports(model)
            BY <1>0, <1>3, HeadIs DEF Intake
      <2>2. \/ Seen(d) /\ recent' = Pruned(d) /\ taken' = taken
            \/ /\ ~Seen(d) /\ Remember(d)
               /\ taken' = {t \in taken : t.data # d} \cup {[data |-> d, age |-> 0]}
            BY <1>3 DEF Intake
      <2> HIDE DEF d
      <2>3. ASSUME NEW i \in 1 .. Len(recent')
            PROVE  recent'[i] \in taken'
            <3>1. \/ \E j \in 1 .. Len(recent) :
                         /\ recent'[i] = recent[j] /\ recent[j].age <= Window
                         /\ ~Seen(d) => recent[j].data # d
                  \/ ~Seen(d) /\ recent'[i] = [data |-> d, age |-> 0]
                  BY <1>0, <2>1, <2>2, IntakeRecent
            <3>2. CASE \E j \in 1 .. Len(recent) :
                         /\ recent'[i] = recent[j] /\ recent[j].age <= Window
                         /\ ~Seen(d) => recent[j].data # d
                  BY <1>0, <2>2, <3>2 DEF RecentTaken
            <3>3. CASE ~Seen(d) /\ recent'[i] = [data |-> d, age |-> 0]
                  BY <2>2, <3>3
            <3>. QED
                  BY <3>1, <3>2, <3>3
      <2>. QED
            BY <2>3 DEF RecentTaken
<1>. QED
      BY <1>1, <1>2, <1>3
         DEF ViewNext, viewVars, clientVars, Press, Broadcast, CallService, Attempt, GiveUp

\* A step that has just begun.
LEMMA BegunHolds ==
    ASSUME ViewTypeOK, UNCHANGED model,
           NEW step \in Services(model, 0 .. 100), NEW known, IsState(model, known),
           Begin(step, known)
    PROVE  StepEncoded' /\ DeviceObeyed' /\ NoneMissed' /\ LastAnswer'
<1>1. LET c == CommandOf(model, known, step)
      IN call' = [step |-> step, before |-> known, after |-> known, command |-> c,
                  frame |-> Encode(model, c), attempts |-> 0, due |-> 0, result |-> "running"]
      BY ViewTyped, BeginsAt
<1>2. call'.attempts = 0 /\ call'.result = "running"
      BY <1>1
<1>3. /\ call'.command = CommandOf(model, call'.before, call'.step)
      /\ call'.frame = Encode(model, call'.command)
      BY <1>1
<1>4. StepEncoded'
      BY <1>2, <1>3 DEF StepEncoded
<1>5. ~(0 > 0) /\ Attempts # 0
      BY Times
<1>. QED
      BY <1>2, <1>4, <1>5 DEF DeviceObeyed, NoneMissed, LastAnswer

LEMMA EncodedStep == ViewInv /\ [ViewNext]_viewVars => StepEncoded'
<1> SUFFICES ASSUME ViewInv, [ViewNext]_viewVars PROVE StepEncoded'
    OBVIOUS
<1>0. ViewTypeOK /\ StepEncoded /\ LastAnswer
      BY DEF ViewInv
<1>1. CASE UNCHANGED <<model, call>> /\ disturbed' \in {disturbed, TRUE}
      BY <1>0, <1>1 DEF StepEncoded
<1>2. CASE CallService
      <2>1. PICK step \in Services(model, Percentages) : Begin(step, state)
            BY <1>2 DEF CallService
      <2>2. step \in Services(model, 0 .. 100)
            BY <2>1, PercentagesAssumption DEF Services
      <2>. QED
            BY <1>0, <1>2, <2>1, <2>2, ViewTyped, BegunHolds DEF CallService, device
<1>3. CASE Attempt
      <2>1. /\ call # None /\ call.result = "running"
            /\ call' = [call EXCEPT !.attempts = @ + 1, !.due = Interval] /\ model' = model
            BY <1>3 DEF Attempt, CallRunning
      <2>2. IsCall(call)
            BY <1>0, <2>1, ViewTyped
      <2>3. /\ call'.command = call.command /\ call'.before = call.before
            /\ call'.step = call.step /\ call'.frame = call.frame /\ call'.result = "running"
            BY <2>1, <2>2 DEF IsCall
      <2>. QED
            BY <1>0, <2>1, <2>3 DEF StepEncoded
<1>4. CASE GiveUp
      <2>1. /\ call # None /\ call.result = "running" /\ call.due = 0 /\ call.attempts = Attempts
            /\ call' = [call EXCEPT !.result = "failed", !.after = state]
            /\ model' = model /\ disturbed' = disturbed
            BY <1>4 DEF GiveUp, CallRunning, device
      <2>2. IsCall(call)
            BY <1>0, <2>1, ViewTyped
      <2>3. /\ call'.command = call.command /\ call'.before = call.before
            /\ call'.step = call.step /\ call'.frame = call.frame /\ call'.result = "failed"
            BY <2>1, <2>2 DEF IsCall
      <2>4. disturbed
            BY <1>0, <2>1, Times DEF LastAnswer, CallRunning
      <2>. QED
            BY <1>0, <2>1, <2>3, <2>4 DEF StepEncoded
<1>5. CASE TimePasses
      <2>1. model' = model /\ disturbed' = disturbed
            BY <1>5 DEF TimePasses, device
      <2>2. CASE CallRunning
            <3>1. /\ call # None /\ call.result = "running"
                  /\ call' = [call EXCEPT !.due = @ - 1]
                  BY <1>5, <2>2 DEF TimePasses, CallRunning
            <3>2. IsCall(call)
                  BY <1>0, <3>1, ViewTyped
            <3>3. /\ call'.command = call.command /\ call'.before = call.before
                  /\ call'.step = call.step /\ call'.frame = call.frame /\ call'.result = "running"
                  BY <3>1, <3>2 DEF IsCall
            <3>. QED
                  BY <1>0, <2>1, <3>1, <3>3 DEF StepEncoded
      <2>3. CASE ~CallRunning
            BY <1>1, <1>5, <2>1, <2>3 DEF TimePasses
      <2>. QED
            BY <2>2, <2>3
<1>6. CASE Intake
      <2> DEFINE d == Head(air)
      <2>1. model' = model /\ disturbed' = disturbed
            BY <1>6 DEF Intake, device
      <2>2. CASE call' = call
            BY <1>1, <2>1, <2>2
      <2>3. CASE call' # call
            <3>1. Confirm(d, state') /\ state' = Merge(model, state, Decode(model, d.regs))
                  BY <1>6, <2>3 DEF Intake
            <3>2. /\ CallRunning /\ call.attempts > 0 /\ Confirms(model, state', call.command)
                  /\ \/ call' = [call EXCEPT !.result = "confirmed", !.after = state']
                     \/ Rest(call.step) # None /\ Begin(Rest(call.step), state')
                  BY <2>3, <3>1 DEF Confirm
            <3>3. call # None /\ IsCall(call)
                  BY <1>0, <3>2, ViewTyped DEF CallRunning
            <3>4. CASE call' = [call EXCEPT !.result = "confirmed", !.after = state']
                  <4>1. /\ call'.command = call.command /\ call'.before = call.before
                        /\ call'.step = call.step /\ call'.frame = call.frame
                        /\ call'.result = "confirmed" /\ call'.after = state'
                        /\ call'.attempts = call.attempts
                        BY <3>3, <3>4 DEF IsCall
                  <4>. QED
                        BY <1>0, <2>1, <3>2, <3>3, <4>1 DEF StepEncoded
            <3>5. CASE Rest(call.step) # None /\ Begin(Rest(call.step), state')
                  <4>1. Rest(call.step) \in Services(model, 0 .. 100)
                        BY <1>0, <3>3, <3>5, ViewTyped, RestIsAStep DEF IsCall
                  <4>2. IsState(model, state')
                        BY <1>0, <1>6, <3>1, ViewTyped, HeadIs, DecodesState, MergesState DEF Intake
                  <4>. QED
                        BY <1>0, <2>1, <3>5, <4>1, <4>2, BegunHolds
            <3>. QED
                  BY <3>2, <3>4, <3>5
      <2>. QED
            BY <2>2, <2>3
<1>. QED
      BY <1>1, <1>2, <1>3, <1>4, <1>5, <1>6
         DEF ViewNext, viewVars, clientVars, device, Press, Broadcast

\* What the intake does to a call.
LEMMA IntakeCall ==
    ASSUME ViewTypeOK, Intake
    PROVE  LET d == Head(air)
           IN \/ call' = call /\ (Confirming(d) /\ CallRunning /\ call.attempts > 0 /\ ~Seen(d)
                                  => ~StepEncoded)
              \/ /\ call' = [call EXCEPT !.result = "confirmed", !.after = state']
                 /\ call # None /\ IsCall(call)
              \/ \E step \in Services(model, 0 .. 100) : Begin(step, state') /\ IsState(model, state')
<1> DEFINE d == Head(air)
<1>1. air # <<>> /\ d \in Reports(model)
      BY HeadIs DEF Intake
<1> HIDE DEF d
<1>2. CASE Seen(d)
      BY <1>2 DEF Intake, d
<1>3. CASE ~Seen(d)
      <2>1. Confirm(d, state') /\ state' = Merge(model, state, Decode(model, d.regs))
            BY <1>3 DEF Intake, d
      <2>2. CASE CallRunning /\ call.attempts > 0 /\ d.kind = ExpectedKind
                 /\ Confirms(model, state', call.command)
            <3>1. call # None /\ IsCall(call)
                  BY <2>2, ViewTyped DEF CallRunning
            <3>2. CASE Rest(call.step) = None
                  BY <2>1, <2>2, <3>1, <3>2 DEF Confirm
            <3>3. CASE Rest(call.step) # None
                  <4>1. Begin(Rest(call.step), state')
                        BY <2>1, <2>2, <3>3 DEF Confirm
                  <4>2. Rest(call.step) \in Services(model, 0 .. 100)
                        BY <3>1, <3>3, ViewTyped, RestIsAStep DEF IsCall
                  <4>3. IsState(model, state')
                        BY <1>1, <2>1, ViewTyped, DecodesState, MergesState
                  <4>. QED
                        BY <4>1, <4>2, <4>3
            <3>. QED
                  BY <3>2, <3>3
      <2>3. CASE ~(CallRunning /\ call.attempts > 0 /\ d.kind = ExpectedKind
                   /\ Confirms(model, state', call.command))
            <3>1. call' = call
                  BY <2>1, <2>3 DEF Confirm
            <3>2. Confirming(d) /\ CallRunning /\ call.attempts > 0 => ~StepEncoded
                  BY <1>1, <2>1, <2>3, MergedConfirms DEF CallRunning, Confirming
            <3>. QED
                  BY <3>1, <3>2 DEF d
      <2>. QED
            BY <2>2, <2>3
<1>. QED
      BY <1>2, <1>3

LEMMA ObeyedStep == ViewInv /\ [ViewNext]_viewVars => DeviceObeyed'
<1> SUFFICES ASSUME ViewInv, [ViewNext]_viewVars PROVE DeviceObeyed'
    OBVIOUS
<1>0. ViewTypeOK /\ StepEncoded /\ DeviceObeyed
      BY DEF ViewInv
<1>1. CASE UNCHANGED <<registers, call, disturbed>>
      BY <1>0, <1>1 DEF DeviceObeyed
<1>2. CASE Press
      BY <1>2 DEF Press, DeviceObeyed
<1>3. CASE CallService
      <2>1. PICK step \in Services(model, Percentages) : Begin(step, state)
            BY <1>3 DEF CallService
      <2>2. step \in Services(model, 0 .. 100)
            BY <2>1, PercentagesAssumption DEF Services
      <2>. QED
            BY <1>0, <1>3, <2>1, <2>2, ViewTyped, BegunHolds DEF CallService, device
<1>4. CASE Attempt
      <2> DEFINE obeyed == Obey(registers, call.frame)
      <2>1. call # None /\ IsCall(call) /\ call'.frame = call.frame
            BY <1>0, <1>4, ViewTyped DEF Attempt, CallRunning, IsCall
      <2>2. Obey(obeyed, call.frame) = obeyed
            <3>1. call.step \in Services(model, 0 .. 100) /\ IsState(model, call.before)
                  BY <2>1 DEF IsCall
            <3>2. call.frame = Encode(model, CommandOf(model, call.before, call.step))
                  BY <1>0, <2>1 DEF StepEncoded
            <3>3. LET f == Encode(model, CommandOf(model, call.before, call.step))
                  IN Obey(Obey(registers, f), f) = Obey(registers, f)
                  BY <1>0, <3>1, ViewTyped, StepObeyed
            <3>. QED
                  BY <3>2, <3>3
      <2>3. registers' = obeyed \/ disturbed' = TRUE
            BY <1>4 DEF Attempt
      <2>. QED
            BY <2>1, <2>2, <2>3 DEF DeviceObeyed
<1>5. CASE GiveUp \/ TimePasses
      <2>1. registers' = registers /\ disturbed' = disturbed
            BY <1>5 DEF GiveUp, TimePasses, device
      <2>2. CASE call' = call
            BY <1>1, <2>1, <2>2
      <2>3. CASE call' # call
            <3>1. call # None
                  BY <1>5, <2>3 DEF GiveUp, TimePasses, CallRunning
            <3>2. IsCall(call)
                  BY <1>0, <3>1, ViewTyped
            <3>3. call'.frame = call.frame /\ call'.attempts = call.attempts
                  BY <1>5, <2>3, <3>2 DEF GiveUp, TimePasses, IsCall
            <3>. QED
                  BY <1>0, <2>1, <3>1, <3>3 DEF DeviceObeyed
      <2>. QED
            BY <2>2, <2>3
<1>6. CASE Intake
      <2>1. UNCHANGED <<model, registers, disturbed>>
            BY <1>6 DEF Intake, device
      <2>2. CASE call' = call
            BY <1>1, <2>1, <2>2
      <2>3. CASE call' = [call EXCEPT !.result = "confirmed", !.after = state']
                 /\ call # None /\ IsCall(call)
            <3>1. call'.frame = call.frame /\ call'.attempts = call.attempts
                  BY <2>3 DEF IsCall
            <3>. QED
                  BY <1>0, <2>1, <2>3, <3>1 DEF DeviceObeyed
      <2>4. CASE \E step \in Services(model, 0 .. 100) : Begin(step, state') /\ IsState(model, state')
            BY <1>0, <2>1, <2>4, BegunHolds
      <2>. QED
            BY <1>0, <1>6, <2>2, <2>3, <2>4, IntakeCall
<1>. QED
      BY <1>1, <1>2, <1>3, <1>4, <1>5, <1>6
         DEF ViewNext, viewVars, clientVars, device, Broadcast

LEMMA MissedStep == ViewInv /\ [ViewNext]_viewVars => NoneMissed'
<1> SUFFICES ASSUME ViewInv, [ViewNext]_viewVars PROVE NoneMissed'
    OBVIOUS
<1>0. ViewTypeOK /\ StepEncoded /\ NoneMissed
      BY DEF ViewInv
<1>1. CASE UNCHANGED <<model, recent, call>>
      BY <1>0, <1>1 DEF NoneMissed, CallRunning, Confirming, ExpectedKind
<1>2. CASE CallService
      <2>1. PICK step \in Services(model, Percentages) : Begin(step, state)
            BY <1>2 DEF CallService
      <2>2. step \in Services(model, 0 .. 100)
            BY <2>1, PercentagesAssumption DEF Services
      <2>. QED
            BY <1>0, <1>2, <2>1, <2>2, ViewTyped, BegunHolds DEF CallService, device
<1>3. CASE Attempt
      <2>1. call # None /\ IsCall(call) /\ CallRunning /\ call.due = 0 /\ UNCHANGED <<model, recent>>
            BY <1>0, <1>3, ViewTyped DEF Attempt, CallRunning
      <2>2. /\ call'.attempts = call.attempts + 1 /\ call'.due = Interval
            /\ call'.command = call.command /\ call.attempts \in Nat
            BY <1>3, <2>1, Times DEF Attempt, IsCall
      <2>3. call'.attempts * Interval - call'.due = call.attempts * Interval - call.due
            <3>1. (call.attempts + 1) * Interval = call.attempts * Interval + Interval
                  BY <2>2, Times
            <3>2. call.attempts * Interval \in Int
                  BY <2>2, Times
            <3>. QED
                  BY <2>1, <2>2, <3>1, <3>2, Times
      <2>4. CASE call.attempts > 0
            BY <1>0, <2>1, <2>2, <2>3, <2>4 DEF NoneMissed, Confirming, ExpectedKind
      <2>5. CASE call.attempts = 0
            <3>1. call'.attempts * Interval - call'.due = 0
                  BY <2>1, <2>2, <2>3, <2>5, Times
            <3>2. ASSUME NEW i \in 1 .. Len(recent)
                  PROVE  ~(recent[i].age < 0)
                  <4>1. recent[i] \in Entries
                        BY <1>0, ViewTyped, ElementOfSeq
                  <4>. QED
                        BY <4>1 DEF Entries
            <3>. QED
                  BY <2>1, <3>1, <3>2 DEF NoneMissed
      <2>. QED
            BY <2>2, <2>4, <2>5
<1>4. CASE GiveUp
      <2>1. call # None /\ IsCall(call) /\ call' = [call EXCEPT !.result = "failed", !.after = state]
            BY <1>0, <1>4, ViewTyped DEF GiveUp, CallRunning
      <2>2. call'.result # "running"
            BY <2>1 DEF IsCall
      <2>. QED
            BY <2>2 DEF NoneMissed, CallRunning
<1>5. CASE TimePasses
      <2>1. CASE ~CallRunning
            BY <1>5, <2>1 DEF TimePasses, NoneMissed, CallRunning
      <2>2. CASE CallRunning
            <3>1. /\ call # None /\ IsCall(call) /\ UNCHANGED model
                  /\ call' = [call EXCEPT !.due = @ - 1]
                  /\ recent' = [i \in DOMAIN recent |->
                        [recent[i] EXCEPT !.age = IF @ > Window THEN @ ELSE @ + 1]]
                  BY <1>0, <1>5, <2>2, ViewTyped DEF TimePasses, CallRunning, device
            <3>2. /\ call'.attempts = call.attempts /\ call'.due = call.due - 1
                  /\ call'.command = call.command /\ call.attempts \in Nat /\ call.due \in Nat
                  BY <3>1, Times DEF IsCall
            <3>3. ASSUME NEW i \in 1 .. Len(recent'), call.attempts > 0, recent'[i].age <= Window,
                         recent'[i].age < call.attempts * Interval - (call.due - 1)
                  PROVE  ~Confirming(recent'[i].data)
                  <4> DEFINE e == recent[i]
                  <4>1. i \in 1 .. Len(recent) /\ DOMAIN recent = 1 .. Len(recent)
                        BY <1>0, <3>1, ViewTyped
                  <4>2. e \in [data : Reports(model), age : Nat]
                        <5>1. e \in Entries
                              BY <1>0, <4>1, ViewTyped, ElementOfSeq
                        <5>. QED
                              BY <5>1 DEF Entries
                  <4>3. recent'[i] = [e EXCEPT !.age = IF e.age > Window THEN e.age ELSE e.age + 1]
                        BY <3>1, <4>1
                  <4>4. /\ recent'[i].age = IF e.age > Window THEN e.age ELSE e.age + 1
                        /\ recent'[i].data = e.data /\ e.age \in Nat
                        BY <4>2, <4>3
                  <4> HIDE DEF e
                  <4>5. recent'[i].age = e.age + 1 /\ e.age <= Window
                        BY <3>3, <4>4, Times
                  <4>6. call.attempts * Interval \in Int
                        BY <3>2, Times
                  <4>7. e.age < call.attempts * Interval - call.due
                        BY <3>2, <3>3, <4>4, <4>5, <4>6
                  <4>. QED
                        BY <1>0, <2>2, <3>3, <4>1, <4>4, <4>5, <4>7 DEF NoneMissed, e
            <3>. QED
                  BY <3>1, <3>2, <3>3 DEF NoneMissed, Confirming, ExpectedKind
      <2>. QED
            BY <2>1, <2>2
<1>6. CASE Intake
      <2> DEFINE d == Head(air)
      <2>1. UNCHANGED model /\ d \in Reports(model)
            BY <1>0, <1>6, HeadIs DEF Intake, device
      <2>2. CASE call' = [call EXCEPT !.result = "confirmed", !.after = state']
                 /\ call # None /\ IsCall(call)
            <3>1. call'.result # "running"
                  BY <2>2 DEF IsCall
            <3>. QED
                  BY <3>1 DEF NoneMissed, CallRunning
      <2>3. CASE \E step \in Services(model, 0 .. 100) : Begin(step, state') /\ IsState(model, state')
            BY <1>0, <2>1, <2>3, BegunHolds
      <2>4. CASE call' = call /\ (Confirming(d) /\ CallRunning /\ call.attempts > 0 /\ ~Seen(d)
                                  => ~StepEncoded)
            <3>1. \/ Seen(d) /\ recent' = Pruned(d)
                  \/ ~Seen(d) /\ Remember(d)
                  BY <1>6 DEF Intake
            <3> HIDE DEF d
            <3>2. ASSUME NEW i \in 1 .. Len(recent'), CallRunning, call.attempts > 0,
                         recent'[i].age < call.attempts * Interval - call.due
                  PROVE  ~Confirming(recent'[i].data)
                  <4>1. \/ \E j \in 1 .. Len(recent) :
                              recent'[i] = recent[j] /\ recent[j].age <= Window
                        \/ ~Seen(d) /\ recent'[i] = [data |-> d, age |-> 0]
                        BY <1>0, <2>1, <3>1, IntakeRecent
                  <4>. QED
                        BY <1>0, <2>4, <3>2, <4>1 DEF NoneMissed
            <3>. QED
                  BY <2>1, <2>4, <3>2 DEF NoneMissed, CallRunning, Confirming, ExpectedKind
      <2>. QED
            BY <1>0, <1>6, <2>2, <2>3, <2>4, IntakeCall
<1>. QED
      BY <1>1, <1>2, <1>3, <1>4, <1>5, <1>6
         DEF ViewNext, viewVars, clientVars, device, Press, Broadcast

LEMMA AnswerStep == ViewInv /\ [ViewNext]_viewVars => LastAnswer'
<1> SUFFICES ASSUME ViewInv, [ViewNext]_viewVars PROVE LastAnswer'
    OBVIOUS
<1>0. ViewTypeOK /\ StepEncoded /\ NoneMissed /\ LastAnswer
      BY DEF ViewInv
<1>1. CASE UNCHANGED <<model, air, call, disturbed>>
      BY <1>0, <1>1 DEF LastAnswer, CallRunning, Confirming, ExpectedKind
<1>2. CASE Press
      BY <1>2 DEF Press, LastAnswer
<1>3. CASE Broadcast
      <2>1. air = <<>> /\ UNCHANGED <<call, disturbed>>
            BY <1>3 DEF Broadcast, clientVars
      <2>2. ~(CallRunning /\ call.attempts = Attempts /\ ~disturbed)
            BY <1>0, <2>1 DEF LastAnswer
      <2>. QED
            BY <2>1, <2>2 DEF LastAnswer, CallRunning
<1>4. CASE CallService
      <2>1. PICK step \in Services(model, Percentages) : Begin(step, state)
            BY <1>4 DEF CallService
      <2>2. step \in Services(model, 0 .. 100)
            BY <2>1, PercentagesAssumption DEF Services
      <2>. QED
            BY <1>0, <1>4, <2>1, <2>2, ViewTyped, BegunHolds DEF CallService, device
<1>5. CASE Attempt
      <2> DEFINE o == Obey(registers, call.frame)
                 q == IF echoes THEN steps ELSE 0
                 d == Report(model, o, ExpectedKind, q)
      <2>1. call # None /\ IsCall(call) /\ UNCHANGED model
            BY <1>0, <1>5, ViewTyped DEF Attempt, CallRunning
      <2>2. call'.due = Interval /\ call'.command = call.command
            BY <1>5, <2>1 DEF Attempt, IsCall
      <2>3. call'.attempts = Attempts /\ ~disturbed' => air' = Append(air, d)
            BY <1>5, Times DEF Attempt, Answer
      <2>4. Confirming(d)
            <3>1. call.step \in Services(model, 0 .. 100) /\ IsState(model, call.before)
                  BY <2>1 DEF IsCall
            <3>2. /\ call.frame = Encode(model, call.command)
                  /\ call.command = CommandOf(model, call.before, call.step)
                  BY <1>0, <2>1 DEF StepEncoded
            <3>3. ExpectedKind = (IF model = "M25" THEN "backlight" ELSE "state")
                  /\ ExpectedKind \in Kinds(model)
                  BY <1>0, <2>1, Expects
            <3>4. model \in Models /\ registers \in Registers(model)
                  BY <1>0, ViewTyped
            <3>5. /\ \A x : LET y == Report(model, o, IF model = "M25" THEN "backlight" ELSE "state", x)
                            IN Confirms(model, Decode(model, y.regs), call.command)
                  BY <3>1, <3>2, <3>4, StepObeyed
            <3>6. d.kind = ExpectedKind
                  BY DEF Report
            <3> HIDE DEF o, q
            <3>. QED
                  BY <3>3, <3>5, <3>6 DEF Confirming
      <2> HIDE DEF d
      <2>5. ASSUME call'.attempts = Attempts, ~disturbed'
            PROVE  \E i \in 1 .. Len(air') : air'[i] = d
            <3>1. air \in Seq(Reports(model)) /\ air' = Append(air, d)
                  BY <1>0, <2>3, <2>5, ViewTyped
            <3>2. Len(air) \in Nat /\ Len(air') = Len(air) + 1 /\ air'[Len(air) + 1] = d
                  BY <3>1
            <3>. QED
                  BY <3>2
      <2>. QED
            BY <2>1, <2>2, <2>4, <2>5 DEF LastAnswer, Confirming, ExpectedKind
<1>6. CASE GiveUp
      <2>1. call # None /\ IsCall(call) /\ call' = [call EXCEPT !.result = "failed", !.after = state]
            BY <1>0, <1>6, ViewTyped DEF GiveUp, CallRunning
      <2>2. call'.result # "running"
            BY <2>1 DEF IsCall
      <2>. QED
            BY <2>2 DEF LastAnswer, CallRunning
<1>7. CASE TimePasses
      <2>1. air = <<>> /\ disturbed' = disturbed
            BY <1>7 DEF TimePasses
      <2>2. ~(CallRunning /\ call.attempts = Attempts /\ ~disturbed)
            BY <1>0, <2>1 DEF LastAnswer
      <2>3. CASE ~CallRunning
            BY <1>7, <2>3 DEF TimePasses, LastAnswer, CallRunning
      <2>4. CASE CallRunning
            <3>1. call # None /\ IsCall(call) /\ call' = [call EXCEPT !.due = @ - 1]
                  BY <1>0, <1>7, <2>4, ViewTyped DEF TimePasses, CallRunning
            <3>2. call'.attempts = call.attempts
                  BY <3>1 DEF IsCall
            <3>. QED
                  BY <2>1, <2>2, <2>4, <3>2 DEF LastAnswer
      <2>. QED
            BY <2>3, <2>4
<1>8. CASE Intake
      <2> DEFINE d == Head(air)
      <2>1. UNCHANGED <<model, disturbed>> /\ air # <<>> /\ air' = Tail(air)
            BY <1>8 DEF Intake, device
      <2>2. CASE call' = [call EXCEPT !.result = "confirmed", !.after = state']
                 /\ call # None /\ IsCall(call)
            <3>1. call'.result # "running"
                  BY <2>2 DEF IsCall
            <3>. QED
                  BY <3>1 DEF LastAnswer, CallRunning
      <2>3. CASE \E step \in Services(model, 0 .. 100) : Begin(step, state') /\ IsState(model, state')
            BY <1>0, <2>1, <2>3, BegunHolds
      <2>4. CASE call' = call /\ (Confirming(d) /\ CallRunning /\ call.attempts > 0 /\ ~Seen(d)
                                  => ~StepEncoded)
            <3>1. SUFFICES ASSUME CallRunning, call.attempts = Attempts, ~disturbed
                  PROVE  call.due = Interval /\ \E i \in 1 .. Len(air') : Confirming(air'[i])
                  BY <2>1, <2>4 DEF LastAnswer, CallRunning, Confirming, ExpectedKind
            <3>2. call.due = Interval
                  BY <1>0, <3>1 DEF LastAnswer
            <3>3. PICK i \in 1 .. Len(air) : Confirming(air[i])
                  BY <1>0, <3>1 DEF LastAnswer
            <3>4. ASSUME i = 1 PROVE FALSE
                  <4>1. Confirming(d) /\ Seen(d)
                        BY <1>0, <2>1, <2>4, <3>1, <3>3, <3>4, HeadIs, Times
                  <4>2. recent \in Seq(Entries) /\ CountedOf(Unexpired, recent, Entries)
                        BY <1>0, ViewTyped, UnexpiredCounts
                  <4>3. PICK k \in 1 .. Len(recent) : recent[k].data = d /\ recent[k].age <= Window
                        BY <4>1, <4>2 DEF Seen, Pruned, CountedOf
                  <4>4. recent[k].age \in Nat
                        <5>1. recent[k] \in Entries
                              BY <4>2, ElementOfSeq
                        <5>. QED
                              BY <5>1 DEF Entries
                  <4>5. recent[k].age < call.attempts * Interval - call.due
                        <5>1. 3 * Interval - Interval = 2 * Interval
                              BY Times
                        <5>. QED
                              BY <3>1, <3>2, <4>3, <4>4, <5>1, Times
                  <4>. QED
                        BY <1>0, <3>1, <4>1, <4>3, <4>5, Times DEF NoneMissed
            <3>5. i - 1 \in 1 .. Len(air') /\ air'[i - 1] = air[i]
                  BY <1>0, <2>1, <3>3, <3>4, HeadIs
            <3>. QED
                  BY <3>2, <3>3, <3>5
      <2>. QED
            BY <1>0, <1>8, <2>2, <2>3, <2>4, IntakeCall
<1>. QED
      BY <1>1, <1>2, <1>3, <1>4, <1>5, <1>6, <1>7, <1>8
         DEF ViewNext, viewVars, clientVars, device

LEMMA ViewInitInv == ViewInit => ViewInv
<1> SUFFICES ASSUME ViewInit PROVE ViewInv
    OBVIOUS
<1> DEFINE d == Report(model, registers, "state", 0)
<1>1. model \in Models /\ model \in Selected /\ registers \in Registers(model)
      BY SelectedAssumption DEF ViewInit
<1>2. d \in Reports(model)
      <2>1. "state" \in Kinds(model)
            BY DEF Kinds
      <2>. QED
            BY <1>1, <2>1, ReportIs
<1>3. /\ echoes \in BOOLEAN /\ air = <<>> /\ recent = <<[data |-> d, age |-> 0]>>
      /\ state = Decode(model, d.regs) /\ taken = {[data |-> d, age |-> 0]}
      /\ call = None /\ steps = 0 /\ disturbed = FALSE
      BY DEF ViewInit
<1> HIDE DEF d
<1>4. ViewTypeOK
      <2>1. air \in Seq(Reports(model)) /\ recent \in Seq([data : Reports(model), age : Nat])
            BY <1>2, <1>3
      <2>2. IsState(model, state)
            BY <1>1, <1>2, <1>3, DecodesState
      <2>3. steps \in Nat /\ disturbed \in BOOLEAN
            BY <1>3
      <2>. QED
            BY <1>1, <1>3, <2>1, <2>2, <2>3 DEF ViewTypeOK
<1>5. RecentTaken
      BY <1>3 DEF RecentTaken
<1>. QED
      BY <1>3, <1>4, <1>5
         DEF ViewInv, StepEncoded, DeviceObeyed, NoneMissed, LastAnswer, CallRunning

\* The inductive invariant of DeviceView, for any window, table size and times: a
\* step's frame is the one the codec makes of it, and since its first transmission
\* no report that confirms it was dropped, because the window of duplicates is
\* shorter than two attempts (transport.py _datagram_received, _command_worker).
THEOREM ViewInvariant == ViewSpec => []ViewInv
<1>1. ViewInv /\ [ViewNext]_viewVars => ViewInv'
      BY ViewTypeStep, RecentStep, EncodedStep, ObeyedStep, MissedStep, AnswerStep DEF ViewInv
<1>. QED
      BY <1>1, ViewInitInv, PTL DEF ViewSpec

LEMMA ObeyedAndShown == ViewInv => ObeyedIsShown
<1> SUFFICES ASSUME ViewInv, call # None, ~CallRunning
             PROVE  /\ call.result = "confirmed" =>
                         Shows(model, call.after, call.before, call.step)
                    /\ ~disturbed =>
                         /\ call.result = "confirmed"
                         /\ ShowsAll(model, Decode(model, registers), call.before, call.step)
    BY DEF ObeyedIsShown
<1>0. ViewTypeOK /\ StepEncoded /\ DeviceObeyed
      BY DEF ViewInv
<1>1. /\ model \in Models /\ registers \in Registers(model)
      /\ call.step \in Services(model, 0 .. 100) /\ IsState(model, call.before)
      /\ call.result \in {"confirmed", "failed"}
      BY <1>0, ViewTyped DEF IsCall, CallRunning
<1>2. /\ call.command = CommandOf(model, call.before, call.step)
      /\ call.frame = Encode(model, call.command)
      /\ call.result = "confirmed" =>
           call.attempts > 0 /\ Confirms(model, call.after, call.command)
      /\ call.result = "failed" => disturbed
      BY <1>0 DEF StepEncoded
<1>3. call.result = "confirmed" => Shows(model, call.after, call.before, call.step)
      BY <1>1, <1>2, StepShown
<1>4. ASSUME ~disturbed
      PROVE  call.result = "confirmed"
             /\ ShowsAll(model, Decode(model, registers), call.before, call.step)
      <2>1. call.result = "confirmed" /\ call.attempts > 0
            BY <1>1, <1>2, <1>4
      <2>2. Obey(registers, call.frame) = registers
            BY <1>0, <1>4, <2>1 DEF DeviceObeyed
      <2>3. LET f == Encode(model, CommandOf(model, call.before, call.step))
            IN ShowsAll(model, Decode(model, Obey(registers, f)), call.before, call.step)
            BY <1>1, StepObeyed
      <2>. QED
            BY <1>2, <2>1, <2>2, <2>3
<1>. QED
      BY <1>3, <1>4

\* What is confirmed is shown; what the device obeys, with nothing lost and nobody
\* else touching it, is confirmed within the attempts, duplicates and all, and the
\* device then does all that was asked (transport.py _state_confirms_command and
\* _datagram_received; the entities' properties).
THEOREM ObeyedShown == ViewSpec => []ObeyedIsShown
    BY ViewInvariant, ObeyedAndShown, PTL

LEMMA TakesStep ==
    ViewInv /\ [ViewNext]_viewVars =>
      (air # <<>> /\ air' = Tail(air) =>
         LET d == Head(air)
             reading == Decode(model, d.regs)
         IN \/ \E t \in taken : t.data = d
            \/ state' = [f \in Fields |-> IF model = "M25" /\ f \notin DOMAIN d.regs
                                          THEN state[f] ELSE reading[f]])
<1> DEFINE d == Head(air)
           reading == Decode(model, d.regs)
<1> SUFFICES ASSUME ViewInv, [ViewNext]_viewVars, air # <<>>, air' = Tail(air)
             PROVE  \/ \E t \in taken : t.data = d
                    \/ state' = [f \in Fields |-> IF model = "M25" /\ f \notin DOMAIN d.regs
                                                  THEN state[f] ELSE reading[f]]
    OBVIOUS
<1>0. ViewTypeOK /\ RecentTaken
      BY DEF ViewInv
<1>1. /\ d \in Reports(model) /\ Len(air') = Len(air) - 1 /\ Len(air) \in Nat
      BY <1>0, HeadIs
<1>2. Intake
      <2>1. ASSUME air' = air
            PROVE  FALSE
            <3>1. Len(air') = Len(air)
                  BY <2>1
            <3>2. Len(air') = Len(air) - 1 /\ Len(air) \in Nat
                  BY <1>1
            <3>. QED
                  BY <3>1, <3>2
      <2>2. ASSUME Attempt
            PROVE  FALSE
            <3>1. air \in Seq(Reports(model))
                  BY <1>0, ViewTyped
            <3>2. PICK r \in {registers, Obey(registers, call.frame)} : air' \in {air, Answer(r)}
                  BY <2>2 DEF Attempt
            <3>3. air' # air => Len(air') = Len(air) + 1
                  BY <3>1, <3>2 DEF Answer
            <3>4. Len(air') = Len(air) - 1 /\ Len(air) \in Nat
                  BY <1>1
            <3>5. air' # air
                  BY <2>1
            <3>. QED
                  BY <3>3, <3>4, <3>5
      <2>. QED
            BY <2>1, <2>2
               DEF ViewNext, viewVars, Press, Broadcast, CallService, GiveUp, TimePasses
<1>3. CASE Seen(d)
      <2>1. recent \in Seq(Entries) /\ CountedOf(Unexpired, recent, Entries)
            BY <1>0, ViewTyped, UnexpiredCounts
      <2>2. \E k \in 1 .. Len(recent) : recent[k].data = d /\ recent[k].age <= Window
            BY <1>3, <2>1 DEF Seen, Pruned, CountedOf
      <2>. QED
            BY <1>0, <2>2 DEF RecentTaken
<1>4. CASE ~Seen(d)
      <2>1. state' = Merge(model, state, reading)
            BY <1>2, <1>4 DEF Intake
      <2>2. model \in Models /\ IsState(model, state) /\ IsState(model, reading)
            BY <1>0, <1>1, ViewTyped, DecodesState
      <2>3. state # None
            BY <2>2, StateIsSome
      <2>4. CASE model # "M25"
            <3>1. state' = reading
                  BY <2>1, <2>2, <2>4, Families, PurifierKinds DEF Merge
            <3>2. reading = [f \in Fields |-> reading[f]]
                  BY <2>2 DEF IsState
            <3>. QED
                  BY <2>4, <3>1, <3>2
      <2>5. CASE model = "M25"
            <3>1. reading = [f \in Fields |-> IF f \in DOMAIN d.regs THEN d.regs[f] ELSE None]
                  BY <2>5, DecodesDetector
            <3>2. \A f \in DOMAIN d.regs : d.regs[f] # None
                  <4>1. d.regs \in [pm25 : Nat] \cup [backlight : {0, 1}]
                        BY <1>1, <2>5 DEF Reports
                  <4>. QED
                        BY <4>1, NoneAssumption
            <3>3. Merge(model, state, reading)
                  = [f \in Fields |-> IF reading[f] = None THEN state[f] ELSE reading[f]]
                  BY <2>2, <2>3, <2>5, Families DEF Merge
            <3> HIDE DEF d, reading
            <3>4. \A f \in Fields : (IF reading[f] = None THEN state[f] ELSE reading[f])
                     = IF f \notin DOMAIN d.regs THEN state[f] ELSE reading[f]
                  BY <3>1, <3>2
            <3>. QED
                  BY <2>1, <2>5, <3>3, <3>4 DEF reading
      <2>. QED
            BY <2>4, <2>5
<1>. QED
      BY <1>3, <1>4

\* A delivered report becomes what the entities show, unless the same bytes did so
\* within the window (transport.py _datagram_received, _prune_duplicates).
THEOREM TakesAll == ViewSpec => TakesAllButRepeats
    BY ViewInvariant, TakesStep, PTL DEF ViewSpec, TakesAllButRepeats

\* What a purifier that is on shows of a percentage it has obeyed.
LEMMA ShownOf ==
    ASSUME NEW m \in Purifiers, NEW r \in Registers(m), r.power = Zero, NEW p \in 1 .. 100
    PROVE  LET s == Decode(m, Obey(r, Encode(m, SetPercentage(m, p))))
           IN /\ s.power = TRUE /\ s.mode = 4 /\ Confirms(m, s, SetPercentage(m, p))
              /\ m \in Continuous => s.flow = FlowFor(m, p)
              /\ m \notin Continuous => s.speed = PercentageItem(p, Speeds(m))
<1> DEFINE s == Decode(m, Obey(r, Encode(m, SetPercentage(m, p))))
<1>1. s.power = TrueIfZero(r.power) /\ s.mode = 4 /\ Confirms(m, s, SetPercentage(m, p))
      BY ObeyedPercentage
<1> HIDE DEF s
<1>2. s.power = TRUE
      BY <1>1, Bytes
<1>3. m \in Continuous => s.flow = FlowFor(m, p)
      BY <1>1, PercentageCommand
<1>4. m \notin Continuous => s.speed = PercentageItem(p, Speeds(m))
      BY <1>1, PercentageCommand
<1>. QED
      BY <1>1, <1>2, <1>3, <1>4 DEF s

LEMMA ProfileShown ==
    ASSUME NEW m \in Purifiers, m \notin Continuous, NEW r \in Registers(m), NEW p \in 1 .. 100
    PROVE  Decode(m, Obey(r, Encode(m, SetPercentage(m, p)))).profile = r.profile
<1> DEFINE f == Encode(m, SetPercentage(m, p))
           i == PercentageItem(p, Speeds(m))
           o == Obey(r, f)
<1>1. f = [code |-> 82, value |-> i]
      BY PercentageCommand
<1>2. i \in Nat
      BY PurifierKinds, ItemOf DEF IsItem
<1>3. o \in Registers(m)
      BY ObeyedPercentage
<1> HIDE DEF f, i
<1>4. o = [r EXCEPT !.speed = i, !.mode = 4]
      BY <1>1 DEF Obey, Code
<1>5. o = TurnedManual(r, "speed", i)
      BY <1>4 DEF TurnedManual
<1> HIDE DEF o
<1>6. o.profile = r.profile
      BY <1>2, <1>5, TurnedTwice DEF Names
<1>7. Decode(m, o).profile = o.profile
      BY <1>3, DecodesPurifier DEF Reads
<1>. QED
      BY <1>6, <1>7 DEF o, f

\* The curves grow with the speed.
LEMMA CurvesGrow ==
    ASSUME NEW m \in Purifiers, m \notin Continuous, NEW profile \in {0, 1},
           NEW i \in 1 .. Speeds(m), NEW j \in 1 .. Speeds(m), i <= j
    PROVE  LET curve == Curve(m, profile)
           IN i \in DOMAIN curve /\ j \in DOMAIN curve /\ curve[i] <= curve[j]
<1>1. CASE m \in SixSpeed
      <2>1. Speeds(m) = 6
            BY <1>1, PurifierKinds
      <2>2. CASE profile = 0
            <3>1. Curve(m, profile) = <<140, 240, 360, 500, 610, 760>>
                  BY <1>1, <2>2 DEF Curve, SixSpeed, FiveSpeed
            <3>. QED
                  BY <2>1, <3>1
      <2>3. CASE profile = 1
            <3>1. Curve(m, profile) = <<60, 140, 220, 330, 390, 500>>
                  BY <1>1, <2>3 DEF Curve, SixSpeed, FiveSpeed
            <3>. QED
                  BY <2>1, <3>1
      <2>. QED
            BY <2>2, <2>3
<1>2. CASE m \in FiveSpeed
      <2>1. Speeds(m) = 5
            BY <1>2, PurifierKinds DEF SixSpeed, FiveSpeed
      <2>2. CASE profile = 0
            <3>1. Curve(m, profile) = <<150, 220, 300, 400, 510, 600>>
                  BY <1>2, <2>2 DEF Curve, SixSpeed, FiveSpeed
            <3>. QED
                  BY <2>1, <3>1
      <2>3. CASE profile = 1
            <3>1. Curve(m, profile) = <<120, 170, 240, 330, 430, 540>>
                  BY <1>2, <2>3 DEF Curve, SixSpeed, FiveSpeed
            <3>. QED
                  BY <2>1, <3>1
      <2>. QED
            BY <2>2, <2>3
<1>. QED
      BY <1>1, <1>2 DEF Purifiers

LEMMA AirflowGrows ==
    ASSUME NEW m \in Purifiers, NEW r \in Registers(m), r.power = Zero, r.profile \in {0, 1},
           NEW p \in 1 .. 99
    PROVE  Airflow(m, Decode(m, Obey(r, Encode(m, SetPercentage(m, p)))))
             <= Airflow(m, Decode(m, Obey(r, Encode(m, SetPercentage(m, p + 1)))))
<1> DEFINE s == Decode(m, Obey(r, Encode(m, SetPercentage(m, p))))
           t == Decode(m, Obey(r, Encode(m, SetPercentage(m, p + 1))))
<1>0. p \in 1 .. 100 /\ p + 1 \in 1 .. 100
      OBVIOUS
<1>1. CASE m \in Continuous
      <2> DEFINE span == MaxFlow(m) - MinFlow
      <2>1. s.flow = FlowFor(m, p) /\ t.flow = FlowFor(m, p + 1)
            BY <1>0, <1>1, ShownOf
      <2>2. span \in Spans /\ FlowFor(m, p) = FlowAt(span, p) /\ FlowFor(m, p + 1) = FlowAt(span, p + 1)
            BY <1>1, SpanOf
      <2> HIDE DEF s, t, span
      <2>3. FlowAt(span, p) <= FlowAt(span, p + 1)
            BY <2>2, FlowGrows
      <2>. QED
            BY <1>1, <2>1, <2>2, <2>3 DEF Airflow, s, t
<1>2. CASE m \notin Continuous
      <2> DEFINE n == Speeds(m)
                 i == PercentageItem(p, n)
                 j == PercentageItem(p + 1, n)
      <2>1. s.speed = i /\ t.speed = j
            BY <1>0, <1>2, ShownOf
      <2>2. s.profile = r.profile /\ t.profile = r.profile
            BY <1>0, <1>2, ProfileShown
      <2>3. n \in {5, 6} /\ IsItem(i, p, n) /\ IsItem(j, p + 1, n)
            BY <1>0, <1>2, PurifierKinds, ItemOf
      <2> HIDE DEF s, t, i, j, n
      <2>4. i \in 1 .. n /\ j \in 1 .. n /\ i <= j
            BY <2>3, ItemsOrdered DEF IsItem
      <2>5. LET curve == Curve(m, r.profile)
            IN i \in DOMAIN curve /\ j \in DOMAIN curve /\ curve[i] <= curve[j]
            BY <1>2, <2>4, CurvesGrow DEF n
      <2>6. Airflow(m, s) = Curve(m, r.profile)[i] /\ Airflow(m, t) = Curve(m, r.profile)[j]
            BY <1>2, <2>1, <2>2, <2>5 DEF Airflow
      <2>. QED
            BY <2>5, <2>6 DEF s, t
<1>. QED
      BY <1>1, <1>2

LEMMA EndsShown ==
    ASSUME NEW m \in Purifiers, NEW r \in Registers(m), r.power = Zero
    PROVE  /\ Percentage(m, Decode(m, Obey(r, Encode(m, SetPercentage(m, 1)))))
                <= 100 \div SpeedCount(m)
           /\ Percentage(m, Decode(m, Obey(r, Encode(m, SetPercentage(m, 100))))) = 100
<1> DEFINE s == Decode(m, Obey(r, Encode(m, SetPercentage(m, 1))))
           t == Decode(m, Obey(r, Encode(m, SetPercentage(m, 100))))
<1>0. 1 \in 1 .. 100 /\ 100 \in 1 .. 100 /\ None \notin Int
      BY NoneAssumption
<1>1. CASE m \in Continuous
      <2> DEFINE span == MaxFlow(m) - MinFlow
      <2>1. /\ s.flow = FlowFor(m, 1) /\ t.flow = FlowFor(m, 100)
            /\ s.power = TRUE /\ t.power = TRUE
            <3>1. s.flow = FlowFor(m, 1) /\ s.power = TRUE
                  BY <1>0, <1>1, ShownOf
            <3>2. t.flow = FlowFor(m, 100) /\ t.power = TRUE
                  BY <1>0, <1>1, ShownOf, ZenonT(60)
            <3>. QED
                  BY <3>1, <3>2
      <2>2. /\ span \in Spans /\ MinFlow = 40
            /\ FlowFor(m, 1) = FlowAt(span, 1) /\ FlowFor(m, 100) = FlowAt(span, 100)
            BY <1>1, SpanOf
      <2> HIDE DEF s, t
      <2>3. /\ Percentage(m, s) = IF s.flow = None THEN None ELSE PercentAt(span, s.flow)
            /\ Percentage(m, t) = IF t.flow = None THEN None ELSE PercentAt(span, t.flow)
            BY <1>1, <2>1, <2>2 DEF Percentage, IsOn, PercentAt
      <2> HIDE DEF span
      <2>4. FlowAt(span, 1) \in Int /\ FlowAt(span, 100) \in Int
            <3>1. /\ FlowAt(span, 1) \in 40 .. 40 + span /\ FlowAt(span, 100) \in 40 .. 40 + span
                  BY <1>0, <2>2, FlowRange
            <3>. QED
                  BY <2>2, <3>1 DEF Spans
      <2>5. PercentAt(span, FlowAt(span, 1)) = 1 /\ PercentAt(span, FlowAt(span, 100)) = 100
            BY <2>2, FlowGrows
      <2>6. SpeedCount(m) = 100
            BY <1>1 DEF SpeedCount
      <2>7. Percentage(m, s) = 1 /\ Percentage(m, t) = 100
            BY <1>0, <2>1, <2>2, <2>3, <2>4, <2>5
      <2>. QED
            BY <2>6, <2>7 DEF s, t
<1>2. CASE m \notin Continuous
      <2> DEFINE n == Speeds(m)
                 i == PercentageItem(1, n)
                 j == PercentageItem(100, n)
      <2>1. s.speed = i /\ t.speed = j /\ s.power = TRUE /\ t.power = TRUE
            <3>1. s.speed = i /\ s.power = TRUE
                  BY <1>0, <1>2, ShownOf
            <3>2. t.speed = j /\ t.power = TRUE
                  BY <1>0, <1>2, ShownOf, ZenonT(60)
            <3>. QED
                  BY <3>1, <3>2
      <2>2. n \in {5, 6} /\ IsItem(i, 1, n) /\ IsItem(j, 100, n)
            BY <1>0, <1>2, PurifierKinds, ItemOf
      <2> HIDE DEF s, t, i, j
      <2>3. /\ Percentage(m, s) = IF s.speed = None THEN None ELSE IF s.speed > n THEN 100
                                  ELSE ItemPercentage(s.speed, n)
            /\ Percentage(m, t) = IF t.speed = None THEN None ELSE IF t.speed > n THEN 100
                                  ELSE ItemPercentage(t.speed, n)
            BY <1>2, <2>1 DEF Percentage, IsOn
      <2>4. SpeedCount(m) = n
            BY <1>2 DEF SpeedCount
      <2> HIDE DEF n
      <2>5. i = 1 /\ j = n
            <3>1. CASE n = 5
                  BY <2>2, <3>1 DEF IsItem
            <3>2. CASE n = 6
                  BY <2>2, <3>2 DEF IsItem
            <3>. QED
                  BY <2>2, <3>1, <3>2
      <2>6. ItemPercentage(1, n) = 100 \div n /\ ItemPercentage(n, n) = 100 /\ 100 \div n \in Int
            <3>1. CASE n = 5
                  BY <3>1 DEF ItemPercentage
            <3>2. CASE n = 6
                  BY <3>2 DEF ItemPercentage
            <3>. QED
                  BY <2>2, <3>1, <3>2
      <2>7. Percentage(m, s) = 100 \div n /\ Percentage(m, t) = 100
            <3>1. n \in Int /\ ~(1 > n) /\ ~(n > n) /\ 1 # None /\ n # None
                  BY <1>0, <2>2
            <3>2. s.speed = 1 /\ t.speed = n
                  BY <2>1, <2>5
            <3>3. Percentage(m, s) = ItemPercentage(1, n)
                  BY <2>3, <3>1, <3>2
            <3>4. Percentage(m, t) = ItemPercentage(n, n)
                  BY <2>3, <3>1, <3>2
            <3>. QED
                  BY <2>6, <3>3, <3>4
      <2>. QED
            BY <2>4, <2>6, <2>7 DEF s, t
<1>. QED
      BY <1>1, <1>2

LEMMA AgreeOn ==
    ASSUME ViewTypeOK
    PROVE  PercentagesAgree
<1> SUFFICES ASSUME model # "M25", NEW m \in Purifiers, NEW profile \in {0, 1}
    PROVE  LET setting(p) == Encode(m, SetPercentage(m, p))
               found == [registers EXCEPT !.power = Zero, !.profile = profile]
               shown(p) == Decode(m, Obey(found, setting(p)))
           IN /\ \A p \in 1 .. 100 :
                   /\ setting(p) # None
                   /\ ShowsAll(m, shown(p), state, [service |-> "set_percentage", value |-> p])
                   /\ setting(Percentage(m, shown(p))) = setting(p)
              /\ \A p \in 1 .. 99 : Airflow(m, shown(p)) <= Airflow(m, shown(p + 1))
              /\ Percentage(m, shown(1)) <= 100 \div SpeedCount(m)
              /\ Percentage(m, shown(100)) = 100
    BY DEF PercentagesAgree
<1> DEFINE found == [registers EXCEPT !.power = Zero, !.profile = profile]
<1>1. found \in Registers(m) /\ found.power = Zero /\ found.profile = profile
      <2>1. model \in Purifiers /\ registers \in Registers(model)
            BY ViewTyped, Families
      <2>2. registers \in [Names -> Nat]
            BY <2>1, RegistersAre
      <2>3. found \in [Names -> Nat] /\ found.power = Zero /\ found.profile = profile
            <3>1. Zero \in Nat /\ profile \in Nat /\ {"power", "profile"} \subseteq Names
                  BY DEF Names, Zero
            <3>. QED
                  BY <2>2, <3>1
      <2> HIDE DEF found
      <2>. QED
            BY <2>3, RegistersAre
<1> HIDE DEF found
<1>2. ASSUME NEW p \in 1 .. 100
      PROVE  LET setting(x) == Encode(m, SetPercentage(m, x))
                 s == Decode(m, Obey(found, setting(p)))
             IN /\ setting(p) # None
                /\ ShowsAll(m, s, state, [service |-> "set_percentage", value |-> p])
                /\ setting(Percentage(m, s)) = setting(p)
      <2> DEFINE s == Decode(m, Obey(found, Encode(m, SetPercentage(m, p))))
                 step == [service |-> "set_percentage", value |-> p]
      <2>1. s.power = TRUE /\ s.mode = 4 /\ Confirms(m, s, SetPercentage(m, p))
            BY <1>1, ShownOf
      <2>2. Encode(m, SetPercentage(m, p)) # None
            <3>1. CASE m \in Continuous
                  <4> DEFINE span == MaxFlow(m) - MinFlow
                  <4>1. span \in Spans /\ FlowFor(m, p) = FlowAt(span, p)
                        BY <3>1, SpanOf
                  <4> HIDE DEF span
                  <4>2. FlowFor(m, p) \in Int
                        <5>1. FlowAt(span, p) \in 40 .. 40 + span
                              BY <4>1, FlowRange
                        <5>. QED
                              BY <4>1, <5>1 DEF Spans
                  <4>3. Encode(m, SetPercentage(m, p)) = [code |-> 88, value |-> FlowFor(m, p)]
                        BY <3>1, PercentageCommand
                  <4>. QED
                        BY <4>2, <4>3, FrameIsSome
            <3>2. CASE m \notin Continuous
                  <4>1. PercentageItem(p, Speeds(m)) \in Int
                        BY <3>2, PurifierKinds, ItemOf DEF IsItem
                  <4>2. Encode(m, SetPercentage(m, p))
                        = [code |-> 82, value |-> PercentageItem(p, Speeds(m))]
                        BY <3>2, PercentageCommand
                  <4>. QED
                        BY <4>1, <4>2, FrameIsSome
            <3>. QED
                  BY <3>1, <3>2
      <2> HIDE DEF s
      <2>3. s.power # FALSE
            BY <2>1
      <2>4. /\ Near(Percentage(m, s), p, Share(m))
            /\ Encode(m, SetPercentage(m, Percentage(m, s))) = Encode(m, SetPercentage(m, p))
            BY <2>1, <2>3, PercentageShown
      <2>5. Shows(m, s, state, step)
            BY <2>3, <2>4 DEF Shows, IsOn, Share
      <2>6. PresetMode(m, s) = "manual"
            <3>1. "manual" \in DOMAIN Presets(m) /\ s.mode = Presets(m)["manual"]
                  BY <2>1, PresetValues
            <3>. QED
                  BY <2>3, <3>1, PresetShown
      <2>7. ShowsAll(m, s, state, step)
            BY <2>5, <2>6 DEF ShowsAll
      <2>. QED
            BY <2>2, <2>4, <2>7 DEF s
<1>3. \A p \in 1 .. 99 : Airflow(m, Decode(m, Obey(found, Encode(m, SetPercentage(m, p)))))
             <= Airflow(m, Decode(m, Obey(found, Encode(m, SetPercentage(m, p + 1)))))
      BY <1>1, AirflowGrows
<1>4. /\ Percentage(m, Decode(m, Obey(found, Encode(m, SetPercentage(m, 1)))))
           <= 100 \div SpeedCount(m)
      /\ Percentage(m, Decode(m, Obey(found, Encode(m, SetPercentage(m, 100))))) = 100
      BY <1>1, EndsShown
<1>. QED
      BY <1>2, <1>3, <1>4, Zenon DEF found

\* Every percentage of every purifier asks for a documented setting, shows again
\* within one step of itself and never asks for less air than a smaller one
\* (fan.py, protocols/f072.py flow_for_percentage, the airflow curves).
THEOREM Agreement == ViewSpec => []PercentagesAgree
<1>1. ViewInv => PercentagesAgree
      BY AgreeOn DEF ViewInv
<1>. QED
      BY <1>1, ViewInvariant, PTL
=============================================================================
