--------------------------- MODULE PowerProbeProofs ---------------------------
(***************************************************************************)
(* Theorems about PowerProbe, for one or two devices, any number of scan   *)
(* rounds and queries, and any state the devices are found in: what a      *)
(* power test reports is what the device was left with.                    *)
(***************************************************************************)
EXTENDS PowerProbe, TLAPS

\* The read in progress ends with this observation.
Ended(observed) ==
    /\ Reading
    /\ \/ phase = "initial" /\ InitialEnds(observed)
       \/ phase = "toggle" /\ ToggleEnds(observed)
       \/ phase = "restore" /\ RestoreEnds(observed)
    /\ UNCHANGED <<device, heard, attempts, interrupted, escaped, power, late>>

\* A state that is not the expected one is remembered.
Remembered(r) ==
    /\ read' = [read EXCEPT !.observed = r.on]
    /\ UNCHANGED <<device, phase, heard, test, reports, net, writes, power, late>>

\* The query s is answered; the write w to device d is executed.
Answers(s) ==
    /\ asked' = asked \ {s}
    /\ replies' = replies \cup {[seq |-> s, on |-> power[device]]}
    /\ UNCHANGED <<tool, writes, power, late>>

Executes(d, w) ==
    /\ power' = [power EXCEPT ![d] = w.on]
    /\ writes' = [writes EXCEPT ![d] = @ \ {w}]
    /\ replies' = IF d = device /\ phase \in {"toggle", "pause", "restore"}
                  THEN replies \cup {w} ELSE replies
    /\ late' = IF w.on # original[d] /\ ~(d = device /\ w.seq \in read.accepted)
               THEN late \cup {d} ELSE late
    /\ UNCHANGED <<tool, asked>>

\* Where an observation comes from.
Observed(observed) ==
    \/ observed = "unknown"
    \/ observed = read.observed
    \/ \E r \in replies : /\ r.seq \in read.accepted /\ r.on = observed
                          /\ read.expected \in {"any", r.on}

LEMMA Opposites == \A p \in Powers : Opposite(p) \in Powers /\ Opposite(p) # p
BY DEF Powers, Opposite

\* A read ends only in the phases that have one.
LEMMA ReadingPhases ==
    ASSUME IndInv, Reading
    PROVE  phase \in {"initial", "toggle", "restore"}
BY DEF IndInv, ReadShape, Reading, NoRead

\* The initial state of a device under test is known.
LEMMA KnownInTest ==
    ASSUME IndInv, phase \in Testing
    PROVE  original[device] \in Powers
BY DEF IndInv, TypeOK, RunShape, RunOf

\* What a reply, a time-out or a socket error does to the read in progress.
LEMMA ReadSteps ==
    ASSUME IndInv, Receive \/ TimesOut \/ SocketError
    PROVE  \/ \E r \in replies :
                Reading /\ r.on # read.expected /\ read.expected # "any" /\ Remembered(r)
           \/ \E observed \in {"unknown"} \cup Powers :
                Observed(observed) /\ Ended(observed)
<1>1. ASSUME Reading,
             NEW observed \in {"unknown"} \cup Powers,
             Observed(observed), ReadEnds(observed)
      PROVE  Ended(observed)
      BY <1>1, ReadingPhases DEF Ended, ReadEnds
<1>2. CASE TimesOut
      <2>1. read.observed \in {"unknown"} \cup Powers /\ Observed(read.observed)
            BY DEF IndInv, TypeOK, Observed
      <2>. QED
            BY <1>1, <1>2, <2>1 DEF TimesOut
<1>3. CASE SocketError
      <2>1. Ended("unknown") /\ Observed("unknown")
            BY <1>3, ReadingPhases DEF SocketError, Ended, Observed
      <2>. QED
            BY <2>1
<1>4. CASE Receive
      <2>1. PICK r \in replies :
              /\ Reading /\ r.seq \in read.accepted
              /\ IF read.expected \in {"any", r.on} THEN ReadEnds(r.on)
                 ELSE Remembered(r)
            BY <1>4 DEF Receive, Counts, Remembered
      <2>2. r.on \in Powers
            BY DEF IndInv, TypeOK, Datagram
      <2>3. CASE read.expected \in {"any", r.on}
            <3>1. Observed(r.on) /\ ReadEnds(r.on)
                  BY <2>1, <2>3 DEF Observed
            <3>. QED
                  BY <1>1, <2>1, <2>2, <3>1
      <2>4. CASE read.expected \notin {"any", r.on}
            BY <2>1, <2>4
      <2>. QED
            BY <2>3, <2>4
<1>. QED
      BY <1>2, <1>3, <1>4

\* The steps of the module, with those of a read told apart by their effect.
LEMMA Steps ==
    ASSUME IndInv, [Next]_vars
    PROVE  \/ Round \/ Hear \/ ScanDone \/ ScanBroken \/ Query
           \/ \E s \in asked : Answers(s)
           \/ \E d \in Devices : \E w \in writes[d] : Executes(d, w)
           \/ \E r \in replies :
                Reading /\ r.on # read.expected /\ read.expected # "any" /\ Remembered(r)
           \/ \E observed \in {"unknown"} \cup Powers :
                Observed(observed) /\ Ended(observed)
           \/ Slept \/ Restore \/ Interrupt \/ NextDevice \/ Finish
           \/ UNCHANGED vars
BY ReadSteps DEF Next, Tool, AnswerQuery, ExecuteWrite, Answers, Executes

LEMMA InitInv == Init => IndInv
<1> SUFFICES ASSUME Init PROVE IndInv
    OBVIOUS
<1> USE CountAssumption, FoundAssumption DEF Init, NoRead, Devices
<1>1. TypeOK
      <2>1. device \in Devices /\ power \in [Devices -> Powers]
            OBVIOUS
      <2>2. read \in [expected : {"any"} \cup Powers, accepted : SUBSET Nat, queries : Nat,
                     observed : {"unknown"} \cup Powers]
            OBVIOUS
      <2>3. /\ writes \in [Devices -> SUBSET Datagram]
            /\ original \in [Devices -> {"unknown"} \cup Powers]
            OBVIOUS
      <2>4. /\ result \in [Devices -> TestStatuses] /\ scan \in [Devices -> ScanStatuses]
            /\ restored \in [Devices -> {"none", "yes", "no"}]
            BY DEF TestStatuses, ScanStatuses
      <2>. QED
            BY <2>1, <2>2, <2>3, <2>4 DEF TypeOK
<1>2. ReadShape
      BY DEF ReadShape, Done
<1>3. RunShape
      BY DEF RunShape, RunOf, Testing, Done
<1>4. SequencesUsed
      BY DEF SequencesUsed
<1>5. OneToggle
      BY DEF OneToggle, Executed
<1>6. StatesBefore /\ ToggleTimely /\ RestoreFresh
      BY DEF StatesBefore, ToggleTimely, RestoreFresh
<1>7. ReportsTrue
      BY DEF ReportsTrue, ReportOf
<1>. QED
      BY <1>1, <1>2, <1>3, <1>4, <1>5, <1>6, <1>7 DEF IndInv

\* The types of what the shared pieces of the actions assign.
LEMMA RunEndsTyped ==
    ASSUME IndInv, NEW scanned \in ScanStatuses, NEW tested \in TestStatuses,
           RunEnds(scanned, tested)
    PROVE  /\ phase' = "stop" /\ read' = NoRead /\ asked' = {} /\ replies' = {}
           /\ scan' \in [Devices -> ScanStatuses] /\ result' \in [Devices -> TestStatuses]
BY DEF RunEnds, IndInv, TypeOK

LEMMA NoReadTyped ==
    NoRead \in [expected : {"any"} \cup Powers, accepted : SUBSET Nat, queries : Nat,
                observed : {"unknown"} \cup Powers]
BY DEF NoRead

LEMMA SetPowerTyped ==
    ASSUME IndInv, NEW desired \in Powers, SetPower(desired)
    PROVE  /\ used' \in Nat /\ writes' \in [Devices -> SUBSET Datagram]
           /\ read' \in [expected : {"any"} \cup Powers, accepted : SUBSET Nat,
                         queries : Nat, observed : {"unknown"} \cup Powers]
<1> USE DEF IndInv, TypeOK, SetPower
<1>1. used' \in Nat
      OBVIOUS
<1>2. [seq |-> used', on |-> desired] \in Datagram
      BY <1>1 DEF Datagram
<1>3. writes' \in [Devices -> SUBSET Datagram]
      BY <1>2
<1>4. read' \in [expected : {"any"} \cup Powers, accepted : SUBSET Nat,
                 queries : Nat, observed : {"unknown"} \cup Powers]
      BY <1>1 DEF NoRead
<1>. QED
      BY <1>1, <1>3, <1>4

LEMMA StatusTyped ==
    ASSUME NEW confirmed \in BOOLEAN, NEW stopped \in BOOLEAN
    PROVE  Status(confirmed, stopped) \in TestStatuses
BY DEF Status, TestStatuses

LEMMA RestoreDoneTyped ==
    ASSUME IndInv, NEW confirmed \in BOOLEAN, NEW stopped \in BOOLEAN,
           RestoreDone(confirmed, stopped)
    PROVE  /\ phase' = "stop" /\ read' = NoRead /\ asked' = {} /\ replies' = {}
           /\ scan' \in [Devices -> ScanStatuses] /\ result' \in [Devices -> TestStatuses]
           /\ restored' \in [Devices -> {"none", "yes", "no"}]
<1>1. Status(confirmed, stopped) \in TestStatuses /\ "complete" \in ScanStatuses
      BY StatusTyped DEF ScanStatuses
<1>2. restored' \in [Devices -> {"none", "yes", "no"}]
      BY DEF RestoreDone, IndInv, TypeOK
<1>. QED
      BY <1>1, <1>2, RunEndsTyped DEF RestoreDone

LEMMA TypeStep == IndInv /\ [Next]_vars => TypeOK'
<1> SUFFICES ASSUME IndInv, [Next]_vars PROVE TypeOK'
    OBVIOUS
<1> USE CountAssumption, NoReadTyped DEF TypeOK, tool, test, heard, reports, net
<1>0. TypeOK
      BY DEF IndInv
<1>1. CASE Round
      BY <1>0, <1>1 DEF Round
<1>2. CASE Hear
      BY <1>0, <1>2 DEF Hear
<1>3. CASE ScanDone
      <2>1. CASE RunEnds("complete", "skipped")
            <3>1. "complete" \in ScanStatuses /\ "skipped" \in TestStatuses
                  BY DEF ScanStatuses, TestStatuses
            <3>. QED
                  BY <1>0, <1>3, <2>1, <3>1, RunEndsTyped DEF ScanDone, Done
      <2>2. CASE ~RunEnds("complete", "skipped")
            BY <1>0, <1>3, <2>2 DEF ScanDone, ScanStatuses
      <2>. QED
            BY <2>1, <2>2
<1>4. CASE ScanBroken
      <2>1. PICK s \in {"complete", "setup_or_socket_error", "interrupted"} :
              RunEnds(s, "skipped")
            BY <1>4 DEF ScanBroken
      <2>2. s \in ScanStatuses /\ "skipped" \in TestStatuses
            BY DEF ScanStatuses, TestStatuses
      <2>. QED
            BY <1>0, <1>4, <2>1, <2>2, RunEndsTyped DEF ScanBroken, Done
<1>5. CASE Query
      <2>1. read' \in [expected : {"any"} \cup Powers, accepted : SUBSET Nat,
                       queries : Nat, observed : {"unknown"} \cup Powers]
            <3>1. used' \in Nat /\ read \in [expected : {"any"} \cup Powers,
                       accepted : SUBSET Nat, queries : Nat, observed : {"unknown"} \cup Powers]
                  BY <1>0, <1>5 DEF Query
            <3>2. read' = [read EXCEPT !.accepted = @ \cup {used'}, !.queries = @ + 1]
                  BY <1>5 DEF Query
            <3>3. read.accepted \cup {used'} \in SUBSET Nat /\ read.queries + 1 \in Nat
                  BY <3>1
            <3> HIDE DEF TypeOK
            <3>. QED
                  BY <3>1, <3>2, <3>3
      <2>2. used' \in Nat /\ asked' \subseteq Nat
            BY <1>0, <1>5 DEF Query
      <2>. QED
            BY <1>0, <1>5, <2>1, <2>2 DEF Query
<1>6. ASSUME NEW s \in asked, Answers(s)
      PROVE  TypeOK'
      <2>1. [seq |-> s, on |-> power[device]] \in Datagram
            BY <1>0 DEF Datagram
      <2>. QED
            BY <1>0, <1>6, <2>1 DEF Answers
<1>7. ASSUME NEW d \in Devices, NEW w \in writes[d], Executes(d, w)
      PROVE  TypeOK'
      <2>1. w \in Datagram /\ w.on \in Powers
            BY <1>0 DEF Datagram
      <2>2. power' \in [Devices -> Powers] /\ writes' \in [Devices -> SUBSET Datagram]
            BY <1>0, <1>7, <2>1 DEF Executes
      <2>3. replies' \subseteq Datagram /\ late' \subseteq Devices
            BY <1>0, <1>7, <2>1 DEF Executes
      <2>. QED
            BY <1>0, <1>7, <2>2, <2>3 DEF Executes
<1>8. ASSUME NEW r \in replies, Remembered(r)
      PROVE  TypeOK'
      <2>1. r.on \in Powers
            BY <1>0 DEF Datagram
      <2>2. read' \in [expected : {"any"} \cup Powers, accepted : SUBSET Nat,
                       queries : Nat, observed : {"unknown"} \cup Powers]
            <3>1. read \in [expected : {"any"} \cup Powers, accepted : SUBSET Nat,
                           queries : Nat, observed : {"unknown"} \cup Powers]
                  BY <1>0
            <3>2. read' = [read EXCEPT !.observed = r.on]
                  BY <1>8 DEF Remembered
            <3> HIDE DEF TypeOK
            <3>. QED
                  BY <2>1, <3>1, <3>2
      <2>. QED
            BY <1>0, <1>8, <2>2 DEF Remembered
<1>9. ASSUME NEW observed \in {"unknown"} \cup Powers, Ended(observed)
      PROVE  TypeOK'
      <2>1. CASE phase = "initial" /\ InitialEnds(observed) /\ observed = "unknown"
            <3>1. "complete" \in ScanStatuses /\ "skipped" \in TestStatuses
                  BY DEF ScanStatuses, TestStatuses
            <3>. QED
                  BY <1>0, <1>9, <2>1, <3>1, RunEndsTyped DEF Ended, InitialEnds, Done
      <2>2. CASE phase = "initial" /\ InitialEnds(observed) /\ observed # "unknown"
            <3>1. SetPower(Opposite(observed)) /\ Opposite(observed) \in Powers
                  BY <2>2, Opposites DEF InitialEnds
            <3>2. original' \in [Devices -> {"unknown"} \cup Powers]
                  BY <1>0, <2>2 DEF InitialEnds
            <3>. QED
                  BY <1>0, <1>9, <2>2, <3>1, <3>2, SetPowerTyped
                     DEF Ended, InitialEnds, Testing
      <2>3. CASE phase = "toggle" /\ ToggleEnds(observed)
            BY <1>0, <1>9, <2>3 DEF Ended, ToggleEnds, Testing
      <2>4. CASE phase = "restore" /\ RestoreEnds(observed)
            <3>1. CASE \E confirmed \in BOOLEAN : RestoreDone(confirmed, interrupted)
                  BY <1>0, <1>9, <2>4, <3>1, RestoreDoneTyped DEF Ended, RestoreEnds, Done
            <3>2. CASE ~\E confirmed \in BOOLEAN : RestoreDone(confirmed, interrupted)
                  BY <1>0, <1>9, <2>4, <3>2 DEF Ended, RestoreEnds
            <3>. QED
                  BY <3>1, <3>2
      <2>. QED
            BY <1>9, <2>1, <2>2, <2>3, <2>4 DEF Ended
<1>10. CASE Slept
      BY <1>0, <1>10 DEF Slept, Testing
<1>11. CASE Restore
      <2>1. SetPower(original[device]) /\ original[device] \in Powers
            BY <1>11, KnownInTest DEF Restore, Testing
      <2>. QED
            BY <1>0, <1>11, <2>1, SetPowerTyped DEF Restore
<1>12. CASE Interrupt
      <2>1. /\ "complete" \in ScanStatuses /\ "interrupted" \in ScanStatuses
            /\ "skipped" \in TestStatuses
            BY DEF ScanStatuses, TestStatuses
      <2>2. CASE InterruptInitial
            BY <1>0, <2>1, <2>2, RunEndsTyped DEF InterruptInitial, Done
      <2>3. CASE InterruptToggle
            BY <1>0, <2>3 DEF InterruptToggle, Testing
      <2>4. CASE InterruptRestore
            BY <1>0, <2>4, RestoreDoneTyped DEF InterruptRestore, Done
      <2>5. CASE InterruptBetween
            BY <1>0, <2>1, <2>5, RunEndsTyped DEF InterruptBetween, Done
      <2>6. CASE InterruptStop
            BY <1>0, <2>6 DEF InterruptStop, Done
      <2>. QED
            BY <1>12, <2>2, <2>3, <2>4, <2>5, <2>6 DEF Interrupt
<1>13. CASE NextDevice
      <2>1. device' \in Devices
            BY <1>0, <1>13 DEF NextDevice, GoesOn, Devices
      <2>. QED
            BY <1>0, <1>13, <2>1 DEF NextDevice
<1>14. CASE Finish
      BY <1>0, <1>14 DEF Finish, Done
<1>15. CASE UNCHANGED vars
      BY <1>0, <1>15 DEF vars
<1> HIDE DEF TypeOK, tool, test, heard, reports, net
<1>. QED
      BY Steps, <1>1, <1>2, <1>3, <1>4, <1>5, <1>6, <1>7, <1>8, <1>9, <1>10, <1>11, <1>12, <1>13, <1>14, <1>15

\* What a query, a remembered state and a write do to the read in progress.
LEMMA QueryRead ==
    ASSUME IndInv, Query
    PROVE  /\ read'.expected = read.expected /\ read'.observed = read.observed
           /\ read'.accepted = read.accepted \cup {used + 1}
BY DEF IndInv, TypeOK, Query

LEMMA RememberedRead ==
    ASSUME IndInv, NEW r \in replies, Remembered(r)
    PROVE  /\ read'.expected = read.expected /\ read'.observed = r.on
           /\ read'.accepted = read.accepted
BY DEF IndInv, TypeOK, Remembered

LEMMA SetPowerRead ==
    ASSUME IndInv, NEW desired \in Powers, SetPower(desired)
    PROVE  /\ read'.expected = desired /\ read'.observed = "unknown"
           /\ read'.accepted = {used + 1} /\ used' = used + 1
           /\ desired # "unknown" /\ desired # "any"
BY DEF SetPower, NoRead, Powers

LEMMA NoReadFields ==
    NoRead.accepted = {} /\ NoRead.expected = "any" /\ NoRead.observed = "unknown"
BY DEF NoRead

\* The phase tells what is being read.
LEMMA ReadStep == IndInv /\ [Next]_vars => ReadShape'
<1> SUFFICES ASSUME IndInv, [Next]_vars PROVE ReadShape'
    OBVIOUS
<1> USE NoReadFields DEF ReadShape, tool, test, heard, reports, net, Done
<1>0. ReadShape /\ device \in Devices /\ original \in [Devices -> {"unknown"} \cup Powers]
      BY DEF IndInv, TypeOK
<1>1. CASE Round \/ Hear
      BY <1>0, <1>1 DEF Round, Hear
<1>2. CASE ScanDone
      BY <1>0, <1>2 DEF ScanDone, RunEnds
<1>3. CASE ScanBroken
      BY <1>0, <1>3 DEF ScanBroken, RunEnds
<1>4. CASE Query
      BY <1>0, <1>4, QueryRead, ReadingPhases DEF Query, Reading
<1>5. ASSUME NEW s \in asked, Answers(s)
      PROVE  ReadShape'
      BY <1>0, <1>5 DEF Answers
<1>6. ASSUME NEW d \in Devices, NEW w \in writes[d], Executes(d, w)
      PROVE  ReadShape'
      BY <1>0, <1>6 DEF Executes
<1>7. ASSUME NEW r \in replies, Reading, r.on # read.expected, read.expected # "any",
             Remembered(r)
      PROVE  ReadShape'
      BY <1>0, <1>7, RememberedRead, ReadingPhases DEF Remembered
<1>8. ASSUME NEW observed \in {"unknown"} \cup Powers, Ended(observed)
      PROVE  ReadShape'
      <2>1. CASE phase = "initial" /\ InitialEnds(observed) /\ observed = "unknown"
            BY <1>0, <1>8, <2>1 DEF Ended, InitialEnds, RunEnds
      <2>2. CASE phase = "initial" /\ InitialEnds(observed) /\ observed # "unknown"
            <3>1. SetPower(Opposite(observed)) /\ Opposite(observed) \in Powers
                  BY <2>2, Opposites DEF InitialEnds
            <3>2. original'[device] = observed /\ phase' = "toggle" /\ device' = device
                  BY <1>0, <1>8, <2>2 DEF Ended, InitialEnds
            <3>. QED
                  BY <3>1, <3>2, SetPowerRead
      <2>3. CASE phase = "toggle" /\ ToggleEnds(observed)
            BY <1>0, <1>8, <2>3 DEF Ended, ToggleEnds
      <2>4. CASE phase = "restore" /\ RestoreEnds(observed)
            BY <1>0, <1>8, <2>4 DEF Ended, RestoreEnds, RestoreDone, RunEnds
      <2>. QED
            BY <1>8, <2>1, <2>2, <2>3, <2>4 DEF Ended
<1>9. CASE Slept
      BY <1>0, <1>9 DEF Slept
<1>10. CASE Restore
      <2>1. SetPower(original[device]) /\ original[device] \in Powers
            BY <1>10, KnownInTest DEF Restore, Testing
      <2>. QED
            BY <1>0, <1>10, <2>1, SetPowerRead DEF Restore
<1>11. CASE Interrupt
      BY <1>0, <1>11
         DEF Interrupt, InterruptInitial, InterruptToggle, InterruptRestore,
             InterruptBetween, InterruptStop, RestoreDone, RunEnds
<1>12. CASE NextDevice \/ Finish
      BY <1>0, <1>12 DEF NextDevice, Finish
<1>13. CASE UNCHANGED vars
      BY <1>0, <1>13 DEF vars
<1> HIDE DEF ReadShape, tool, test, heard, reports, net
<1>. QED
      BY Steps, <1>1, <1>2, <1>3, <1>4, <1>5, <1>6, <1>7, <1>8, <1>9, <1>10, <1>11, <1>12,
         <1>13

\* A device is written to once its state is known, reported on when it is done.
LEMMA RunStep == IndInv /\ [Next]_vars => RunShape'
<1> SUFFICES ASSUME IndInv, [Next]_vars PROVE RunShape'
    OBVIOUS
<1> SUFFICES ASSUME NEW d \in Devices PROVE RunOf(d)'
    BY DEF RunShape
<1> USE CountAssumption DEF tool, test, heard, reports, net, Done, Testing, Devices, RunOf
<1>0. /\ device \in Devices /\ original \in [Devices -> {"unknown"} \cup Powers]
      /\ writes \in [Devices -> SUBSET Datagram] /\ result \in [Devices -> TestStatuses]
      /\ restored \in [Devices -> {"none", "yes", "no"}]
      BY DEF IndInv, TypeOK
<1>a. RunOf(d)
      BY DEF IndInv, RunShape
<1>1. CASE Round \/ Hear
      BY <1>0, <1>a, <1>1 DEF Round, Hear
<1>2. CASE ScanDone
      BY <1>0, <1>a, <1>2 DEF ScanDone, RunEnds
<1>3. CASE ScanBroken
      BY <1>0, <1>a, <1>3 DEF ScanBroken, RunEnds
<1>4. CASE Query
      BY <1>0, <1>a, <1>4 DEF Query
<1>5. ASSUME NEW s \in asked, Answers(s)
      PROVE  RunOf(d)'
      BY <1>0, <1>a, <1>5 DEF Answers
<1>6. ASSUME NEW e \in Devices, NEW w \in writes[e], Executes(e, w)
      PROVE  RunOf(d)'
      BY <1>0, <1>a, <1>6 DEF Executes
<1>7. ASSUME NEW r \in replies, Remembered(r)
      PROVE  RunOf(d)'
      BY <1>0, <1>a, <1>7 DEF Remembered
<1>8. ASSUME NEW observed \in {"unknown"} \cup Powers, Ended(observed)
      PROVE  RunOf(d)'
      <2>1. CASE phase = "initial" /\ InitialEnds(observed)
            BY <1>0, <1>a, <1>8, <2>1 DEF Ended, InitialEnds, RunEnds, SetPower
      <2>2. CASE phase = "toggle" /\ ToggleEnds(observed)
            BY <1>0, <1>a, <1>8, <2>2 DEF Ended, ToggleEnds
      <2>3. CASE phase = "restore" /\ RestoreEnds(observed)
            BY <1>0, <1>a, <1>8, <2>3 DEF Ended, RestoreEnds, RestoreDone, RunEnds
      <2>. QED
            BY <1>8, <2>1, <2>2, <2>3 DEF Ended
<1>9. CASE Slept
      BY <1>0, <1>a, <1>9 DEF Slept
<1>10. CASE Restore
      BY <1>0, <1>a, <1>10 DEF Restore, SetPower
<1>11. CASE Interrupt
      <2>1. CASE InterruptInitial
            BY <1>0, <1>a, <2>1 DEF InterruptInitial, RunEnds
      <2>2. CASE InterruptToggle
            BY <1>0, <1>a, <2>2 DEF InterruptToggle
      <2>3. CASE InterruptRestore
            BY <1>0, <1>a, <2>3 DEF InterruptRestore, RestoreDone, RunEnds
      <2>4. CASE InterruptBetween \/ InterruptStop
            BY <1>0, <1>a, <2>4 DEF InterruptBetween, InterruptStop, RunEnds
      <2>. QED
            BY <1>11, <2>1, <2>2, <2>3, <2>4 DEF Interrupt
<1>12. CASE NextDevice \/ Finish
      BY <1>0, <1>a, <1>12 DEF NextDevice, Finish
<1>13. CASE UNCHANGED vars
      BY <1>0, <1>a, <1>13 DEF vars
<1> HIDE DEF tool, test, heard, reports, net, Done, Testing, Devices, RunOf
<1>. QED
      BY Steps, <1>1, <1>2, <1>3, <1>4, <1>5, <1>6, <1>7, <1>8, <1>9, <1>10, <1>11, <1>12,
         <1>13

\* Sequence numbers grow: a read never accepts that of an earlier datagram.
LEMMA SequenceStep == IndInv /\ [Next]_vars => SequencesUsed'
<1> SUFFICES ASSUME IndInv, [Next]_vars PROVE SequencesUsed'
    OBVIOUS
<1> USE NoReadFields DEF SequencesUsed, tool, test, heard, reports, net
<1>0. /\ SequencesUsed /\ device \in Devices /\ used \in Nat
      /\ asked \subseteq Nat /\ read.accepted \subseteq Nat
      /\ writes \in [Devices -> SUBSET Datagram]
      /\ \A d \in Devices : \A w \in writes[d] : w.seq \in Nat
      /\ \A r \in replies : r.seq \in Nat
      BY DEF IndInv, TypeOK, Datagram
<1>1. CASE Round \/ Hear
      <2>1. 0 \in 0 .. used
            BY <1>0
      <2>2. asked' \in {asked, asked \cup {0}}
            BY <1>1 DEF Round, Hear
      <2>3. UNCHANGED <<device, read, used, replies, writes>>
            BY <1>1 DEF Round, Hear
      <2>. QED
            BY <1>0, <2>1, <2>2, <2>3
<1>2. CASE ScanDone
      BY <1>0, <1>2 DEF ScanDone, RunEnds
<1>3. CASE ScanBroken
      BY <1>0, <1>3 DEF ScanBroken, RunEnds
<1>4. CASE Query
      BY <1>0, <1>4, QueryRead DEF Query
<1>5. ASSUME NEW s \in asked, Answers(s)
      PROVE  SequencesUsed'
      BY <1>0, <1>5 DEF Answers
<1>6. ASSUME NEW d \in Devices, NEW w \in writes[d], Executes(d, w)
      PROVE  SequencesUsed'
      BY <1>0, <1>6 DEF Executes
<1>7. ASSUME NEW r \in replies, Remembered(r)
      PROVE  SequencesUsed'
      BY <1>0, <1>7, RememberedRead DEF Remembered
<1>8. ASSUME NEW desired \in Powers, SetPower(desired),
             device' = device, asked' = asked, replies' = replies
      PROVE  SequencesUsed'
      <2>1. read'.accepted = {used + 1} /\ used' = used + 1
            BY <1>8, SetPowerRead
      <2>2. writes'[device] = writes[device] \cup {[seq |-> used + 1, on |-> desired]}
            BY <1>0, <1>8, <2>1 DEF SetPower
      <2>3. \A w \in writes'[device] : w.seq <= used + 1
            BY <1>0, <2>2
      <2>. QED
            BY <1>0, <1>8, <2>1, <2>3
<1>9. ASSUME NEW observed \in {"unknown"} \cup Powers, Ended(observed)
      PROVE  SequencesUsed'
      <2>1. CASE phase = "initial" /\ InitialEnds(observed) /\ observed = "unknown"
            BY <1>0, <1>9, <2>1 DEF Ended, InitialEnds, RunEnds
      <2>2. CASE phase = "initial" /\ InitialEnds(observed) /\ observed # "unknown"
            <3>1. SetPower(Opposite(observed)) /\ Opposite(observed) \in Powers
                  BY <2>2, Opposites DEF InitialEnds
            <3>. QED
                  BY <1>8, <1>9, <2>2, <3>1 DEF Ended, InitialEnds
      <2>3. CASE phase = "toggle" /\ ToggleEnds(observed)
            BY <1>0, <1>9, <2>3 DEF Ended, ToggleEnds
      <2>4. CASE phase = "restore" /\ RestoreEnds(observed)
            BY <1>0, <1>9, <2>4 DEF Ended, RestoreEnds, RestoreDone, RunEnds
      <2>. QED
            BY <1>9, <2>1, <2>2, <2>3, <2>4 DEF Ended
<1>10. CASE Slept \/ Finish
      BY <1>0, <1>10 DEF Slept, Finish
<1>11. CASE Restore
      BY <1>8, <1>11, KnownInTest DEF Restore, Testing
<1>12. CASE Interrupt
      BY <1>0, <1>12
         DEF Interrupt, InterruptInitial, InterruptToggle, InterruptRestore,
             InterruptBetween, InterruptStop, RestoreDone, RunEnds
<1>13. CASE NextDevice
      <2>1. device' \in Devices /\ writes'[device'] = {}
            BY <1>0, <1>13, CountAssumption
               DEF NextDevice, GoesOn, Devices, IndInv, RunShape, RunOf
      <2>2. asked' = {} /\ replies' = {} /\ read' = NoRead
            BY <1>13 DEF NextDevice, IndInv, ReadShape, Done
      <2>. QED
            BY <2>1, <2>2
<1>14. CASE UNCHANGED vars
      BY <1>0, <1>14 DEF vars
<1> HIDE DEF SequencesUsed, tool, test, heard, reports, net
<1>. QED
      BY Steps, <1>1, <1>2, <1>3, <1>4, <1>5, <1>6, <1>7, <1>9, <1>10, <1>11, <1>12, <1>13,
         <1>14

\* What the initial read, the read after the toggle and that after a restore
\* can end with.
LEMMA InitialObserved ==
    ASSUME IndInv, phase = "initial", NEW observed, Observed(observed),
           observed # "unknown"
    PROVE  observed = power[device]
BY DEF IndInv, ReadShape, StatesBefore, Observed

LEMMA ToggleObserved ==
    ASSUME IndInv, phase = "toggle", Observed(Opposite(original[device]))
    PROVE  Executed(device)
<1>1. Opposite(original[device]) \in Powers /\ Opposite(original[device]) # original[device]
      BY KnownInTest, Opposites DEF Testing
<1>2. PICK r \in replies : r.on = Opposite(original[device])
      BY <1>1 DEF IndInv, ReadShape, Observed, Powers
<1>. QED
      BY <1>1, <1>2 DEF IndInv, StatesBefore

LEMMA RestoreObserved ==
    ASSUME IndInv, phase = "restore", Reading, Observed(original[device]), device \notin late
    PROVE  power[device] = original[device]
<1>1. original[device] \in Powers
      BY KnownInTest DEF Testing
<1>2. PICK r \in replies : r.seq \in read.accepted /\ r.on = original[device]
      BY <1>1 DEF IndInv, ReadShape, Observed, Powers, Reading
<1>. QED
      BY <1>2 DEF IndInv, RestoreFresh

\* What a device has been sent changes only with a write or its execution.
LEMMA ToggleOnceStep == IndInv /\ [Next]_vars => OneToggle'
<1> SUFFICES ASSUME IndInv, [Next]_vars PROVE OneToggle'
    OBVIOUS
<1>0. /\ OneToggle /\ device \in Devices
      /\ original \in [Devices -> {"unknown"} \cup Powers]
      /\ power \in [Devices -> Powers]
      /\ writes \in [Devices -> SUBSET Datagram]
      BY DEF IndInv, TypeOK
<1>1. CASE UNCHANGED <<writes, power, original>>
      BY <1>0, <1>1 DEF OneToggle, Executed
<1>2. ASSUME NEW d \in Devices, NEW w \in writes[d], Executes(d, w)
      PROVE  OneToggle'
      <2>1. /\ power' = [power EXCEPT ![d] = w.on]
            /\ writes' = [writes EXCEPT ![d] = @ \ {w}]
            /\ original' = original
            BY <1>2 DEF Executes, tool, test
      <2>. QED
            BY <1>0, <2>1 DEF OneToggle, Executed
<1>3. ASSUME NEW observed \in Powers, Observed(observed), phase = "initial",
             InitialEnds(observed), power' = power
      PROVE  OneToggle'
      <2>1. observed = power[device] /\ observed # "unknown"
            BY <1>3, InitialObserved DEF Powers
      <2>2. writes[device] = {}
            BY <1>0, <1>3 DEF IndInv, RunShape, RunOf
      <2> DEFINE w == [seq |-> used', on |-> Opposite(observed)]
      <2>3. writes' = [writes EXCEPT ![device] = {w}]
            BY <1>0, <1>3, <2>1, <2>2 DEF InitialEnds, SetPower
      <2>4. original' = [original EXCEPT ![device] = power[device]]
            BY <1>3, <2>1 DEF InitialEnds
      <2> HIDE DEF w
      <2>. QED
            BY <1>0, <1>3, <2>3, <2>4 DEF OneToggle, Executed
<1>4. CASE Restore
      <2> DEFINE w == [seq |-> used', on |-> original[device]]
      <2>1. writes' = [writes EXCEPT ![device] = @ \cup {w}] /\ w.on = original[device]
            BY <1>4 DEF Restore, SetPower
      <2>2. power' = power /\ original' = original
            BY <1>4 DEF Restore
      <2> HIDE DEF w
      <2>. QED
            BY <1>0, <2>1, <2>2 DEF OneToggle, Executed
<1>5. CASE Interrupt
      BY <1>1, <1>5
         DEF Interrupt, InterruptInitial, InterruptToggle, InterruptRestore,
             InterruptBetween, InterruptStop, test
<1>6. CASE Round \/ Hear \/ ScanDone \/ ScanBroken \/ Query
      BY <1>1, <1>6 DEF Round, Hear, ScanDone, ScanBroken, Query, test
<1>7. ASSUME NEW s \in asked, Answers(s)
      PROVE  OneToggle'
      BY <1>1, <1>7 DEF Answers, tool, test
<1>8. ASSUME NEW r \in replies, Remembered(r)
      PROVE  OneToggle'
      BY <1>1, <1>8 DEF Remembered, test
<1>9. ASSUME NEW observed \in {"unknown"} \cup Powers, Observed(observed), Ended(observed)
      PROVE  OneToggle'
      <2>1. CASE phase = "initial" /\ InitialEnds(observed)
            BY <1>1, <1>3, <1>9, <2>1 DEF Ended, InitialEnds
      <2>2. CASE phase = "toggle" /\ ToggleEnds(observed)
            BY <1>1, <1>9, <2>2 DEF Ended, ToggleEnds
      <2>3. CASE phase = "restore" /\ RestoreEnds(observed)
            BY <1>1, <1>9, <2>3 DEF Ended, RestoreEnds
      <2>. QED
            BY <1>9, <2>1, <2>2, <2>3 DEF Ended
<1>10. CASE Slept \/ NextDevice \/ Finish \/ UNCHANGED vars
      BY <1>1, <1>10 DEF Slept, NextDevice, Finish, vars, tool, test
<1>. QED
      BY Steps, <1>2, <1>4, <1>5, <1>6, <1>7, <1>8, <1>9, <1>10

\* The device stays as found until it executes the toggle.
LEMMA BeforeStep == IndInv /\ [Next]_vars => StatesBefore'
<1> SUFFICES ASSUME IndInv, [Next]_vars PROVE StatesBefore'
    OBVIOUS
<1>0. /\ StatesBefore /\ device \in Devices
      /\ original \in [Devices -> {"unknown"} \cup Powers]
      /\ power \in [Devices -> Powers]
      /\ writes \in [Devices -> SUBSET Datagram]
      BY DEF IndInv, TypeOK
<1>1. CASE UNCHANGED <<device, phase, replies, power, writes, original>>
      BY <1>0, <1>1 DEF StatesBefore, Executed
<1>2. CASE phase' \notin {"scan", "initial", "toggle"} \/ replies' = {}
      BY <1>2 DEF StatesBefore
<1>3. CASE Round \/ Hear \/ Query
      BY <1>1, <1>3 DEF Round, Hear, Query, test, net
<1>4. CASE ScanDone
      <2>1. CASE phase' = "initial"
            BY <1>0, <1>4, <2>1 DEF ScanDone, StatesBefore, test, net, RunEnds
      <2>. QED
            BY <1>2, <1>4, <2>1 DEF ScanDone, RunEnds
<1>5. CASE ScanBroken
      BY <1>2, <1>5 DEF ScanBroken, RunEnds
<1>6. ASSUME NEW s \in asked, Answers(s)
      PROVE  StatesBefore'
      <2>1. replies' = replies \cup {[seq |-> s, on |-> power[device]]}
            BY <1>6 DEF Answers
      <2>2. UNCHANGED <<device, phase, power, writes, original>>
            BY <1>6 DEF Answers, tool, test
      <2>3. ~Executed(device) => power[device] = original[device]
            BY <1>0 DEF IndInv, OneToggle
      <2>. QED
            BY <1>0, <2>1, <2>2, <2>3 DEF StatesBefore, Executed
<1>7. ASSUME NEW d \in Devices, NEW w \in writes[d], Executes(d, w)
      PROVE  StatesBefore'
      <2>1. /\ power' = [power EXCEPT ![d] = w.on]
            /\ writes' = [writes EXCEPT ![d] = @ \ {w}]
            /\ replies' \in {replies, replies \cup {w}}
            /\ d # device => replies' = replies
            /\ UNCHANGED <<device, phase, original>>
            BY <1>7 DEF Executes, tool, test
      <2>2. CASE d # device
            BY <1>0, <2>1, <2>2 DEF StatesBefore, Executed
      <2>3. CASE d = device
            <3>1. phase \notin {"scan", "initial"}
                  BY <2>3 DEF IndInv, RunShape, RunOf
            <3>2. CASE w.on = original[device]
                  BY <1>0, <2>1, <2>3, <3>1, <3>2 DEF StatesBefore, Executed
            <3>3. CASE w.on # original[device]
                  <4>1. Executed(device)'
                        BY <1>0, <2>1, <2>3, <3>3 DEF IndInv, OneToggle, Executed
                  <4>. QED
                        BY <2>1, <3>1, <4>1 DEF StatesBefore
            <3>. QED
                  BY <3>2, <3>3
      <2>. QED
            BY <2>2, <2>3
<1>8. ASSUME NEW r \in replies, Remembered(r)
      PROVE  StatesBefore'
      BY <1>1, <1>8 DEF Remembered, test, net
<1>9. ASSUME NEW observed \in {"unknown"} \cup Powers, Observed(observed), Ended(observed)
      PROVE  StatesBefore'
      <2>1. CASE phase = "initial" /\ InitialEnds(observed) /\ observed = "unknown"
            BY <1>2, <2>1 DEF InitialEnds, RunEnds
      <2>2. CASE phase = "initial" /\ InitialEnds(observed) /\ observed # "unknown"
            <3>1. observed = power[device]
                  BY <1>9, <2>2, InitialObserved
            <3>2. /\ device' = device /\ replies' = replies /\ phase' = "toggle"
                  /\ original' = [original EXCEPT ![device] = observed]
                  BY <1>9, <2>2 DEF Ended, InitialEnds, net
            <3>. QED
                  BY <1>0, <2>2, <3>1, <3>2 DEF StatesBefore
      <2>3. CASE phase = "toggle" /\ ToggleEnds(observed)
            BY <1>2, <2>3 DEF ToggleEnds
      <2>4. CASE phase = "restore" /\ RestoreEnds(observed)
            BY <1>2, <2>4 DEF RestoreEnds, RestoreDone, RunEnds
      <2>. QED
            BY <1>9, <2>1, <2>2, <2>3, <2>4 DEF Ended
<1>10. CASE Slept \/ Restore \/ Finish
      BY <1>2, <1>10 DEF Slept, Restore, Finish
<1>11. CASE Interrupt
      BY <1>2, <1>11
         DEF Interrupt, InterruptInitial, InterruptToggle, InterruptRestore,
             InterruptBetween, InterruptStop, RestoreDone, RunEnds
<1>12. CASE NextDevice
      BY <1>2, <1>12 DEF NextDevice, net, IndInv, ReadShape, Done
<1>13. CASE UNCHANGED vars
      BY <1>1, <1>13 DEF vars, tool, test, net
<1>. QED
      BY Steps, <1>3, <1>4, <1>5, <1>6, <1>7, <1>8, <1>9, <1>10, <1>11, <1>12, <1>13

\* A toggle that was awaited to its end was executed in time.
LEMMA TimelyStep == IndInv /\ [Next]_vars => ToggleTimely'
<1> SUFFICES ASSUME IndInv, [Next]_vars PROVE ToggleTimely'
    OBVIOUS
<1>0. /\ ToggleTimely /\ device \in Devices
      /\ original \in [Devices -> {"unknown"} \cup Powers]
      /\ writes \in [Devices -> SUBSET Datagram]
      BY DEF IndInv, TypeOK
<1>1. ASSUME UNCHANGED <<device, writes, original, late, toggled>>,
             toggled => phase' \in {"pause", "restore"} \cup Done,
             phase' = "toggle" => phase = "toggle" /\ read.accepted \subseteq read'.accepted
      PROVE  ToggleTimely'
      BY <1>0, <1>1 DEF ToggleTimely, Executed
<1>2. toggled => phase \in {"pause", "restore"} \cup Done
      BY <1>0 DEF ToggleTimely
<1>3. CASE Round \/ Hear
      BY <1>1, <1>2, <1>3 DEF Round, Hear, test
<1>4. CASE Query
      BY <1>1, <1>2, <1>4, QueryRead DEF Query
<1>5. CASE ScanDone \/ ScanBroken
      BY <1>1, <1>2, <1>5 DEF ScanDone, ScanBroken, RunEnds, test, Done
<1>6. ASSUME NEW s \in asked, Answers(s)
      PROVE  ToggleTimely'
      BY <1>1, <1>2, <1>6 DEF Answers, tool, test
<1>7. ASSUME NEW d \in Devices, NEW w \in writes[d], Executes(d, w)
      PROVE  ToggleTimely'
      <2>1. /\ writes' = [writes EXCEPT ![d] = @ \ {w}]
            /\ UNCHANGED <<device, phase, read, original, toggled>>
            /\ late' \in {late, late \cup {d}}
            /\ d = device /\ (w.on = original[d] \/ w.seq \in read.accepted) => late' = late
            BY <1>7 DEF Executes, tool, test
      <2>2. CASE d # device
            BY <1>0, <2>1, <2>2 DEF ToggleTimely, Executed
      <2>3. CASE d = device
            BY <1>0, <2>1, <2>3 DEF ToggleTimely, Executed
      <2>. QED
            BY <2>2, <2>3
<1>8. ASSUME NEW r \in replies, Remembered(r)
      PROVE  ToggleTimely'
      BY <1>1, <1>2, <1>8, RememberedRead DEF Remembered, test
<1>9. ASSUME NEW observed \in {"unknown"} \cup Powers, Observed(observed), Ended(observed)
      PROVE  ToggleTimely'
      <2>0. UNCHANGED <<device, late>>
            BY <1>9 DEF Ended
      <2>1. CASE phase = "initial" /\ InitialEnds(observed) /\ observed = "unknown"
            BY <1>1, <1>2, <2>0, <2>1 DEF InitialEnds, RunEnds, Done
      <2>2. CASE phase = "initial" /\ InitialEnds(observed) /\ observed # "unknown"
            <3>1. writes[device] = {} /\ device \notin late /\ ~toggled
                  BY <1>0, <1>2, <2>2 DEF IndInv, RunShape, RunOf, Done
            <3>2. SetPower(Opposite(observed)) /\ Opposite(observed) \in Powers
                  BY <2>2, Opposites DEF InitialEnds
            <3>3. /\ writes'[device] = {[seq |-> used + 1, on |-> Opposite(observed)]}
                  /\ read'.accepted = {used + 1} /\ ~toggled'
                  BY <1>0, <2>2, <3>1, <3>2, SetPowerRead DEF SetPower, InitialEnds
            <3>. QED
                  BY <2>0, <3>1, <3>3 DEF ToggleTimely
      <2>3. CASE phase = "toggle" /\ ToggleEnds(observed)
            <3>1. device \notin late /\ phase' \in {"pause", "restore"}
                  BY <1>0, <2>3 DEF ToggleTimely, ToggleEnds
            <3>2. toggled' => Executed(device) /\ phase' = "pause"
                  BY <1>9, <2>3, ToggleObserved DEF ToggleEnds
            <3>3. UNCHANGED <<writes, original>>
                  BY <2>3 DEF ToggleEnds
            <3>. QED
                  BY <2>0, <3>1, <3>2, <3>3 DEF ToggleTimely, Executed
      <2>4. CASE phase = "restore" /\ RestoreEnds(observed)
            BY <1>1, <2>0, <2>4 DEF RestoreEnds, RestoreDone, RunEnds, Done
      <2>. QED
            BY <1>9, <2>1, <2>2, <2>3, <2>4 DEF Ended
<1>10. CASE Slept
      BY <1>1, <1>10 DEF Slept, test
<1>11. CASE Restore
      <2> DEFINE w == [seq |-> used', on |-> original[device]]
      <2>1. writes' = [writes EXCEPT ![device] = @ \cup {w}] /\ w.on = original[device]
            BY <1>11 DEF Restore, SetPower
      <2>2. UNCHANGED <<device, phase, original, late, toggled>> /\ phase = "restore"
            BY <1>11 DEF Restore
      <2> HIDE DEF w
      <2>. QED
            BY <1>0, <2>1, <2>2 DEF ToggleTimely, Executed
<1>12. CASE Interrupt
      BY <1>1, <1>2, <1>12
         DEF Interrupt, InterruptInitial, InterruptToggle, InterruptRestore,
             InterruptBetween, InterruptStop, RestoreDone, RunEnds, test, Done
<1>13. CASE NextDevice
      BY <1>13 DEF NextDevice, ToggleTimely
<1>14. CASE Finish
      BY <1>1, <1>14 DEF Finish, test, Done
<1>15. CASE UNCHANGED vars
      BY <1>1, <1>2, <1>15 DEF vars, tool, test
<1>. QED
      BY Steps, <1>3, <1>4, <1>5, <1>6, <1>7, <1>8, <1>9, <1>10, <1>11, <1>12, <1>13, <1>14,
         <1>15

\* No restore's read is answered by the toggle.
LEMMA RestoreStep == IndInv /\ [Next]_vars => RestoreFresh'
<1> SUFFICES ASSUME IndInv, [Next]_vars PROVE RestoreFresh'
    OBVIOUS
<1>0. /\ RestoreFresh /\ device \in Devices
      /\ power \in [Devices -> Powers]
      /\ writes \in [Devices -> SUBSET Datagram]
      BY DEF IndInv, TypeOK
<1>1. CASE phase' # "restore" \/ read'.accepted = {}
      BY <1>1 DEF RestoreFresh
<1>2. CASE UNCHANGED <<device, phase, replies, writes, power, original, late>>
           /\ read'.accepted = read.accepted
      BY <1>0, <1>2 DEF RestoreFresh
<1>3. ASSUME read'.accepted \in {{used + 1}, read.accepted \cup {used + 1}},
             UNCHANGED <<device, phase, replies, power, original, late>>,
             \A w \in writes'[device] : w \in writes[device] \/ w.on = original[device]
      PROVE  RestoreFresh'
      <2>1. /\ \A w \in writes[device] : w.seq \in Nat /\ w.seq # used + 1
            /\ \A r \in replies : r.seq \in Nat /\ r.seq # used + 1
            <3>1. /\ used \in Nat
                  /\ \A w \in writes[device] : w.seq \in Nat /\ w.seq <= used
                  /\ \A r \in replies : r.seq \in Nat /\ r.seq <= used
                  BY <1>0 DEF IndInv, TypeOK, SequencesUsed, Datagram
            <3>. QED
                  BY <3>1
      <2>. QED
            BY <1>0, <1>3, <2>1 DEF RestoreFresh
<1>4. CASE Round \/ Hear
      BY <1>2, <1>4 DEF Round, Hear, test, net
<1>5. CASE ScanDone \/ ScanBroken
      BY <1>1, <1>5 DEF ScanDone, ScanBroken, RunEnds
<1>6. CASE Query
      BY <1>3, <1>6, QueryRead DEF Query
<1>7. ASSUME NEW s \in asked, Answers(s)
      PROVE  RestoreFresh'
      <2>1. replies' = replies \cup {[seq |-> s, on |-> power[device]]}
            BY <1>7 DEF Answers
      <2>2. UNCHANGED <<device, phase, read, power, writes, original, late>>
            BY <1>7 DEF Answers, tool, test
      <2>. QED
            BY <1>0, <2>1, <2>2 DEF RestoreFresh
<1>8. ASSUME NEW d \in Devices, NEW w \in writes[d], Executes(d, w)
      PROVE  RestoreFresh'
      <2>1. /\ power' = [power EXCEPT ![d] = w.on]
            /\ writes' = [writes EXCEPT ![d] = @ \ {w}]
            /\ d # device => replies' = replies
            /\ UNCHANGED <<device, phase, read, original>>
            /\ late' \in {late, late \cup {d}}
            /\ w.on # original[d] /\ ~(d = device /\ w.seq \in read.accepted) => d \in late'
            BY <1>8 DEF Executes, tool, test
      <2>2. CASE d # device
            BY <1>0, <2>1, <2>2 DEF RestoreFresh
      <2>3. CASE d = device
            BY <1>0, <2>1, <2>3 DEF RestoreFresh
      <2>. QED
            BY <2>2, <2>3
<1>9. ASSUME NEW r \in replies, Remembered(r)
      PROVE  RestoreFresh'
      BY <1>2, <1>9, RememberedRead DEF Remembered, test, net
<1>10. ASSUME NEW observed \in {"unknown"} \cup Powers, Ended(observed)
       PROVE  RestoreFresh'
      BY <1>1, <1>10, NoReadFields
         DEF Ended, InitialEnds, ToggleEnds, RestoreEnds, RestoreDone, RunEnds
<1>11. CASE Slept
      BY <1>1, <1>11, NoReadFields DEF Slept, IndInv, ReadShape
<1>12. CASE Restore
      <2>1. SetPower(original[device]) /\ original[device] \in Powers
            BY <1>12, KnownInTest DEF Restore, Testing
      <2>2. \A w \in writes'[device] : w \in writes[device] \/ w.on = original[device]
            BY <1>0, <2>1 DEF SetPower
      <2>. QED
            BY <1>3, <1>12, <2>1, <2>2, SetPowerRead DEF Restore, net
<1>13. CASE Interrupt
      BY <1>1, <1>13, NoReadFields
         DEF Interrupt, InterruptInitial, InterruptToggle, InterruptRestore,
             InterruptBetween, InterruptStop, RestoreDone, RunEnds
<1>14. CASE NextDevice \/ Finish
      BY <1>1, <1>14 DEF NextDevice, Finish
<1>15. CASE UNCHANGED vars
      BY <1>2, <1>15 DEF vars, tool, test, net
<1>. QED
      BY Steps, <1>4, <1>5, <1>6, <1>7, <1>8, <1>9, <1>10, <1>11, <1>12, <1>13, <1>14, <1>15

\* What a restore reports is so, and nothing on its way can undo it unseen.
LEMMA ReportStep == IndInv /\ [Next]_vars => ReportsTrue'
<1> SUFFICES ASSUME IndInv, [Next]_vars, NEW d \in Devices PROVE ReportOf(d)'
    BY DEF ReportsTrue
<1>0. /\ ReportOf(d) /\ RunOf(d) /\ device \in Devices
      /\ original \in [Devices -> {"unknown"} \cup Powers]
      /\ power \in [Devices -> Powers] /\ writes \in [Devices -> SUBSET Datagram]
      /\ result \in [Devices -> TestStatuses]
      /\ restored \in [Devices -> {"none", "yes", "no"}]
      BY DEF IndInv, TypeOK, ReportsTrue, RunShape
<1>1. CASE /\ UNCHANGED <<restored, late, power, original, result, writes>>
           /\ escaped => escaped'
           /\ d = device /\ phase \in Testing => escaped' \/ (d = device' /\ phase' \in Testing)
      BY <1>0, <1>1 DEF ReportOf, Executed
<1>2. ASSUME NEW scanned, RunEnds(scanned, "skipped"), escaped => escaped',
             UNCHANGED <<device, restored, late, power, original, writes>>,
             phase \in {"scan", "initial"} \/ escaped'
      PROVE  ReportOf(d)'
      <2>1. CASE d = device
            BY <1>0, <1>2, <2>1 DEF ReportOf, RunOf, RunEnds, Done
      <2>2. CASE d # device
            BY <1>0, <1>2, <2>2 DEF ReportOf, RunEnds, Executed
      <2>. QED
            BY <2>1, <2>2
<1>3. ASSUME NEW confirmed \in BOOLEAN, NEW stopped \in BOOLEAN,
             RestoreDone(confirmed, stopped),
             UNCHANGED <<device, late, power, original, writes, escaped, toggled>>,
             confirmed => device \in late \/ power[device] = original[device]
      PROVE  ReportOf(d)'
      <2>1. /\ restored' = [restored EXCEPT ![device] = IF confirmed THEN "yes" ELSE "no"]
            /\ result' = [result EXCEPT ![device] = Status(confirmed, stopped)]
            BY <1>3 DEF RestoreDone, RunEnds
      <2>2. Status(confirmed, stopped) = "passed" => confirmed /\ toggled
            BY DEF Status
      <2>3. toggled => device \notin late /\ Executed(device)
            BY DEF IndInv, ToggleTimely
      <2>4. CASE d = device
            BY <1>0, <1>3, <2>1, <2>2, <2>3, <2>4 DEF ReportOf, Executed
      <2>5. CASE d # device
            BY <1>0, <1>3, <2>1, <2>5 DEF ReportOf, Executed
      <2>. QED
            BY <2>4, <2>5
<1>4. CASE Round \/ Hear \/ Query
      BY <1>1, <1>4 DEF Round, Hear, Query, test, reports
<1>5. CASE ScanDone
      <2>1. CASE RunEnds("complete", "skipped")
            BY <1>2, <1>5, <2>1 DEF ScanDone, test
      <2>2. CASE ~RunEnds("complete", "skipped")
            BY <1>1, <1>5, <2>2 DEF ScanDone, test, Testing
      <2>. QED
            BY <2>1, <2>2
<1>6. CASE ScanBroken
      BY <1>2, <1>6 DEF ScanBroken, test
<1>7. ASSUME NEW s \in asked, Answers(s)
      PROVE  ReportOf(d)'
      BY <1>1, <1>7 DEF Answers, tool, test, reports
<1>8. ASSUME NEW e \in Devices, NEW w \in writes[e], Executes(e, w)
      PROVE  ReportOf(d)'
      <2>1. /\ power' = [power EXCEPT ![e] = w.on]
            /\ writes' = [writes EXCEPT ![e] = @ \ {w}]
            /\ UNCHANGED <<device, phase, original, result, restored, escaped>>
            /\ late' \in {late, late \cup {e}}
            /\ w.on # original[e] /\ ~(e = device /\ w.seq \in read.accepted) => e \in late'
            /\ w.on = original[e] => late' = late
            BY <1>8 DEF Executes, tool, test, reports
      <2>2. CASE e # d
            BY <1>0, <2>1, <2>2 DEF ReportOf, Executed
      <2>3. CASE e = d
            <3>1. restored[d] = "yes" /\ d = device => read.accepted = {}
                  BY <1>0, NoReadFields DEF RunOf, Done, IndInv, ReadShape
            <3>2. restored[d] = "yes" => d \in late' \/ power'[d] = original[d]
                  BY <1>0, <2>1, <2>3, <3>1
            <3>. QED
                  BY <1>0, <2>1, <2>3, <3>2 DEF ReportOf, Executed
      <2>. QED
            BY <2>2, <2>3
<1>9. ASSUME NEW r \in replies, Remembered(r)
      PROVE  ReportOf(d)'
      BY <1>1, <1>9 DEF Remembered, test, reports
<1>10. ASSUME NEW observed \in {"unknown"} \cup Powers, Observed(observed), Ended(observed)
       PROVE  ReportOf(d)'
      <2>0. UNCHANGED <<device, late, power, escaped, interrupted>> /\ Reading
            BY <1>10 DEF Ended
      <2>1. CASE phase = "initial" /\ InitialEnds(observed) /\ observed = "unknown"
            BY <1>2, <2>0, <2>1 DEF InitialEnds
      <2>2. CASE phase = "initial" /\ InitialEnds(observed) /\ observed # "unknown"
            <3>1. /\ restored' = restored /\ result' = result /\ phase' = "toggle"
                  /\ original' = [original EXCEPT ![device] = observed]
                  /\ \A e \in Devices : e # device => writes'[e] = writes[e]
                  BY <1>0, <2>2 DEF InitialEnds, SetPower
            <3>2. CASE d = device
                  BY <1>0, <2>0, <2>2, <3>1, <3>2 DEF ReportOf, RunOf, Testing, Done
            <3>3. CASE d # device
                  BY <1>0, <2>0, <3>1, <3>3 DEF ReportOf, Executed
            <3>. QED
                  BY <3>2, <3>3
      <2>3. CASE phase = "toggle" /\ ToggleEnds(observed)
            BY <1>1, <2>0, <2>3 DEF ToggleEnds, Testing
      <2>4. CASE phase = "restore" /\ RestoreEnds(observed)
            <3>1. interrupted \in BOOLEAN /\ UNCHANGED <<toggled, original, writes>>
                  BY <2>4 DEF RestoreEnds, IndInv, TypeOK
            <3>2. CASE observed = original[device]
                  <4>1. device \in late \/ power[device] = original[device]
                        BY <1>10, <2>0, <2>4, <3>2, RestoreObserved
                  <4>2. RestoreDone(TRUE, interrupted)
                        BY <2>4, <3>2 DEF RestoreEnds
                  <4>. QED
                        BY <1>3, <2>0, <3>1, <4>1, <4>2
            <3>3. CASE observed # original[device] /\ attempts = 2
                  <4>1. RestoreDone(FALSE, interrupted)
                        BY <2>4, <3>3 DEF RestoreEnds
                  <4>. QED
                        BY <1>3, <2>0, <3>1, <4>1
            <3>4. CASE observed # original[device] /\ attempts # 2
                  BY <1>1, <2>0, <2>4, <3>4 DEF RestoreEnds
            <3>. QED
                  BY <3>2, <3>3, <3>4
      <2>. QED
            BY <1>10, <2>1, <2>2, <2>3, <2>4 DEF Ended
<1>11. CASE Slept
      BY <1>1, <1>11 DEF Slept, test, reports, Testing
<1>12. CASE Restore
      <2> DEFINE w == [seq |-> used', on |-> original[device]]
      <2>1. writes' = [writes EXCEPT ![device] = @ \cup {w}] /\ w.on = original[device]
            BY <1>12 DEF Restore, SetPower
      <2>2. UNCHANGED <<device, phase, original, late, power, result, restored, escaped>>
            BY <1>12 DEF Restore, reports
      <2> HIDE DEF w
      <2>. QED
            BY <1>0, <2>1, <2>2 DEF ReportOf, Executed
<1>13. CASE Interrupt
      <2>1. CASE InterruptInitial
            BY <1>2, <2>1 DEF InterruptInitial, test
      <2>2. CASE InterruptToggle
            BY <1>1, <2>2 DEF InterruptToggle, reports, Testing
      <2>3. CASE InterruptRestore
            BY <1>3, <2>3 DEF InterruptRestore
      <2>4. CASE InterruptBetween
            BY <1>2, <2>4 DEF InterruptBetween, test
      <2>5. CASE InterruptStop
            BY <1>1, <2>5 DEF InterruptStop, test
      <2>. QED
            BY <1>13, <2>1, <2>2, <2>3, <2>4, <2>5 DEF Interrupt
<1>14. CASE NextDevice \/ Finish
      BY <1>1, <1>14 DEF NextDevice, Finish, test, reports, Testing
<1>15. CASE UNCHANGED vars
      BY <1>1, <1>15 DEF vars, tool, test, reports
<1>. QED
      BY Steps, <1>4, <1>5, <1>6, <1>7, <1>8, <1>9, <1>10, <1>11, <1>12, <1>13, <1>14, <1>15

LEMMA StepInv == IndInv /\ [Next]_vars => IndInv'
BY TypeStep, ReadStep, RunStep, SequenceStep, ToggleOnceStep, BeforeStep, TimelyStep,
   RestoreStep, ReportStep
   DEF IndInv

LEMMA Invariance == Spec => []IndInv
BY InitInv, StepInv, PTL DEF Spec

-----------------------------------------------------------------------------
(* Theorems                                                                *)

\* A power test that reports "passed" has left the device in the state it was
\* found in, and no datagram still on its way can change that
\* (352_local_probe.py, test_power).
THEOREM PassedRestored == Spec => []PassedMeansRestored
<1>1. IndInv => PassedMeansRestored
      BY DEF IndInv, ReportsTrue, ReportOf, PassedMeansRestored, Left, Executed
<1>. QED
      BY <1>1, Invariance, PTL

\* A program that ends without an interrupt that escaped it, and leaves a device
\* switched that executed the toggle while it was awaited, has reported so and
\* returns 2 (352_local_probe.py, main).
THEOREM LeftReported == Spec => []LeftMeansReported
<1>1. IndInv => LeftMeansReported
      <2> SUFFICES ASSUME IndInv, phase = "ended", ~escaped,
                          NEW d \in Devices \ late, Left(d)
                   PROVE  restored[d] = "no" /\ ExitCode = 2
          BY DEF LeftMeansReported
      <2>1. ReportOf(d) /\ restored[d] \in {"none", "yes", "no"} /\ phase \notin Testing
            BY DEF IndInv, TypeOK, ReportsTrue, Testing
      <2>2. restored[d] = "no"
            BY <2>1 DEF ReportOf, Left
      <2>. QED
            BY <2>2 DEF ExitCode
<1>. QED
      BY <1>1, Invariance, PTL
=============================================================================
