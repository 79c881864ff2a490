----------------------------- MODULE PowerProbe -----------------------------
(***************************************************************************)
(* tools/352_local_probe.py: the scan of one device, or of two in turn, and *)
(* the power test, which switches a verified legacy device to the opposite  *)
(* state and must put it back, whatever is lost, late or interrupted.       *)
(*                                                                         *)
(* Datagrams are lost (never delivered), delayed without bound and          *)
(* reordered; replies are also repeated.  A write is executed once.  Nobody *)
(* else switches the device.  KeyboardInterrupt and OSError strike at the   *)
(* blocking calls, and KeyboardInterrupt also between the attempts to       *)
(* restore and while the capture is stopped.                               *)
(***************************************************************************)
EXTENDS Naturals, FiniteSets

CONSTANTS Count,     \* devices named on the command line: one or two
          Queries,   \* state queries of one read, three in the code
          Rounds,    \* scan rounds, three in the code
          Found      \* the power each device is found with

ASSUME CountAssumption == Count \in {1, 2}
ASSUME BoundAssumption == Queries \in Nat \ {0} /\ Rounds \in Nat \ {0}

Devices == 1 .. Count
Powers == {"on", "off"}
ASSUME FoundAssumption == Found \in [Devices -> Powers]
Opposite(p) == IF p = "on" THEN "off" ELSE "on"

VARIABLES
  device,      \* the device being run
  phase,       \* where run() and test_power() are
  rounds,      \* scan rounds sent
  identities,  \* identities heard in the scan
  read,        \* the read_power in progress, or NoRead
  used,        \* sequence numbers used: 0 stands for those of the scan
  asked,       \* queries on their way to the device
  replies,     \* states on their way to the tool, by sequence
  writes,      \* writes on their way to each device
  power,       \* the power of each device
  original,    \* what each power test read first
  attempts,    \* restores attempted
  interrupted, \* test_power's flag
  toggled,     \* the toggle was confirmed
  result,      \* the status of each power test
  restored,    \* restore_confirmed of each power test
  scan,        \* the status of each run
  late,        \* devices whose toggle was executed after its read ended
  escaped      \* an interrupt passed test_power or the stop of the capture

heard == <<rounds, identities>>
test == <<used, attempts, interrupted, toggled, original>>
reports == <<result, restored, scan, escaped>>
tool == <<device, phase, read, heard, test, reports>>
net == <<asked, replies>>
vars == <<tool, net, writes, power, late>>

NoRead == [expected |-> "any", accepted |-> {}, queries |-> 0, observed |-> "unknown"]
Reading == read.accepted # {} \/ phase = "initial"

Init ==
  /\ device = 1 /\ phase = "scan" /\ rounds = 0 /\ identities = {}
  /\ read = NoRead /\ used = 0 /\ asked = {} /\ replies = {}
  /\ writes = [d \in Devices |-> {}]
  /\ power = Found
  /\ original = [d \in Devices |-> "unknown"]
  /\ attempts = 0 /\ interrupted = FALSE /\ toggled = FALSE
  /\ result = [d \in Devices |-> "not_run"]
  /\ restored = [d \in Devices |-> "none"]
  /\ scan = [d \in Devices |-> "starting"]
  /\ late = {} /\ escaped = FALSE

-----------------------------------------------------------------------------
(* The device and the network                                              *)

\* A query that arrives is answered with the state of that moment; 0 is a
\* state query of the scan.
AnswerQuery ==
  \E s \in asked :
    /\ asked' = asked \ {s}
    /\ replies' = replies \cup {[seq |-> s, on |-> power[device]]}
    /\ UNCHANGED <<tool, writes, power, late>>

\* A write that arrives is executed and answered with the new state, if the
\* tool still reads the socket of this device.
ExecuteWrite ==
  \E d \in Devices : \E w \in writes[d] :
    /\ power' = [power EXCEPT ![d] = w.on]
    /\ writes' = [writes EXCEPT ![d] = @ \ {w}]
    /\ replies' = IF d = device /\ phase \in {"toggle", "pause", "restore"}
                  THEN replies \cup {w} ELSE replies
    /\ late' = IF w.on # original[d] /\ ~(d = device /\ w.seq \in read.accepted)
               THEN late \cup {d} ELSE late
    /\ UNCHANGED <<tool, asked>>

-----------------------------------------------------------------------------
(* The scan                                                                *)

\* A round goes out; with a known MAC it holds state queries.
Round ==
  /\ phase = "scan" /\ rounds < Rounds
  /\ rounds' = rounds + 1
  /\ asked' = asked \cup {0}
  /\ UNCHANGED <<device, phase, identities, read, test, reports, replies, writes, power, late>>

\* A coherent discovery reply or state of the target; company or auth may
\* differ from the one heard before.
Hear ==
  /\ phase = "scan" /\ rounds > 0
  /\ \/ identities' = identities \cup {"first"}
     \/ identities # {} /\ identities' = identities \cup {"another"}
  /\ UNCHANGED <<device, phase, rounds, read, test, reports, net, writes, power, late>>

\* run() goes on to stop the capture, with these two statuses; nobody reads the
\* socket any more.  The reasons for a skipped test are not told apart, nor is
\* the packet limit from a complete scan.
RunEnds(scanned, tested) ==
  /\ phase' = "stop"
  /\ read' = NoRead
  /\ asked' = {} /\ replies' = {}
  /\ scan' = [scan EXCEPT ![device] = scanned]
  /\ result' = [result EXCEPT ![device] = tested]

\* The scan is over: the power test needs exactly one identity, the legacy
\* socket, and a target that is not this host.
ScanDone ==
  /\ phase = "scan" /\ rounds = Rounds
  /\ \/ /\ Cardinality(identities) = 1
        /\ phase' = "initial"
        /\ scan' = [scan EXCEPT ![device] = "complete"]
        /\ UNCHANGED <<result, read, net>>
     \/ RunEnds("complete", "skipped")
  /\ UNCHANGED <<device, heard, test, restored, escaped, writes, power, late>>

\* The packet limit, an unusable network or an interrupt ends the scan: there
\* is no power test.
ScanBroken ==
  /\ phase = "scan"
  /\ \E s \in {"complete", "setup_or_socket_error", "interrupted"} : RunEnds(s, "skipped")
  /\ UNCHANGED <<device, heard, test, restored, escaped, writes, power, late>>

-----------------------------------------------------------------------------
(* read_power and set_power                                                *)

Query ==
  /\ Reading /\ read.queries < Queries
  /\ used' = used + 1
  /\ asked' = asked \cup {used'}
  /\ read' = [read EXCEPT !.accepted = @ \cup {used'}, !.queries = @ + 1]
  /\ UNCHANGED <<device, phase, heard, attempts, interrupted, toggled, original, reports,
                 replies, writes, power, late>>

\* set_power sends its write and starts a read that accepts its sequence too.
SetPower(desired) ==
  /\ used' = used + 1
  /\ writes' = [writes EXCEPT ![device] = @ \cup {[seq |-> used', on |-> desired]}]
  /\ read' = [NoRead EXCEPT !.expected = desired, !.accepted = {used'}]

\* Mutant: any state of the device counts.
CountsAny(r) == TRUE

\* power_state: only a reply to this read's own datagrams counts.
Counts(r) == r.seq \in read.accepted

\* The read of the initial state ends: the toggle follows it.
InitialEnds(observed) ==
  /\ IF observed = "unknown"
     THEN RunEnds("complete", "skipped") /\ UNCHANGED <<original, used, writes>>
     ELSE /\ original' = [original EXCEPT ![device] = observed]
          /\ phase' = "toggle"
          /\ SetPower(Opposite(observed))
          /\ UNCHANGED <<scan, result, net>>
  /\ UNCHANGED <<toggled, restored>>

ToggleEnds(observed) ==
  /\ read' = NoRead
  /\ toggled' = (observed = Opposite(original[device]))
  /\ phase' = IF toggled' THEN "pause" ELSE "restore"
  /\ UNCHANGED <<original, used, writes, restored, scan, result, net>>

\* What test_power reports once the loop of restores is over.
Status(confirmed, stopped) ==
  IF ~confirmed THEN "RESTORE_NOT_CONFIRMED_CHECK_DEVICE"
  ELSE IF stopped THEN "interrupted_original_state_restored"
  ELSE IF toggled THEN "passed"
  ELSE "toggle_not_confirmed_original_state_restored"

RestoreDone(confirmed, stopped) ==
  /\ restored' = [restored EXCEPT ![device] = IF confirmed THEN "yes" ELSE "no"]
  /\ RunEnds("complete", Status(confirmed, stopped))

RestoreEnds(observed) ==
  /\ IF observed = original[device] THEN RestoreDone(TRUE, interrupted)
     ELSE IF attempts = 2 THEN RestoreDone(FALSE, interrupted)
     ELSE read' = NoRead /\ UNCHANGED <<phase, restored, scan, result, net>>
  /\ UNCHANGED <<toggled, original, used, writes>>

ReadEnds(observed) ==
  /\ CASE phase = "initial" -> InitialEnds(observed)
       [] phase = "toggle" -> ToggleEnds(observed)
       [] phase = "restore" -> RestoreEnds(observed)
  /\ UNCHANGED <<device, heard, attempts, interrupted, escaped, power, late>>

\* A state that counts ends the read if it is the expected one; another is
\* remembered.
Receive ==
  \E r \in replies :
    /\ Reading /\ Counts(r)
    /\ IF read.expected \in {"any", r.on} THEN ReadEnds(r.on)
       ELSE /\ read' = [read EXCEPT !.observed = r.on]
            /\ UNCHANGED <<device, phase, heard, test, reports, net, writes, power, late>>

\* Mutant: a read goes on until some state has been seen.
TimesOutNever == Reading /\ read.observed # "unknown" /\ ReadEnds(read.observed)

TimesOut == Reading /\ ReadEnds(read.observed)

-----------------------------------------------------------------------------
(* test_power                                                              *)

\* One second with the toggled state, then the restores begin.
Slept ==
  /\ phase = "pause" /\ phase' = "restore"
  /\ UNCHANGED <<device, read, heard, test, reports, net, writes, power, late>>

Restore ==
  /\ phase = "restore" /\ ~Reading /\ attempts < 2
  /\ attempts' = attempts + 1
  /\ SetPower(original[device])
  /\ UNCHANGED <<device, phase, heard, interrupted, toggled, original, reports, net, power,
                 late>>

\* sendto or recvfrom raises: the initial read is given up, the toggle goes on
\* to the restores, a restore counts as an attempt.  If it is the sendto of the
\* write that raises, the write is like a lost one.
SocketError ==
  /\ Reading
  /\ IF phase = "toggle" THEN ToggleEnds("unknown")
     ELSE IF phase = "restore" THEN RestoreEnds("unknown")
     ELSE InitialEnds("unknown")
  /\ UNCHANGED <<device, heard, attempts, interrupted, escaped, power, late>>

\* KeyboardInterrupt in the initial read: taken like a failed read.
InterruptInitial ==
  /\ phase = "initial"
  /\ RunEnds("complete", "skipped")
  /\ UNCHANGED <<device, heard, test, restored, escaped, writes, power, late>>

\* Mutant: no finally around the toggle.
InterruptToggleUncaught ==
  /\ phase \in {"toggle", "pause"}
  /\ RunEnds("interrupted", "skipped")
  /\ UNCHANGED <<device, heard, test, restored, escaped, writes, power, late>>

\* ... while the toggle is awaited or shown: the restores begin.
InterruptToggle ==
  /\ phase \in {"toggle", "pause"}
  /\ phase' = "restore" /\ read' = NoRead /\ interrupted' = TRUE
  /\ UNCHANGED <<device, heard, used, attempts, toggled, original, reports, net, writes,
                 power, late>>

\* ... during a restore: no further attempt.
InterruptRestore ==
  /\ phase = "restore" /\ Reading
  /\ interrupted' = TRUE
  /\ RestoreDone(FALSE, TRUE)
  /\ UNCHANGED <<device, heard, used, attempts, toggled, original, escaped, writes, power,
                 late>>

\* ... between two attempts: nothing in test_power catches it, run() does, and
\* the report has no power test.
InterruptBetween ==
  /\ phase = "restore" /\ ~Reading
  /\ RunEnds("interrupted", "skipped")
  /\ escaped' = TRUE
  /\ UNCHANGED <<device, heard, test, restored, writes, power, late>>

\* ... while the capture is stopped: nothing catches it, no report is printed.
InterruptStop ==
  /\ phase = "stop"
  /\ phase' = "crashed" /\ escaped' = TRUE
  /\ UNCHANGED <<device, read, heard, test, result, restored, scan, net, writes, power, late>>

-----------------------------------------------------------------------------
(* run() returns to main                                                   *)

\* main goes on to the second device unless the first run was interrupted or
\* its restore is not confirmed.
Interrupted(d) ==
  scan[d] = "interrupted" \/ result[d] = "interrupted_original_state_restored"

GoesOn == device < Count /\ ~Interrupted(device) /\ restored[device] # "no"

NextDevice ==
  /\ phase = "stop" /\ GoesOn
  /\ device' = device + 1 /\ phase' = "scan" /\ rounds' = 0 /\ identities' = {}
  /\ used' = 0 /\ attempts' = 0 /\ interrupted' = FALSE /\ toggled' = FALSE
  /\ UNCHANGED <<read, original, reports, net, writes, power, late>>

Finish ==
  /\ phase = "stop" /\ ~GoesOn
  /\ phase' = "ended"
  /\ UNCHANGED <<device, read, heard, test, reports, net, writes, power, late>>

\* main's return value once it has printed the reports.
ExitCode ==
  IF \E d \in Devices : restored[d] = "no" THEN 2
  ELSE IF \E d \in Devices : scan[d] = "setup_or_socket_error" THEN 1
  ELSE 0

Interrupt ==
  \/ InterruptInitial \/ InterruptToggle \/ InterruptRestore \/ InterruptBetween
  \/ InterruptStop
Tool ==
  \/ Round \/ ScanDone \/ Query \/ Receive \/ TimesOut \/ Slept \/ Restore
  \/ NextDevice \/ Finish
Next ==
  \/ Tool \/ Hear \/ ScanBroken \/ SocketError \/ Interrupt \/ AnswerQuery \/ ExecuteWrite

Spec == Init /\ [][Next]_vars

\* The program's own steps are taken: its loops are bounded by the clock.
FairSpec ==
  /\ Spec
  /\ WF_vars(Round) /\ WF_vars(ScanDone) /\ WF_vars(Query) /\ WF_vars(TimesOut)
  /\ WF_vars(Slept) /\ WF_vars(Restore) /\ WF_vars(NextDevice) /\ WF_vars(Finish)
-----------------------------------------------------------------------------
(* Properties                                                              *)

Left(d) == original[d] # "unknown" /\ power[d] # original[d]

\* A power test that passed has left the device as it found it, and no write
\* that is still on its way can change that, however late it comes: "Each
\* change requires a fresh state reply" (352_local_probe.py:16).
PassedMeansRestored ==
  \A d \in Devices : result[d] = "passed" =>
    /\ ~Left(d)
    /\ \A w \in writes[d] : w.on = original[d]

\* A program that ends by itself and leaves a device switched says so and exits
\* with 2 (352_local_probe.py:1075-1082), unless the device executed the toggle
\* only after the tool had stopped waiting for it.  Interrupts that nothing
\* catches are excepted: they lose the report.
LeftMeansReported ==
  phase = "ended" /\ ~escaped =>
    \A d \in Devices \ late : Left(d) => restored[d] = "no" /\ ExitCode = 2

\* The program ends though no device may ever answer.
ProbeEnds == phase = "scan" ~> phase \in {"ended", "crashed"}
-----------------------------------------------------------------------------
(* Inductive invariant, in parts                                           *)

Done == {"stop", "ended", "crashed"}
Testing == {"toggle", "pause", "restore"}
Datagram == [seq : Nat, on : Powers]
ScanStatuses == {"starting", "complete", "setup_or_socket_error", "interrupted"}
TestStatuses ==
  {"not_run", "skipped", "passed", "toggle_not_confirmed_original_state_restored",
   "interrupted_original_state_restored", "RESTORE_NOT_CONFIRMED_CHECK_DEVICE"}

TypeOK ==
  /\ device \in Devices
  /\ phase \in {"scan", "initial"} \cup Testing \cup Done
  /\ rounds \in Nat /\ identities \subseteq {"first", "another"}
  /\ read \in [expected : {"any"} \cup Powers, accepted : SUBSET Nat, queries : Nat,
              observed : {"unknown"} \cup Powers]
  /\ used \in Nat /\ attempts \in Nat
  /\ interrupted \in BOOLEAN /\ toggled \in BOOLEAN /\ escaped \in BOOLEAN
  /\ asked \subseteq Nat /\ replies \subseteq Datagram
  /\ writes \in [Devices -> SUBSET Datagram]
  /\ power \in [Devices -> Powers]
  /\ original \in [Devices -> {"unknown"} \cup Powers]
  /\ result \in [Devices -> TestStatuses] /\ scan \in [Devices -> ScanStatuses]
  /\ restored \in [Devices -> {"none", "yes", "no"}]
  /\ late \subseteq Devices

\* What the phase says of the read and of the replies awaited.
ReadShape ==
  /\ phase \notin {"initial", "toggle", "restore"} => read = NoRead
  /\ phase = "initial" => read.expected = "any" /\ read.observed = "unknown"
  /\ phase = "toggle" => read.accepted # {} /\ read.expected = Opposite(original[device])
  /\ phase = "restore" /\ read.accepted # {} => read.expected = original[device]
  /\ read.observed # read.expected
  /\ phase \in Done => asked = {} /\ replies = {}

\* A device is written to once its initial state is known, and is reported on
\* when its run is over.
RunOf(d) ==
  /\ original[d] = "unknown" => writes[d] = {} /\ d \notin late
  /\ d > device => original[d] = "unknown"
  /\ d = device => /\ phase \in {"scan", "initial"} => original[d] = "unknown"
                   /\ phase \in Testing => original[d] # "unknown"
  /\ d > device \/ (d = device /\ phase \notin Done) =>
       result[d] = "not_run" /\ restored[d] = "none"

RunShape == \A d \in Devices : RunOf(d)

\* A read accepts only sequence numbers that no earlier datagram carried.
SequencesUsed ==
  /\ asked \subseteq 0 .. used
  /\ \A r \in replies : r.seq <= used
  /\ read.accepted \subseteq 0 .. used
  /\ \A w \in writes[device] : w.seq <= used

\* The toggle of the device is no longer on its way.
Executed(d) == \A w \in writes[d] : w.on = original[d]

\* There is one toggle, and until it is executed the device stays as found.
OneToggle ==
  \A d \in Devices :
    /\ \A w, v \in writes[d] : w.on # original[d] /\ v.on # original[d] => w = v
    /\ ~Executed(d) => power[d] = original[d]

\* Before the toggle is executed, every state on its way is the one found.
StatesBefore ==
  /\ phase \in {"scan", "initial"} => \A r \in replies : r.on = power[device]
  /\ phase = "toggle" /\ ~Executed(device) => \A r \in replies : r.on = original[device]

\* The toggle that is still awaited is not late; one that was confirmed is over.
ToggleTimely ==
  /\ phase = "toggle" => /\ device \notin late
                         /\ \A w \in writes[device] : w.seq \in read.accepted
  /\ toggled => /\ phase \in {"pause", "restore"} \cup Done
                /\ device \notin late /\ Executed(device)

\* What a restore's read accepts cannot come from the toggle: a state as found
\* that answers it is the state the device still has.
RestoreFresh ==
  phase = "restore" =>
    /\ \A w \in writes[device] : w.seq \in read.accepted => w.on = original[device]
    /\ device \notin late =>
         \A r \in replies : r.seq \in read.accepted /\ r.on = original[device] =>
           power[device] = original[device]

\* What the reports of the devices tested so far stand for.
ReportOf(d) ==
  /\ restored[d] = "yes" => d \in late \/ power[d] = original[d]
  /\ result[d] = "passed" => restored[d] = "yes" /\ d \notin late /\ Executed(d)
  /\ restored[d] = "none" /\ original[d] # "unknown" =>
       escaped \/ (d = device /\ phase \in Testing)

ReportsTrue == \A d \in Devices : ReportOf(d)

IndInv ==
  /\ TypeOK /\ ReadShape /\ RunShape /\ SequencesUsed /\ OneToggle
  /\ StatesBefore /\ ToggleTimely /\ RestoreFresh /\ ReportsTrue
=============================================================================
