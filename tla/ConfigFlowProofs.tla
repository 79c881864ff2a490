-------------------------- MODULE ConfigFlowProofs --------------------------
(***************************************************************************)
(* Theorems about ConfigFlow, for any number of flows and devices: entries *)
(* keep their device and its MAC, no identity is confirmed by two flows,   *)
(* and two entries come to share a MAC in two ways only.  Every action but *)
(* one ends a flow, shows a form or accepts an identity: the invariant has *)
(* a lemma for each of the three, and one for the handler of a closed flow.*)
(*                                                                         *)
(* The second part is about Discovery, which finds the devices the flows   *)
(* offer, for any set of them: whatever it ends with, it leaves nothing    *)
(* open, hides no reply, and offers no device beside itself that has said  *)
(* its MAC.                                                                *)
(***************************************************************************)
EXTENDS ConfigFlow, Discovery, FiniteSetTheorems, TLAPS

\* The identity of a result, and what it may say of the MAC.
LEMMA ResultFacts ==
    ASSUME NEW r \in Result
    PROVE  /\ Id(r) \in Ids /\ Id(r)[1] = r.kind /\ Id(r)[2] = r.device
           /\ r # None /\ Id(r) # None
           /\ r.mac \in {r.device, None}
           /\ r.mac \in Legacy \cup Life \cup {None}
           /\ r.kind \in {"legacy", "life"}
           /\ r.kind = "legacy" => r.mac = r.device /\ r.mac # None
<1>1. Id(r) \in Ids /\ r # None /\ Id(r) # None
      BY ConfigFlowAssumption DEF Ids
<1>2. CASE r \in LegacyResult
      BY <1>1, <1>2, ConfigFlowAssumption DEF LegacyResult, Id
<1>3. CASE r \in LifeResult
      BY <1>1, <1>3 DEF LifeResult, Id
<1>. QED
      BY <1>2, <1>3 DEF Result

LEMMA InitInv == Init => IndInv
<1> SUFFICES ASSUME Init PROVE IndInv
    OBVIOUS
<1> USE DEF Init, Configured
<1>1. TypeOK
      BY DEF TypeOK
<1>2. EntryKeepsDevice
      BY DEF EntryKeepsDevice
<1>3. IdleForgets /\ UniqueIds /\ FormsKnow /\ NewFlows /\ Places
      BY DEF IdleForgets, UniqueIds, FormsKnow, NewFlows, Places
<1>4. AcceptedAlone
      BY DEF AcceptedAlone
<1>. QED
      BY <1>1, <1>2, <1>3, <1>4 DEF IndInv

\* Flows end, with any change of the entries that leaves those of the other
\* flows alone.
LEMMA OverStep ==
    ASSUME IndInv, NEW gone \in SUBSET Flows, Over(gone), orphaned' \in BOOLEAN,
           entries' \in [Configured' -> Entry], Configured' \subseteq Ids,
           EntryKeepsDevice',
           \A g \in Flows \ gone :
              /\ target[g] # None => target[g] \in Configured'
              /\ pending[g] # None /\ target[g] = None => Id(pending[g]) \notin Configured'
    PROVE  IndInv'
<1> USE DEF IndInv, Over
<1>1. TypeOK'
      BY DEF TypeOK
<1>2. IdleForgets'
      BY DEF IdleForgets
<1>3. UniqueIds'
      BY DEF UniqueIds
<1>4. FormsKnow'
      BY DEF FormsKnow
<1>5. NewFlows'
      BY DEF NewFlows
<1>6. Places'
      BY DEF Places
<1>7. AcceptedAlone'
      BY DEF AcceptedAlone
<1>. QED
      BY <1>1, <1>2, <1>3, <1>4, <1>5, <1>6, <1>7

\* A flow goes on, knowing no more than before.
LEMMA ShowStep ==
    ASSUME IndInv, NEW f \in Flows, NEW where \in Forms \cup Awaits, Show(f, where),
           where \in {"model", "local", "cleanup", "clearing"} => pending[f] # None,
           where \in {"menu", "none", "dhcp", "scan", "select", "manual", "validate"}
               => target[f] = None
    PROVE  IndInv'
<1> USE DEF IndInv, Show, Goto, TypeOK
<1>1. TypeOK' /\ EntryKeepsDevice'
      BY DEF EntryKeepsDevice, Configured
<1>2. IdleForgets'
      BY DEF IdleForgets, Forms, Awaits
<1>3. UniqueIds'
      BY DEF UniqueIds
<1>4. FormsKnow'
      BY DEF FormsKnow
<1>5. NewFlows'
      BY DEF NewFlows
<1>6. Places'
      BY DEF Places, Configured
<1>7. AcceptedAlone'
      BY DEF AcceptedAlone
<1>. QED
      BY <1>1, <1>2, <1>3, <1>4, <1>5, <1>6, <1>7

\* A flow accepts an identity that no other flow has: a new one, or that of
\* the entry it reconfigures.
LEMMA AcceptStep ==
    ASSUME IndInv, NEW f \in Flows, NEW r \in Result,
           NEW where \in {"menu", "model", "local", "cleanup"}, Accept(f, r, where),
           ~InProgress(f, Id(r)),
           \/ target[f] = None /\ Id(r) \notin Configured /\ ~MacAlreadyConfigured(r)
           \/ target[f] # None /\ Id(r) = target[f] /\ where # "menu"
    PROVE  IndInv'
<1> USE ResultFacts DEF IndInv, Accept, Goto, TypeOK
<1>1. TypeOK' /\ EntryKeepsDevice'
      BY DEF EntryKeepsDevice, Configured, Forms
<1>2. IdleForgets'
      BY DEF IdleForgets
<1>3. UniqueIds'
      BY DEF UniqueIds, InProgress
<1>4. FormsKnow'
      BY DEF FormsKnow
<1>5. NewFlows'
      BY DEF NewFlows
<1>6. Places'
      BY DEF Places, Configured
<1>7. AcceptedAlone'
      BY DEF AcceptedAlone
<1>. QED
      BY <1>1, <1>2, <1>3, <1>4, <1>5, <1>6, <1>7

LEMMA OutlivedType ==
    ASSUME NEW gone, Outlived(gone), orphaned \in BOOLEAN PROVE orphaned' \in BOOLEAN
BY DEF Outlived

\* The three ways a flow ends.
LEMMA CloseStep ==
    ASSUME IndInv, NEW f \in Flows, Over({f}), UNCHANGED entries, orphaned' \in BOOLEAN
    PROVE  IndInv'
<1>1. Configured' = Configured /\ EntryKeepsDevice'
      BY DEF IndInv, EntryKeepsDevice, Configured
<1>2. \A g \in Flows \ {f} :
         /\ target[g] # None => target[g] \in Configured'
         /\ pending[g] # None /\ target[g] = None => Id(pending[g]) \notin Configured'
      BY <1>1 DEF IndInv, Places
<1>3. entries' \in [Configured' -> Entry] /\ Configured' \subseteq Ids
      BY <1>1 DEF IndInv, TypeOK
<1>. QED
      BY <1>1, <1>2, <1>3, OverStep

LEMMA AbortStep ==
    ASSUME IndInv, NEW f \in Flows, Abort(f) PROVE IndInv'
<1>1. orphaned' \in BOOLEAN
      BY DEF Abort, IndInv, TypeOK
<1>. QED
      BY <1>1, CloseStep DEF Abort

LEMMA CreateStep ==
    ASSUME IndInv, NEW f \in Flows, NEW r \in Result, Create(f, r)
    PROVE  IndInv'
<1> DEFINE gone == {f} \cup {g \in Flows : unique[g] = Id(r)}
<1>1. Configured' = Configured \cup {Id(r)}
      BY DEF Create, Configured
<1>2. Data(r) \in Entry
      BY ResultFacts DEF Data, Entry
<1>3. entries' \in [Configured' -> Entry] /\ Configured' \subseteq Ids
      BY <1>1, <1>2, ResultFacts DEF Create, IndInv, TypeOK
<1>4. EntryKeepsDevice'
      BY <1>1, ResultFacts DEF Create, IndInv, EntryKeepsDevice, Data
<1>5. \A g \in Flows \ gone :
         /\ target[g] # None => target[g] \in Configured'
         /\ pending[g] # None /\ target[g] = None => Id(pending[g]) \notin Configured'
      BY <1>1 DEF IndInv, Places, UniqueIds
<1>6. gone \in SUBSET Flows /\ Over(gone)
      BY DEF Create
<1>7. orphaned' \in BOOLEAN
      BY OutlivedType DEF Create, IndInv, TypeOK
<1>. QED
      BY <1>3, <1>4, <1>5, <1>6, <1>7, OverStep

\* Changing an entry to what its own device says.
LEMMA UpdateStep ==
    ASSUME IndInv, NEW f \in Flows, NEW r \in Result, Id(r) \in Configured,
           entries' = [entries EXCEPT ![Id(r)] = Updated(@, r)], Over({f}),
           UNCHANGED orphaned
    PROVE  IndInv'
<1>1. Configured' = Configured
      BY DEF Configured
<1>2. entries[Id(r)] \in Entry /\ Updated(entries[Id(r)], r) \in Entry
      BY ResultFacts DEF IndInv, TypeOK, Updated, Entry
<1>3. entries' \in [Configured' -> Entry] /\ Configured' \subseteq Ids
      BY <1>1, <1>2 DEF IndInv, TypeOK
<1>4. EntryKeepsDevice'
      BY <1>1, ResultFacts DEF IndInv, TypeOK, EntryKeepsDevice, Updated
<1>5. \A g \in Flows \ {f} :
         /\ target[g] # None => target[g] \in Configured'
         /\ pending[g] # None /\ target[g] = None => Id(pending[g]) \notin Configured'
      BY <1>1 DEF IndInv, Places
<1>6. orphaned' \in BOOLEAN
      BY DEF IndInv, TypeOK
<1>. QED
      BY <1>3, <1>4, <1>5, <1>6, OverStep

\* The handler of a closed flow changes an entry to what its own device says.
LEMMA OrphanInv ==
    ASSUME IndInv, OrphanDone PROVE IndInv'
<1>1. /\ UNCHANGED <<stage, unique, pending, offered, target, alone>>
      /\ orphaned' \in BOOLEAN
      BY DEF OrphanDone, flowVars
<1>2. CASE UNCHANGED entries
      BY <1>1, <1>2
         DEF IndInv, TypeOK, EntryKeepsDevice, IdleForgets, UniqueIds, FormsKnow, NewFlows,
             Places, AcceptedAlone, Configured
<1>3. ASSUME NEW r \in Result, Id(r) \in Configured,
             entries' = [entries EXCEPT ![Id(r)] = Updated(@, r)]
      PROVE  IndInv'
      <2>1. Configured' = Configured
            BY <1>3 DEF Configured
      <2>2. entries[Id(r)] \in Entry /\ Updated(entries[Id(r)], r) \in Entry
            BY <1>3, ResultFacts DEF IndInv, TypeOK, Updated, Entry
      <2>3. TypeOK'
            BY <1>1, <1>3, <2>1, <2>2 DEF IndInv, TypeOK
      <2>4. EntryKeepsDevice'
            BY <1>3, <2>1, ResultFacts DEF IndInv, TypeOK, EntryKeepsDevice, Updated
      <2>5. IdleForgets' /\ UniqueIds' /\ FormsKnow' /\ NewFlows' /\ Places' /\ AcceptedAlone'
            BY <1>1, <2>1
               DEF IndInv, IdleForgets, UniqueIds, FormsKnow, NewFlows, Places, AcceptedAlone
      <2>. QED
            BY <2>3, <2>4, <2>5 DEF IndInv
<1>. QED
      BY <1>2, <1>3 DEF OrphanDone

\* A flow at its last form ends with its entry created or changed.
LEMMA FinishStep ==
    ASSUME IndInv, NEW f \in Flows, NEW r \in Result, Finish(f, r),
           target[f] # None => Id(r) = target[f]
    PROVE  IndInv'
<1>1. CASE target[f] = None
      BY <1>1, CreateStep DEF Finish
<1>2. CASE target[f] # None
      <2>1. Id(r) \in Configured /\ target[f] = Id(r)
            BY <1>2 DEF IndInv, Places
      <2>. QED
            BY <1>2, <2>1, UpdateStep DEF Finish
<1>. QED
      BY <1>1, <1>2

-----------------------------------------------------------------------------
(* The steps                                                               *)

LEMMA StartInv ==
    ASSUME IndInv, NEW f \in Flows, Start(f) PROVE IndInv'
<1>1. stage[f] = "idle" /\ target[f] = None /\ pending[f] = None /\ unique[f] = None
      BY DEF Start, IndInv, IdleForgets
<1>2. CASE Show(f, "menu") \/ Show(f, "dhcp")
      BY <1>1, <1>2, ShowStep DEF Forms, Awaits
<1>3. ASSUME NEW id \in Configured,
             target' = [target EXCEPT ![f] = id], Goto(f, "reconfigure"),
             UNCHANGED <<entries, orphaned, unique, pending, offered, alone>>
      PROVE  IndInv'
      <2> USE <1>1, <1>3 DEF IndInv, TypeOK, Goto
      <2>0. id \in Ids
            OBVIOUS
      <2>1. TypeOK' /\ EntryKeepsDevice'
            BY <2>0 DEF EntryKeepsDevice, Configured, Forms
      <2>2. IdleForgets' /\ FormsKnow' /\ NewFlows'
            BY DEF IdleForgets, FormsKnow, NewFlows
      <2>3. UniqueIds'
            BY DEF UniqueIds
      <2>4. Places' /\ AcceptedAlone'
            BY DEF Places, AcceptedAlone, Configured
      <2>. QED
            BY <2>1, <2>2, <2>3, <2>4
<1>. QED
      BY <1>2, <1>3 DEF Start

Onward == {"menu", "model", "local", "cleanup", "entry"}

\* An accepted identity, by a form or at once.
LEMMA GoOnStep ==
    ASSUME IndInv, NEW f \in Flows, NEW r \in Result, NEW where \in Onward,
           ~InProgress(f, Id(r)),
           \/ target[f] = None /\ Id(r) \notin Configured /\ ~MacAlreadyConfigured(r)
           \/ target[f] # None /\ Id(r) = target[f] /\ where # "menu",
           GoOn(f, r, where)
    PROVE  IndInv'
<1>1. CASE where # "entry"
      BY <1>1, AcceptStep DEF GoOn, Onward
<1>2. CASE where = "entry"
      BY <1>2, FinishStep DEF GoOn
<1>. QED
      BY <1>1, <1>2

LEMMA IdentifyStep ==
    ASSUME IndInv, NEW f \in Flows, NEW r \in Result, NEW where \in Onward,
           target[f] = None, Identify(f, r, where)
    PROVE  IndInv'
<1>1. CASE Abort(f)
      BY <1>1, AbortStep
<1>2. CASE UpdateExisting(f, r)
      BY <1>2, UpdateStep DEF UpdateExisting
<1>3. CASE /\ GoOn(f, r, where) /\ Id(r) \notin Configured
           /\ ~MacAlreadyConfigured(r) /\ ~InProgress(f, Id(r))
      BY <1>3, GoOnStep
<1>. QED
      BY <1>1, <1>2, <1>3 DEF Identify

LEMMA AfterValidationOnward ==
    ASSUME NEW r PROVE AfterValidation(r) \subseteq Onward \ {"menu"}
<1>. QED
      BY DEF AfterValidation, Following, Onward

LEMMA SearchInv ==
    ASSUME IndInv, NEW f \in Flows,
           DhcpDone(f) \/ AutoStep(f) \/ ScanDone(f) \/ Select(f)
    PROVE  IndInv'
<1>1. CASE DhcpDone(f)
      <2>1. target[f] = None
            BY <1>1 DEF DhcpDone, IndInv, NewFlows
      <2>. QED
            BY <1>1, <2>1, IdentifyStep, AbortStep DEF DhcpDone, Onward
<1>2. CASE AutoStep(f)
      <2>1. target[f] = None
            BY <1>2 DEF AutoStep, IndInv, NewFlows
      <2>. QED
            BY <1>2, <2>1, ShowStep DEF AutoStep, Forms, Awaits
<1>3. CASE ScanDone(f)
      <2>1. PICK rs \in SUBSET Result :
               /\ offered' = [offered EXCEPT ![f] = rs]
               /\ Goto(f, IF rs = {} THEN "none" ELSE "select")
            BY <1>3 DEF ScanDone
      <2>2. /\ stage[f] = "scan"
            /\ UNCHANGED <<entries, orphaned, unique, pending, target, alone>>
            BY <1>3 DEF ScanDone
      <2>3. target[f] = None
            BY <2>2 DEF IndInv, NewFlows
      <2> USE <2>1, <2>2, <2>3 DEF IndInv, TypeOK, Goto
      <2>4. TypeOK' /\ EntryKeepsDevice'
            BY DEF EntryKeepsDevice, Configured, Forms
      <2>5. IdleForgets' /\ FormsKnow' /\ NewFlows'
            BY DEF IdleForgets, FormsKnow, NewFlows
      <2>6. UniqueIds'
            BY DEF UniqueIds
      <2>7. Places' /\ AcceptedAlone'
            BY DEF Places, AcceptedAlone, Configured
      <2>. QED
            BY <2>4, <2>5, <2>6, <2>7
<1>4. CASE Select(f)
      <2>1. stage[f] = "select" /\ target[f] = None
            BY <1>4 DEF Select, IndInv, NewFlows
      <2>2. PICK r \in offered[f] : \E where \in Onward : Identify(f, r, where)
            BY <1>4 DEF Select, Onward
      <2>3. r \in Result
            BY DEF IndInv, TypeOK
      <2>. QED
            BY <2>1, <2>2, <2>3, IdentifyStep
<1>. QED
      BY <1>1, <1>2, <1>3, <1>4

LEMMA FormInv ==
    ASSUME IndInv, NEW f \in Flows,
           Manual(f) \/ Submit(f) \/ Invalid(f) \/ Validated(f) \/ Revalidated(f)
    PROVE  IndInv'
<1>1. CASE Manual(f)
      <2>1. target[f] = None
            BY <1>1 DEF Manual, IndInv, NewFlows
      <2>. QED
            BY <1>1, <2>1, ShowStep DEF Manual, Forms
<1>2. CASE Submit(f)
      <2>1. stage[f] = "manual" => target[f] = None
            BY DEF IndInv, NewFlows
      <2>. QED
            BY <1>2, <2>1, ShowStep DEF Submit, Awaits
<1>3. CASE Invalid(f)
      <2>1. stage[f] = "validate" => target[f] = None
            BY DEF IndInv, NewFlows
      <2>. QED
            BY <1>3, <2>1, ShowStep DEF Invalid, Forms
<1>4. CASE Validated(f)
      <2>1. target[f] = None
            BY <1>4 DEF Validated, IndInv, NewFlows
      <2>2. PICK r \in Result : \E where \in AfterValidation(r) : Identify(f, r, where)
            BY <1>4 DEF Validated
      <2>. QED
            BY <2>1, <2>2, AfterValidationOnward, IdentifyStep
<1>5. CASE Revalidated(f)
      <2>1. PICK r \in Result :
               \/ Abort(f)
               \/ /\ ~InProgress(f, Id(r)) /\ Id(r) = target[f]
                  /\ \E where \in AfterValidation(r) : GoOn(f, r, where)
            BY <1>5 DEF Revalidated
      <2>2. Id(r) # None
            BY ResultFacts
      <2>. QED
            BY <2>1, <2>2, AbortStep, GoOnStep, AfterValidationOnward
<1>. QED
      BY <1>1, <1>2, <1>3, <1>4, <1>5

LEMMA ConfirmInv ==
    ASSUME IndInv, NEW f \in Flows,
           ConfirmModel(f) \/ ConfirmLocal(f) \/ Cleanup(f) \/ Cleared(f)
    PROVE  IndInv'
<1>1. stage[f] \in {"model", "local", "cleanup", "clearing"}
      BY DEF ConfirmModel, ConfirmLocal, Cleanup, Cleared
<1>2. pending[f] # None /\ pending[f] \in Result
      BY <1>1 DEF IndInv, TypeOK, FormsKnow
<1>3. target[f] # None => Id(pending[f]) = target[f]
      BY <1>2 DEF IndInv, Places
<1>4. CASE Finish(f, pending[f])
      BY <1>2, <1>3, <1>4, FinishStep
<1>5. ASSUME NEW where \in {"local", "cleanup", "clearing"}, Show(f, where)
      PROVE  IndInv'
      BY <1>2, <1>5, ShowStep DEF Forms, Awaits
<1>6. Following(pending[f]) \in {"local", "cleanup", "entry"}
      BY DEF Following
<1>. QED
      BY <1>4, <1>5, <1>6 DEF ConfirmModel, ConfirmLocal, Cleanup, Cleared

LEMMA RemoveInv ==
    ASSUME IndInv, NEW id \in Ids, Remove(id) PROVE IndInv'
<1> DEFINE gone == {f \in Flows : target[f] = id}
<1>1. Configured' = Configured \ {id}
      BY DEF Remove, Configured
<1>2. entries' \in [Configured' -> Entry] /\ Configured' \subseteq Ids
      BY <1>1 DEF Remove, IndInv, TypeOK
<1>3. EntryKeepsDevice'
      BY <1>1 DEF Remove, IndInv, EntryKeepsDevice
<1>4. \A g \in Flows \ gone :
         /\ target[g] # None => target[g] \in Configured'
         /\ pending[g] # None /\ target[g] = None => Id(pending[g]) \notin Configured'
      BY <1>1 DEF IndInv, Places
<1>5. gone \in SUBSET Flows /\ Over(gone)
      BY DEF Remove
<1>6. orphaned' \in BOOLEAN
      BY DEF Remove, IndInv, TypeOK
<1>. QED
      BY <1>2, <1>3, <1>4, <1>5, <1>6, OverStep

LEMMA StepInv == IndInv /\ [Next]_vars => IndInv'
<1> SUFFICES ASSUME IndInv, [Next]_vars PROVE IndInv'
    OBVIOUS
<1>1. CASE UNCHANGED vars
      BY <1>1 DEF vars, flowVars, IndInv, TypeOK, EntryKeepsDevice, IdleForgets,
                  UniqueIds, FormsKnow, NewFlows, Places, AcceptedAlone, Configured
<1>2. ASSUME NEW f \in Flows, Close(f) PROVE IndInv'
      BY <1>2, CloseStep, OutlivedType DEF Close, IndInv, TypeOK
<1>3. CASE Next
      BY <1>2, <1>3, StartInv, SearchInv, FormInv, ConfirmInv, RemoveInv, OrphanInv
         DEF Next
<1>. QED
      BY <1>1, <1>3

LEMMA Invariance == Spec => []IndInv
<1>. QED
      BY InitInv, StepInv, PTL DEF Spec

-----------------------------------------------------------------------------
(* The theorems                                                            *)

\* An entry's data are those of its own device, whatever flows were open when
\* it was created, updated and reconfigured.
THEOREM EntriesKeepTheirDevice == Spec => []EntryKeepsDevice
<1>1. IndInv => EntryKeepsDevice
      BY DEF IndInv
<1>. QED
      BY <1>1, Invariance, PTL

\* However many flows are open, no two confirm the same identity.
THEOREM NoIdentityTwice == Spec => []OneFlowPerIdentity
<1>1. IndInv => OneFlowPerIdentity
      <2> SUFFICES ASSUME IndInv, NEW f \in Flows, NEW g \in Flows, f # g,
                          pending[f] # None, pending[g] # None
                   PROVE  Id(pending[f]) # Id(pending[g])
          BY DEF OneFlowPerIdentity
      <2>1. pending[f] \in Result
            BY DEF IndInv, TypeOK
      <2>2. unique[f] # None
            BY <2>1, ResultFacts DEF IndInv, UniqueIds
      <2>. QED
            BY <2>2 DEF IndInv, UniqueIds
<1>. QED
      BY <1>1, Invariance, PTL

-----------------------------------------------------------------------------
(* What a step does to the entries                                         *)

Unchanged == entries' = entries

Updates(r) ==
    Id(r) \in Configured /\ entries' = [entries EXCEPT ![Id(r)] = Updated(@, r)]

Adds(r) ==
    /\ Id(r) \notin Configured
    /\ entries' = [i \in Configured \cup {Id(r)} |->
                      IF i = Id(r) THEN Data(r) ELSE entries[i]]

Removes(id) == entries' = [i \in Configured \ {id} |-> entries[i]]

\* Why a step may write the result r to an entry: no other entry has its MAC,
\* a legacy entry gets its own again, or a flow had accepted it and ends: for the
\* entry it reconfigures, or for a new one, and then no other entry had the MAC.
Due(r) ==
    \/ ~MacAlreadyConfigured(r)
    \/ r.kind = "legacy" /\ Id(r) \in Configured
    \/ \E f \in Flows :
          /\ pending[f] = r /\ stage'[f] = "idle"
          /\ target[f] = Id(r) \/ (target[f] = None /\ alone[f])

Writes(r) == (Updates(r) \/ Adds(r)) /\ Due(r)

MacKept ==
    \A i \in Configured \cap Configured' :
        entries[i].mac # None => entries'[i].mac = entries[i].mac

\* A flow without an entry of its own confirms an identity that has none, so
\* its entry is a new one.
LEMMA FinishEntries ==
    ASSUME IndInv, NEW f \in Flows, NEW r \in Result, Finish(f, r),
           \/ target[f] = None /\ Id(r) \notin Configured
           \/ target[f] # None /\ Id(r) = target[f]
    PROVE  (Updates(r) \/ Adds(r)) /\ stage'[f] = "idle"
<1>1. CASE target[f] = None
      BY <1>1, ResultFacts DEF Finish, Create, Adds, Over
<1>2. CASE target[f] # None
      BY <1>2 DEF Finish, Updates, IndInv, Places, Over
<1>. QED
      BY <1>1, <1>2

LEMMA ConfirmEntries ==
    ASSUME IndInv, NEW f \in Flows,
           stage[f] \in {"model", "local", "cleanup", "clearing"},
           Finish(f, pending[f])
    PROVE  \E r \in Result : Writes(r)
<1>1. pending[f] # None /\ pending[f] \in Result
      BY DEF IndInv, TypeOK, FormsKnow
<1>2. \/ target[f] = None /\ Id(pending[f]) \notin Configured
      \/ target[f] # None /\ Id(pending[f]) = target[f]
      BY <1>1 DEF IndInv, Places
<1>3. target[f] = None => alone[f]
      BY <1>1 DEF IndInv, AcceptedAlone
<1>. QED
      BY <1>1, <1>2, <1>3, FinishEntries DEF Writes, Due

LEMMA IdentifyEntries ==
    ASSUME IndInv, NEW f \in Flows, NEW r \in Result, NEW where \in Onward,
           target[f] = None, Identify(f, r, where)
    PROVE  Unchanged \/ Writes(r)
<1>1. CASE Abort(f) \/ \E w \in Onward : Accept(f, r, w)
      BY <1>1 DEF Abort, Accept, Unchanged
<1>2. CASE ~MacAlreadyConfigured(r) /\ UpdateExisting(f, r)
      BY <1>2 DEF UpdateExisting, Updates, Writes, Due
<1>3. CASE ~MacAlreadyConfigured(r) /\ Finish(f, r) /\ Id(r) \notin Configured
      BY <1>3, FinishEntries DEF Writes, Due
<1>. QED
      BY <1>1, <1>2, <1>3 DEF Identify, GoOn

LEMMA EntriesStep ==
    ASSUME IndInv, Next
    PROVE  \/ Unchanged
           \/ \E r \in Result : Writes(r)
           \/ \E id \in Ids : Removes(id)
<1>1. ASSUME NEW f \in Flows,
             Start(f) \/ Close(f) \/ AutoStep(f) \/ ScanDone(f) \/ Manual(f)
                 \/ Submit(f) \/ Invalid(f)
      PROVE  Unchanged
      BY <1>1 DEF Start, Close, AutoStep, ScanDone, Manual, Submit, Invalid, Show,
                  Abort, Unchanged
<1>2. ASSUME NEW f \in Flows, DhcpDone(f) \/ Select(f) \/ Validated(f)
      PROVE  Unchanged \/ \E r \in Result : Writes(r)
      <2>1. target[f] = None
            BY <1>2 DEF DhcpDone, Select, Validated, IndInv, NewFlows
      <2>2. \/ Unchanged
            \/ \E r \in Result : \E where \in Onward : Identify(f, r, where)
            BY <1>2, AfterValidationOnward
               DEF DhcpDone, Select, Validated, Abort, Unchanged, Onward, IndInv, TypeOK
      <2>. QED
            BY <2>1, <2>2, IdentifyEntries
<1>3. ASSUME NEW f \in Flows, Revalidated(f)
      PROVE  Unchanged \/ \E r \in Result : Writes(r)
      <2>1. PICK r \in Result :
               \/ Unchanged
               \/ Id(r) = target[f] /\ Finish(f, r) /\ "entry" \in AfterValidation(r)
            BY <1>3 DEF Revalidated, GoOn, Accept, Abort, Unchanged
      <2>2. "entry" \in AfterValidation(r) => r.kind = "legacy"
            BY ResultFacts DEF AfterValidation, Following
      <2>3. Id(r) = target[f] => target[f] # None /\ Id(r) \in Configured
            BY ResultFacts DEF IndInv, Places
      <2>. QED
            BY <2>1, <2>2, <2>3, FinishEntries DEF Writes, Due
<1>4. ASSUME NEW f \in Flows,
             ConfirmModel(f) \/ ConfirmLocal(f) \/ Cleanup(f) \/ Cleared(f)
      PROVE  Unchanged \/ \E r \in Result : Writes(r)
      <2>1. stage[f] \in {"model", "local", "cleanup", "clearing"}
            BY <1>4 DEF ConfirmModel, ConfirmLocal, Cleanup, Cleared
      <2>2. Unchanged \/ Finish(f, pending[f])
            BY <1>4 DEF ConfirmModel, ConfirmLocal, Cleanup, Cleared, Show, Unchanged
      <2>. QED
            BY <2>1, <2>2, ConfirmEntries
<1>5. ASSUME NEW id \in Ids, Remove(id) PROVE Removes(id)
      BY <1>5 DEF Remove, Removes
<1>6. CASE OrphanDone
      BY <1>6 DEF OrphanDone, Unchanged, Writes, Updates, Due
<1>. QED
      BY <1>1, <1>2, <1>3, <1>4, <1>5, <1>6 DEF Next

LEMMA MacStep == IndInv /\ [Next]_vars => MacKept
<1> SUFFICES ASSUME IndInv, [Next]_vars PROVE MacKept
    OBVIOUS
<1>1. CASE UNCHANGED vars \/ Unchanged
      BY <1>1 DEF vars, Unchanged, MacKept
<1>2. ASSUME NEW r \in Result, Updates(r) PROVE MacKept
      BY <1>2, ResultFacts
         DEF Updates, Updated, MacKept, Configured, IndInv, TypeOK, EntryKeepsDevice
<1>3. ASSUME NEW r \in Result, Adds(r) PROVE MacKept
      BY <1>3 DEF Adds, MacKept, Configured
<1>4. ASSUME NEW id \in Ids, Removes(id) PROVE MacKept
      BY <1>4 DEF Removes, MacKept, Configured
<1>. QED
      BY <1>1, <1>2, <1>3, <1>4, EntriesStep DEF Writes

\* The MAC of an entry, once known, stays: no step of any flow replaces an
\* entry or takes its MAC from it.
THEOREM EntriesKeepTheirMac == Spec => EntryKeepsMac
<1>1. IndInv /\ [Next]_vars => [MacKept]_vars
      BY MacStep
<1>2. Spec => [][MacKept]_vars
      BY <1>1, Invariance, PTL DEF Spec
<1>. QED
      BY <1>2 DEF EntryKeepsMac, MacKept

LEMMA LegacyMacStep ==
    ASSUME IndInv, LegacyHasMac, [Next]_vars
    PROVE  LegacyHasMac'
<1> USE DEF LegacyHasMac, Configured
<1>1. CASE UNCHANGED vars \/ Unchanged
      BY <1>1 DEF vars, Unchanged
<1>2. ASSUME NEW r \in Result, Updates(r) PROVE LegacyHasMac'
      BY <1>2, ResultFacts DEF Updates, Updated, IndInv, TypeOK
<1>3. ASSUME NEW r \in Result, Adds(r) PROVE LegacyHasMac'
      BY <1>3, ResultFacts DEF Adds, Data
<1>4. ASSUME NEW id \in Ids, Removes(id) PROVE LegacyHasMac'
      BY <1>4 DEF Removes
<1>. QED
      BY <1>1, <1>2, <1>3, <1>4, EntriesStep DEF Writes

LEMMA LegacyMacInvariance == Spec => []LegacyHasMac
<1>1. Init => LegacyHasMac
      BY DEF Init, LegacyHasMac, Configured
<1>2. IndInv /\ LegacyHasMac /\ [Next]_vars => LegacyHasMac'
      BY LegacyMacStep
<1>. QED
      BY <1>1, <1>2, Invariance, PTL DEF Spec

\* Two entries that did not share a MAC before the step share one after it.
Meet(i, j) ==
    /\ i # j /\ entries'[i].mac # None /\ entries'[i].mac = entries'[j].mac
    /\ ~ (i \in Configured /\ j \in Configured /\ entries[i].mac = entries[j].mac)

\* A flow ends that brings this about by a race or by a reconfiguration.
InOneOfTwoWays(i, j) ==
    \E f \in Flows :
        /\ stage'[f] = "idle" /\ pending[f] # None
        /\ Id(pending[f]) \in {i, j} /\ pending[f].mac = entries'[i].mac
        /\ \/ target[f] = None /\ alone[f]
           \/ /\ target[f] = Id(pending[f]) /\ target[f][1] = "life"
              /\ entries[target[f]].mac = None

MeetingsInTwoWays == \A i, j \in Configured' : Meet(i, j) => InOneOfTwoWays(i, j)

LEMMA MeetStep ==
    ASSUME IndInv, LegacyHasMac, [Next]_vars,
           NEW i \in Configured', NEW j \in Configured', Meet(i, j)
    PROVE  InOneOfTwoWays(i, j)
<1>1. CASE UNCHANGED vars \/ Unchanged
      BY <1>1 DEF vars, Unchanged, Meet, Configured
<1>2. ASSUME NEW id \in Ids, Removes(id) PROVE InOneOfTwoWays(i, j)
      BY <1>2 DEF Removes, Meet, Configured
<1>3. ASSUME NEW r \in Result, Writes(r) PROVE InOneOfTwoWays(i, j)
      <2>1. ASSUME NEW k \in {i, j}, NEW o \in Configured \ {k}, k = Id(r),
                   r.mac # None, entries[o].mac = r.mac, entries'[i].mac = r.mac,
                   k \in Configured => entries[k].mac # r.mac
            PROVE  InOneOfTwoWays(i, j)
            <3>1. MacAlreadyConfigured(r)
                  BY <2>1 DEF MacAlreadyConfigured
            <3>2. ASSUME Id(r) \in Configured
                  PROVE  entries[Id(r)].mac = None /\ r.kind = "life"
                  <4>1. r.mac = Id(r)[2] /\ r.kind = Id(r)[1]
                        BY <2>1, ResultFacts
                  <4>2. entries[Id(r)].mac \in {Id(r)[2], None}
                        BY <3>2 DEF IndInv, EntryKeepsDevice
                  <4>3. entries[Id(r)].mac = None
                        BY <2>1, <3>2, <4>1, <4>2
                  <4>4. r.kind # "legacy"
                        BY <3>2, <4>1, <4>3 DEF LegacyHasMac
                  <4>. QED
                        BY <4>3, <4>4, ResultFacts
            <3>3. PICK f \in Flows : /\ pending[f] = r /\ stage'[f] = "idle"
                                     /\ target[f] = Id(r) \/ (target[f] = None /\ alone[f])
                  BY <1>3, <3>1, <3>2 DEF Writes, Due
            <3>4. target[f] = Id(r) => Id(r) \in Configured
                  BY ResultFacts DEF IndInv, Places
            <3>. QED
                  BY <2>1, <3>2, <3>3, <3>4, ResultFacts DEF InOneOfTwoWays
      <2>2. CASE Updates(r)
            <3>1. /\ Configured' = Configured /\ Id(r) \in Configured
                  /\ \A n \in Configured \ {Id(r)} : entries'[n] = entries[n]
                  /\ entries'[Id(r)] = Updated(entries[Id(r)], r)
                  BY <2>2 DEF Updates, Configured, IndInv, TypeOK
            <3>2. entries'[Id(r)].mac = IF r.mac = None THEN entries[Id(r)].mac ELSE r.mac
                  BY <3>1 DEF Updated
            <3>3. r.mac # None /\ entries[Id(r)].mac # r.mac
                  BY <3>1, <3>2 DEF Meet
            <3>4. CASE i = Id(r)
                  BY <2>1, <3>1, <3>2, <3>3, <3>4 DEF Meet
            <3>5. CASE j = Id(r)
                  BY <2>1, <3>1, <3>2, <3>3, <3>5 DEF Meet
            <3>. QED
                  BY <3>1, <3>4, <3>5 DEF Meet
      <2>3. CASE Adds(r)
            <3>1. /\ Configured' = Configured \cup {Id(r)} /\ Id(r) \notin Configured
                  /\ \A n \in Configured : entries'[n] = entries[n]
                  /\ entries'[Id(r)].mac = r.mac
                  BY <2>3 DEF Adds, Configured, Data
            <3>2. CASE i = Id(r)
                  BY <2>1, <3>1, <3>2 DEF Meet
            <3>3. CASE j = Id(r)
                  BY <2>1, <3>1, <3>3 DEF Meet
            <3>. QED
                  BY <3>1, <3>2, <3>3 DEF Meet
      <2>. QED
            BY <1>3, <2>2, <2>3 DEF Writes
<1>. QED
      BY <1>1, <1>2, <1>3, EntriesStep

\* "Do not create a second protocol entry for an already configured MAC"
\* (config_flow.py:159): a flow that makes two entries share a MAC either had
\* accepted its identity while no other entry had the MAC, or reconfigures a Life
\* entry that had none; for any flows and devices.
THEOREM SecondEntryTwoWays == Spec => MacSharedTwoWays
<1>1. IndInv /\ LegacyHasMac /\ [Next]_vars => [MeetingsInTwoWays]_vars
      BY MeetStep DEF MeetingsInTwoWays
<1>2. Spec => [][MeetingsInTwoWays]_vars
      BY <1>1, Invariance, LegacyMacInvariance, PTL DEF Spec
<1>. QED
      BY <1>2 DEF MacSharedTwoWays, MeetingsInTwoWays, Meet, InOneOfTwoWays
-----------------------------------------------------------------------------
(* The search a flow starts, for any devices and any question.                *)

LEMMA DiscoveryStart == DiscoveryInit => DiscoveryInv
<1> SUFFICES ASSUME DiscoveryInit PROVE DiscoveryInv
    OBVIOUS
<1>1. DiscoveryTypeOK
      BY DiscoveryAssumption DEF DiscoveryInit, DiscoveryTypeOK, Tasks
<1>2. OnlyOfferable /\ HeldWhileRunning /\ VerdictsFit /\ RaceStages
      BY DEF DiscoveryInit, OnlyOfferable, HeldWhileRunning, VerdictsFit,
         RaceStages
<1>4. ToldKept
      BY FS_EmptySet DEF DiscoveryInit, ToldKept, Tasks
<1>3. NothingHidden /\ OfferedOnce
      BY DEF DiscoveryInit, NothingHidden, OfferedOnce
<1>. QED
      BY <1>1, <1>2, <1>3, <1>4 DEF DiscoveryInv

\* What a step of a task leaves as it is: the question, the race, the other task.
OwnStep(t) ==
    /\ UNCHANGED <<question, raceVars>>
    /\ \A u \in Tasks \ {t} :
          /\ task'[u] = task[u] /\ found'[u] = found[u] /\ answer'[u] = answer[u]
          /\ verdict'[u] = verdict[u] /\ held'[u] = held[u] /\ cancelling'[u] = cancelling[u]
    /\ cancelling'[t] => cancelling[t]
    /\ ~Ended(t)

\* What is true of one task.
TaskInv(t) ==
    /\ task[t] \in {"new", "acquire", "listen", "settle", "stop", "release", "ended"}
    /\ verdict[t] \in {"none", "ok", "failed", "cancelled", "leaked"}
    /\ held[t] \in BOOLEAN /\ cancelling[t] \in BOOLEAN
    /\ found[t] \subseteq Offerable(t) /\ answer[t] \subseteq found[t]
    /\ held[t] => \/ task[t] \in {"listen", "settle", "stop", "release"}
                  \/ Ended(t) /\ verdict[t] = "leaked"
    /\ verdict[t] = "none" <=> task[t] \in {"new", "acquire", "listen", "settle"}
    /\ task[t] \in {"new", "acquire"} => found[t] = {}
    /\ verdict[t] = "none" => answer[t] = {}
    /\ verdict[t] = "ok" => answer[t] = found[t]
    /\ verdict[t] = "failed" => found[t] = {} \/ Probing(t)

Functions ==
    /\ task \in [Tasks ->
                   {"new", "acquire", "listen", "settle", "stop", "release", "ended"}]
    /\ found \in [Tasks -> SUBSET Results]
    /\ answer \in [Tasks -> SUBSET Results]
    /\ verdict \in [Tasks -> {"none", "ok", "failed", "cancelled", "leaked"}]
    /\ held \in [Tasks -> BOOLEAN] /\ cancelling \in [Tasks -> BOOLEAN]

\* A reply that is merged was eligible.
LEMMA MergedOfferable ==
    ASSUME DiscoveryInv, NEW t \in Tasks, NEW r, Eligible(t, r)
    PROVE  Merged(t, r) \subseteq Offerable(t) /\ Merged(t, r) # {}
<1>1. r \in Offerable(t) /\ found[t] \subseteq Offerable(t)
      BY DEF Eligible, Offerable, DiscoveryInv, OnlyOfferable
<1>2. (\E f \in found[t] : f.id = r.id) => (CHOOSE f \in found[t] : f.id = r.id) \in found[t]
      OBVIOUS
<1>. QED
      BY <1>1, <1>2 DEF Merged

\* What a mechanism has found only grows.
LEMMA MergedGrows ==
    ASSUME DiscoveryInv, NEW r \in Results, Eligible("life", r)
    PROVE  /\ IsFiniteSet(Merged("life", r))
           /\ Cardinality(Merged("life", r)) >= Cardinality(found["life"])
           /\ Cardinality(Merged("life", r)) \in Nat
<1> DEFINE old == CHOOSE f \in found["life"] : f.id = r.id
           rest == {f \in found["life"] : f.id # r.id}
           new == IF r.mac = NoMac /\ \E f \in found["life"] : f.id = r.id THEN old ELSE r
<1>1. /\ IsFiniteSet(found["life"]) /\ Merged("life", r) = rest \cup {new}
      /\ \A f, g \in found["life"] : f.id = g.id => f = g
      BY DEF DiscoveryInv, ToldKept, Merged
<1>2. new.id = r.id /\ new \notin rest
      OBVIOUS
<1>3. IsFiniteSet(rest) /\ Cardinality(rest) \in Nat
      <2>1. rest \subseteq found["life"]
            OBVIOUS
      <2>. QED
            BY <1>1, <2>1, FS_Subset, FS_CardinalityType
<1>4. IsFiniteSet(rest \cup {new}) /\ Cardinality(rest \cup {new}) = Cardinality(rest) + 1
      BY <1>2, <1>3, FS_AddElement
<1> HIDE DEF old, rest, new
<1>5. Cardinality(found["life"]) <= Cardinality(rest) + 1
      <2>1. CASE \E f \in found["life"] : f.id = r.id
            <3>1. old \in found["life"] /\ old.id = r.id
                  BY <2>1 DEF old
            <3>2. found["life"] = rest \cup {old} /\ old \notin rest
                  BY <1>1, <3>1 DEF rest
            <3>3. Cardinality(rest \cup {old}) = Cardinality(rest) + 1
                  BY <1>3, <3>2, FS_AddElement
            <3>. QED
                  BY <1>3, <3>2, <3>3
      <2>2. CASE \A f \in found["life"] : f.id # r.id
            <3>1. found["life"] = rest
                  BY <2>2 DEF rest
            <3>. QED
                  BY <1>3, <3>1
      <2>. QED
            BY <2>1, <2>2
<1>6. Cardinality(found["life"]) \in Nat /\ Cardinality(rest) + 1 \in Nat
      BY <1>1, <1>3, FS_CardinalityType
<1>7. /\ IsFiniteSet(Merged("life", r))
      /\ Cardinality(Merged("life", r)) = Cardinality(rest) + 1
      BY <1>1, <1>4, Zenon
<1>. QED
      BY <1>5, <1>6, <1>7

LEMMA OfferableResults ==
    ASSUME NEW t PROVE Offerable(t) \subseteq Results
BY DEF Offerable, Results

\* A step of a task keeps what is true of it, and touches nothing else.
LEMMA TaskStep ==
    ASSUME DiscoveryInv, NEW t \in Tasks,
           Step(t) \/ \E r \in Results : Reply(t, r)
    PROVE  OwnStep(t) /\ TaskInv(t)' /\ Functions'
           /\ (outcome = "none" => verdict'[t] \notin {"cancelled", "leaked"})
<1>0. /\ Functions /\ TaskInv(t)
      /\ outcome = "none" => verdict[t] \notin {"cancelled", "leaked"} /\ ~cancelling[t]
      BY DEF DiscoveryInv, DiscoveryTypeOK, OnlyOfferable, HeldWhileRunning,
         VerdictsFit, RaceStages,
             TaskInv, Functions
<1> USE DEF Functions, TaskInv, OwnStep, Go, question, raceVars,
            Ended, Probing, Offerable
<1>1. CASE Begin(t)
      BY <1>0, <1>1 DEF Begin
<1>2. CASE Acquired(t)
      BY <1>0, <1>2 DEF Acquired
<1>3. CASE NotAcquired(t)
      <2>1. PICK v \in {"ok", "failed"} :
                 /\ verdict' = [verdict EXCEPT ![t] = v] /\ answer' = [answer EXCEPT ![t] = {}]
            BY <1>3 DEF NotAcquired, Conclude
      <2>2. UNCHANGED <<found, held, cancelling>> /\ task' = [task EXCEPT ![t] = "ended"]
            BY <1>3 DEF NotAcquired
      <2>3. task[t] = "acquire" /\ found[t] = {} /\ ~held[t]
            BY <1>0, <1>3 DEF NotAcquired
      <2>. QED
            BY <1>0, <1>3, <2>1, <2>2, <2>3 DEF NotAcquired
<1>4. CASE \E r \in Results : Reply(t, r)
      <2>1. PICK r \in Results : Reply(t, r)
            BY <1>4
      <2>2. Eligible(t, r) => /\ Merged(t, r) \subseteq Offerable(t)
                              /\ Merged(t, r) \subseteq Results
            BY <2>1, MergedOfferable, OfferableResults
      <2>3. /\ found' = [found EXCEPT ![t] = IF Eligible(t, r) THEN Merged(t, r) ELSE @]
            /\ task[t] \in {"listen", "settle"}
            /\ UNCHANGED <<question, task, answer, verdict, held, cancelling,
                           raceVars>>
            BY <2>1 DEF Reply
      <2> HIDE DEF Offerable
      <2>4. Offerable(t)' = Offerable(t)
            BY <2>3 DEF Offerable
      <2>. QED
            BY <1>0, <2>2, <2>3, <2>4
<1>5. CASE Woken(t)
      BY <1>0, <1>5 DEF Woken, Leave, Conclude
<1>6. CASE TimedOut(t)
      <2>1. PICK v \in {"ok", "failed"}, a \in SUBSET found[t] :
                 /\ verdict' = [verdict EXCEPT ![t] = v] /\ answer' = [answer EXCEPT ![t] = a]
                 /\ v = "ok" => a = found[t]
                 /\ v = "failed" => Probing(t)
            BY <1>6 DEF TimedOut, Conclude
      <2>. QED
            BY <1>0, <1>6, <2>1 DEF TimedOut, Leave
<1>7. CASE Settled(t)
      BY <1>0, <1>7 DEF Settled, Leave, Conclude
<1>8. CASE ProbesStopped(t)
      BY <1>0, <1>8 DEF ProbesStopped
<1>9. CASE Released(t)
      BY <1>0, <1>9 DEF Released
<1>10. CASE TaskCancelled(t)
      <2>1. /\ cancelling' = [cancelling EXCEPT ![t] = FALSE] /\ cancelling[t] /\ ~Ended(t)
            /\ UNCHANGED <<question, found, raceVars>>
            BY <1>10 DEF TaskCancelled
      <2>2. CASE /\ task[t] \in {"new", "acquire"} /\ UNCHANGED held
                 /\ Go(t, "ended") /\ Conclude(t, "cancelled", {})
            BY <1>0, <2>1, <2>2 DEF Conclude
      <2>3. CASE /\ task[t] \in {"listen", "settle"}
                 /\ Leave(t) /\ Conclude(t, "cancelled", {})
            BY <1>0, <2>1, <2>3 DEF Conclude, Leave
      <2>4. CASE task[t] = "stop" /\ Go(t, "release") /\ UNCHANGED <<answer, verdict,
                                                                            held>>
            BY <1>0, <2>1, <2>4
      <2>5. CASE /\ task[t] = "release" /\ UNCHANGED held
                 /\ Go(t, "ended") /\ Conclude(t, "leaked", {})
            BY <1>0, <2>1, <2>5 DEF Conclude
      <2>. QED
            BY <1>10, <2>2, <2>3, <2>4, <2>5 DEF TaskCancelled
<1>. QED
      BY <1>1, <1>2, <1>3, <1>4, <1>5, <1>6, <1>7, <1>8, <1>9, <1>10 DEF Step

\* The invariant, task by task.
ByTask ==
    /\ Functions /\ \A t \in Tasks : TaskInv(t)
    /\ wanted \in Macs \cup {NoMac} /\ directed \in BOOLEAN
    /\ excluded \subseteq Macs \cup LifeIds
    /\ race \in {"wait", "settle", "stop", "done"} /\ collected \subseteq Tasks
    /\ results \subseteq Results
    /\ outcome \in {"none", "found", "nothing", "ambiguous", "cancelled"}
    /\ told \subseteq LifeIds /\ ToldKept
    /\ RaceStages /\ NothingHidden /\ OfferedOnce

LEMMA InvByTask == (DiscoveryInv <=> ByTask) /\ (DiscoveryInv <=> ByTask)'
BY DEF DiscoveryInv, DiscoveryTypeOK, OnlyOfferable, HeldWhileRunning, VerdictsFit,
   ByTask, Functions, TaskInv

\* What a device has said of its MAC is kept or refused; nobody says anything to a
\* task that has ended.
LEMMA ToldStep ==
    ASSUME DiscoveryInv, NEW t \in Tasks,
           Step(t) \/ \E r \in Results : Reply(t, r)
    PROVE  /\ told' \subseteq LifeIds /\ ToldKept'
           /\ told' = told \/ ~Ended("life")
<1>1. CASE Step(t)
      <2>1. UNCHANGED <<found, told, excluded, wanted>>
            BY <1>1
               DEF Step, Begin, Acquired, NotAcquired, Woken, TimedOut, Settled,
                   ProbesStopped, Released, TaskCancelled, question
      <2>. QED
            BY <2>1 DEF DiscoveryInv, DiscoveryTypeOK, ToldKept, Refused
<1>2. ASSUME NEW r \in Results, Reply(t, r)
      PROVE  /\ told' \subseteq LifeIds /\ ToldKept'
             /\ told' = told \/ ~Ended("life")
      <2>1. /\ UNCHANGED <<excluded, wanted>> /\ task[t] \in {"listen", "settle"}
            /\ r \in IF t = "legacy" THEN LegacyReply ELSE LifeReply
            /\ found' = [found EXCEPT ![t] = IF Eligible(t, r) THEN Merged(t, r) ELSE @]
            /\ told' = IF r.id \in LifeIds /\ r.mac # NoMac THEN told \cup {r.id} ELSE told
            /\ found \in [Tasks -> SUBSET Results]
            BY <1>2 DEF Reply, question, DiscoveryInv, DiscoveryTypeOK
      <2>2. told \subseteq LifeIds /\ ToldKept
            BY DEF DiscoveryInv, DiscoveryTypeOK
      <2>3. CASE t = "legacy"
            <3>1. r.id \notin LifeIds
                  BY <2>1, <2>3, DiscoveryAssumption DEF LegacyReply
            <3>2. told' = told /\ found'["life"] = found["life"]
                  BY <2>1, <2>3, <3>1 DEF Tasks
            <3>. QED
                  BY <2>1, <2>2, <3>2 DEF ToldKept, Refused
      <2>4. CASE t = "life"
            <3>1. r \in LifeReply /\ r.id \in LifeIds /\ ~Ended("life")
                  BY <2>1, <2>4 DEF LifeReply, Ended
            <3>2. r.mac \in {NoMac, MacOf[r.id]} /\ MacOf[r.id] # NoMac
                  BY <3>1, DiscoveryAssumption DEF LifeReply
            <3>3. CASE ~Eligible("life", r)
                  <4>1. found'["life"] = found["life"]
                        BY <2>1, <2>4, <3>3
                  <4>2. ASSUME r.mac # NoMac, ~(r.id \in excluded \/ Refused(MacOf[r.id]))
                        PROVE  /\ Cardinality(found["life"]) >= MaxDevices
                               /\ \A f \in found["life"] : f.id # r.id
                        <5>1. /\ ~(Cardinality(found["life"]) < MaxDevices)
                              /\ \A f \in found["life"] : f.id # r.id
                              BY <3>1, <3>2, <3>3, <4>2 DEF Eligible, Refused, Probing
                        <5>2. Cardinality(found["life"]) \in Nat /\ MaxDevices \in Nat
                              BY <2>2, FS_CardinalityType, DiscoveryAssumption DEF ToldKept
                        <5>. QED
                              BY <5>1, <5>2
                  <4>. QED
                        BY <2>1, <2>2, <3>1, <4>1, <4>2 DEF ToldKept, Refused
            <3>4. CASE Eligible("life", r)
                  <4>1. found'["life"] = Merged("life", r)
                        BY <2>1, <2>4, <3>4
                  <4>2. /\ IsFiniteSet(Merged("life", r))
                        /\ Cardinality(Merged("life", r)) >= Cardinality(found["life"])
                        /\ Cardinality(Merged("life", r)) \in Nat
                        BY <3>4, MergedGrows
                  <4>3. \A f, g \in Merged("life", r) : f.id = g.id => f = g
                        BY <2>2 DEF Merged, ToldKept
                  <4>4. ASSUME NEW l \in told'
                        PROVE  \/ l \in excluded \/ Refused(MacOf[l])
                               \/ \E f \in Merged("life", r) : f.id = l /\ f.mac = MacOf[l]
                               \/ /\ Cardinality(Merged("life", r)) >= MaxDevices
                                  /\ \A f \in Merged("life", r) : f.id # l
                        <5>1. CASE l = r.id /\ r.mac # NoMac
                              BY <3>2, <5>1 DEF Merged
                        <5>2. CASE l = r.id /\ r.mac = NoMac
                              <6>1. l \in told
                                    BY <2>1, <5>2
                              <6>2. CASE \E f \in found["life"] : f.id = l /\ f.mac = MacOf[l]
                                    <7>1. PICK f \in found["life"] : f.id = l /\ f.mac = MacOf[l]
                                          BY <6>2
                                    <7>2. (CHOOSE g \in found["life"] : g.id = r.id) = f
                                          BY <2>2, <5>2, <7>1 DEF ToldKept
                                    <7>3. f \in Merged("life", r)
                                          BY <5>2, <7>1, <7>2 DEF Merged
                                    <7>. QED
                                          BY <7>1, <7>3
                              <6>3. CASE /\ Cardinality(found["life"]) >= MaxDevices
                                         /\ \A f \in found["life"] : f.id # l
                                    <7>1. Cardinality(found["life"]) < MaxDevices
                                          BY <3>4, <5>2, <6>3 DEF Eligible
                                    <7>2. Cardinality(found["life"]) \in Nat /\ MaxDevices \in Nat
                                          BY <2>2, FS_CardinalityType, DiscoveryAssumption DEF ToldKept
                                    <7>. QED
                                          BY <6>3, <7>1, <7>2
                              <6>. QED
                                    BY <2>2, <6>1, <6>2, <6>3 DEF ToldKept
                        <5>3. CASE l # r.id
                              <6>1. l \in told
                                    BY <2>1, <5>3
                              <6>2. \A f : f.id = l => (f \in Merged("life", r) <=> f \in found["life"])
                                    BY <5>3 DEF Merged
                              <6>3. Cardinality(found["life"]) \in Nat /\ MaxDevices \in Nat
                                    BY <2>2, FS_CardinalityType, DiscoveryAssumption DEF ToldKept
                              <6>. QED
                                    BY <2>2, <4>2, <6>1, <6>2, <6>3 DEF ToldKept
                        <5>. QED
                              BY <5>1, <5>2, <5>3
                  <4>5. told' \subseteq LifeIds
                        BY <2>1, <2>2
                  <4>. QED
                        BY <2>1, <3>1, <4>1, <4>2, <4>3, <4>4, <4>5 DEF ToldKept, Refused
            <3>. QED
                  BY <3>3, <3>4
      <2>. QED
            BY <2>3, <2>4 DEF Tasks
<1>. QED
      BY <1>1, <1>2

\* A Life result is one the Life task has returned.
LEMMA AnsweredByLife ==
    ASSUME DiscoveryInv, NEW t \in Tasks, NEW r, r \in answer[t], r.id \in LifeIds
    PROVE  t = "life" /\ r \in LifeReply /\ r \in found["life"]
<1>1. r \in Offerable(t) /\ r \in found[t]
      BY DEF DiscoveryInv, OnlyOfferable
<1>2. r \notin LegacyReply
      BY DiscoveryAssumption DEF LegacyReply
<1>. QED
      BY <1>1, <1>2 DEF Offerable, Tasks

LEMMA TaskKeepsInv ==
    ASSUME DiscoveryInv, NEW t \in Tasks,
           Step(t) \/ \E r \in Results : Reply(t, r)
    PROVE  DiscoveryInv'
<1>1. /\ OwnStep(t) /\ TaskInv(t)' /\ Functions'
      /\ outcome = "none" => verdict'[t] \notin {"cancelled", "leaked"}
      BY TaskStep
<1>2. \A u \in Tasks : TaskInv(u)'
      BY <1>1, InvByTask
         DEF ByTask, OwnStep, TaskInv, question, Offerable, Ended, Probing
<1>3. /\ UNCHANGED <<wanted, directed, excluded, race, collected, results, outcome>>
      /\ ~Ended(t) /\ \A u \in Tasks \ {t} :
          /\ task'[u] = task[u] /\ found'[u] = found[u] /\ answer'[u] = answer[u]
          /\ verdict'[u] = verdict[u] /\ cancelling'[u] = cancelling[u]
      /\ cancelling'[t] => cancelling[t]
      BY <1>1 DEF OwnStep, question, raceVars
<1>4. RaceStages'
      BY <1>1, <1>3 DEF DiscoveryInv, RaceStages, AllEnded, Ended
<1>5. NothingHidden'
      BY <1>3 DEF DiscoveryInv, RaceStages, AllEnded, NothingHidden
<1>6. OfferedOnce'
      <2>1. told' = told \/ ~Ended("life")
            BY ToldStep
      <2>2. ASSUME NEW r \in results, r.id \in told'
            PROVE  r.id \in told
            <3>1. r.id \in LifeIds
                  BY <2>2, ToldStep
            <3>2. Ended("life")
                  BY <3>1, AnsweredByLife DEF DiscoveryInv, RaceStages
            <3>. QED
                  BY <2>1, <2>2, <3>2
      <2>. QED
            BY <1>3, <2>2 DEF DiscoveryInv, OfferedOnce, Refused
<1>7. told' \subseteq LifeIds /\ ToldKept'
      BY ToldStep
<1>. QED
      BY <1>1, <1>2, <1>3, <1>4, <1>5, <1>6, <1>7, InvByTask DEF ByTask

\* Choosing leaves something of everything, and no device twice.
LEMMA ChosenFacts ==
    ASSUME NEW rs \in SUBSET Results
    PROVE  /\ Chosen(rs) \subseteq rs
           /\ rs # {} => Chosen(rs) # {}
           /\ \A r \in Chosen(rs) : r \in LifeReply /\ r.mac # NoMac =>
                  [id |-> r.mac, mac |-> r.mac] \notin Chosen(rs)
<1>1. Chosen(rs) \subseteq rs
      BY DEF Chosen
<1>2. ASSUME rs # {} PROVE Chosen(rs) # {}
      <2>1. CASE rs \cap LegacyReply # {}
            <3>1. PICK r \in rs \cap LegacyReply : TRUE
                  BY <2>1
            <3>2. r \notin LifeReply
                  BY <3>1, DiscoveryAssumption DEF LegacyReply, LifeReply
            <3>. QED
                  BY <3>1, <3>2 DEF Chosen
      <2>2. CASE rs \cap LegacyReply = {}
            BY <1>2, <2>2 DEF Chosen
      <2>. QED
            BY <2>1, <2>2
<1>3. ASSUME NEW r \in Chosen(rs), r \in LifeReply, r.mac # NoMac,
             [id |-> r.mac, mac |-> r.mac] \in Chosen(rs)
      PROVE  FALSE
      <2>1. r.mac \in Macs
            BY <1>3, DiscoveryAssumption DEF LifeReply
      <2>2. [id |-> r.mac, mac |-> r.mac] \in rs \cap LegacyReply
            BY <1>1, <1>3, <2>1 DEF LegacyReply
      <2>3. r.mac \in {q.mac : q \in rs \cap LegacyReply}
            BY <2>2
      <2>. QED
            BY <1>3, <2>3 DEF Chosen
<1>. QED
      BY <1>1, <1>2, <1>3

\* What the race gathers comes from tasks that have ended.
LEMMA GatheredFacts ==
    ASSUME DiscoveryInv
    PROVE  /\ Gathered \subseteq Results
           /\ results \subseteq Gathered
           /\ \A r \in Gathered : \E t \in Tasks : Ended(t) /\ r \in answer[t]
           /\ \A t \in Tasks : Ended(t) => answer[t] \subseteq Gathered
BY DEF Gathered, DiscoveryInv, DiscoveryTypeOK, RaceStages

\* The race returns.
LEMMA FinishKeepsInv ==
    ASSUME DiscoveryInv, race \in {"wait", "settle"},
           FinishRace(Gathered), Gathered = {} => AllEnded,
           collected' \subseteq Tasks, UNCHANGED <<question, task, found, told, answer,
                                                          verdict, held>>
    PROVE  DiscoveryInv'
<1>1. /\ results' = Chosen(Gathered) /\ race' = "stop"
      /\ outcome' \in {"found", "nothing", "ambiguous"}
      /\ outcome' = "nothing" <=> Chosen(Gathered) = {}
      /\ cancelling' = [t \in Tasks |-> cancelling[t] \/ ~Ended(t)]
      <2>1. directed \in BOOLEAN
            BY DEF DiscoveryInv, DiscoveryTypeOK
      <2>2. CASE Chosen(Gathered) = {}
            BY <2>2, FS_EmptySet DEF FinishRace, CancelTasks
      <2>3. CASE Chosen(Gathered) # {} /\ directed /\ Cardinality(Chosen(Gathered)) > 1
            BY <2>3 DEF FinishRace, CancelTasks
      <2>4. CASE Chosen(Gathered) # {} /\ ~(directed /\ Cardinality(Chosen(Gathered)) > 1)
            BY <2>4 DEF FinishRace, CancelTasks
      <2>. QED
            BY <2>1, <2>2, <2>3, <2>4
<1>2. /\ UNCHANGED <<wanted, directed, excluded, task, found, told, answer, verdict, held>>
      BY DEF question
<1>3. /\ Chosen(Gathered) \subseteq Gathered
      /\ Gathered # {} => Chosen(Gathered) # {}
      /\ \A r \in Chosen(Gathered) : r \in LifeReply /\ r.mac # NoMac =>
             [id |-> r.mac, mac |-> r.mac] \notin Chosen(Gathered)
      BY GatheredFacts, ChosenFacts
<1>4. Functions' /\ \A t \in Tasks : TaskInv(t)'
      <2>1. cancelling' \in [Tasks -> BOOLEAN]
            BY <1>1
      <2>. QED
            BY <1>2, <2>1, InvByTask
               DEF ByTask, Functions, TaskInv, Offerable, Ended, Probing
<1>5. outcome = "none" /\ \A t \in Tasks : verdict[t] \notin {"cancelled", "leaked"}
      BY DEF DiscoveryInv, RaceStages
<1>6. RaceStages'
      BY <1>1, <1>2, <1>3, GatheredFacts DEF RaceStages, AllEnded, Ended
<1>7. NothingHidden'
      <2> SUFFICES ASSUME outcome' = "nothing", NEW t \in Tasks
                   PROVE  /\ verdict[t] \in {"ok", "failed"}
                          /\ found[t] = {} \/ (Probing(t) /\ verdict[t] = "failed")
          BY <1>2 DEF NothingHidden, Probing
      <2>1. Gathered = {} /\ Ended(t) /\ answer[t] = {}
            BY <1>1, <1>3, GatheredFacts DEF AllEnded
      <2>2. verdict[t] \in {"ok", "failed"}
            BY <1>5, <2>1 DEF DiscoveryInv, VerdictsFit, DiscoveryTypeOK, Ended
      <2>. QED
            BY <2>1, <2>2 DEF DiscoveryInv, VerdictsFit
<1>8. OfferedOnce'
      <2> SUFFICES ASSUME NEW r \in Chosen(Gathered)
                   PROVE  /\ {r.id, r.mac} \cap excluded = {}
                          /\ wanted # NoMac => r.mac \in {wanted, NoMac}
                          /\ r.id \in told =>
                                /\ r.mac = MacOf[r.id] \/ Refused(MacOf[r.id])
                                /\ [id |-> MacOf[r.id], mac |-> MacOf[r.id]]
                                       \notin Chosen(Gathered)
          BY <1>1, <1>2, <1>3 DEF OfferedOnce, Refused
      <2>0. \A q \in Chosen(Gathered) : \E t \in Tasks : q \in answer[t] /\ q \in Offerable(t)
            BY <1>3, GatheredFacts DEF DiscoveryInv, OnlyOfferable
      <2>1. PICK t \in Tasks : r \in answer[t]
            BY <2>0
      <2>2. r \in Offerable(t)
            BY <2>1 DEF DiscoveryInv, OnlyOfferable
      <2>3. ASSUME r.id \in told
            PROVE  /\ r.mac = MacOf[r.id] \/ Refused(MacOf[r.id])
                   /\ [id |-> MacOf[r.id], mac |-> MacOf[r.id]] \notin Chosen(Gathered)
            <3>1. r.id \in LifeIds /\ MacOf[r.id] # NoMac
                  BY <2>3, DiscoveryAssumption DEF DiscoveryInv, DiscoveryTypeOK
            <3>2. r \in LifeReply /\ r \in found["life"]
                  BY <2>1, <3>1, AnsweredByLife
            <3>3. \/ Refused(MacOf[r.id])
                  \/ \E f \in found["life"] : f.id = r.id /\ f.mac = MacOf[r.id]
                  BY <2>2, <2>3, <3>2 DEF DiscoveryInv, ToldKept, Offerable
            <3>4. CASE Refused(MacOf[r.id])
                  <4>1. \A u : [id |-> MacOf[r.id], mac |-> MacOf[r.id]] \notin Offerable(u)
                        BY <3>1, <3>4 DEF Offerable, Refused
                  <4>. QED
                        BY <2>0, <3>4, <4>1
            <3>5. CASE \E f \in found["life"] : f.id = r.id /\ f.mac = MacOf[r.id]
                  <4>1. r.mac = MacOf[r.id]
                        BY <3>2, <3>5 DEF DiscoveryInv, ToldKept
                  <4>. QED
                        BY <1>3, <3>1, <3>2, <4>1
            <3>. QED
                  BY <3>3, <3>4, <3>5
      <2>. QED
            BY <2>2, <2>3 DEF Offerable
<1>9. results' \subseteq Results
      BY <1>1, <1>3, GatheredFacts
<1>10. told' \subseteq LifeIds /\ ToldKept'
      BY <1>2 DEF DiscoveryInv, DiscoveryTypeOK, ToldKept, Refused
<1>. QED
      BY <1>1, <1>2, <1>4, <1>6, <1>7, <1>8, <1>9, <1>10, InvByTask DEF ByTask

\* The race is over, or goes on without an outcome.
LEMMA RaceKeepsInv ==
    ASSUME DiscoveryInv, RaceStep \/ RaceCancelled
    PROVE  DiscoveryInv'
<1>0. {t \in Tasks : Ended(t)} \subseteq Tasks
      OBVIOUS
<1>1. CASE Collect
      <2>0. race = "wait" /\ UNCHANGED <<question, task, found, told, answer, verdict, held>>
            /\ collected' = {t \in Tasks : Ended(t)}
            BY <1>1 DEF Collect
      <2>1. CASE AllEnded /\ FinishRace(Gathered)
            BY <1>0, <2>0, <2>1, FinishKeepsInv
      <2>2. CASE ~AllEnded /\ results' = Gathered /\ UNCHANGED <<outcome,
                                                                               cancelling>>
                 /\ race' = IF Gathered # {} THEN "settle" ELSE "wait"
            <3>1. UNCHANGED <<wanted, directed, excluded, task, found, told, answer, verdict, held>>
                  BY <2>0 DEF question
            <3>2. Functions' /\ \A t \in Tasks : TaskInv(t)'
                  BY <2>2, <3>1, InvByTask
                     DEF ByTask, Functions, TaskInv, Offerable, Ended, Probing
            <3>3. outcome = "none"
                  BY <2>0 DEF DiscoveryInv, RaceStages
            <3>4. RaceStages'
                  BY <2>2, <3>1, <3>3, GatheredFacts
                     DEF DiscoveryInv, RaceStages, AllEnded, Ended
            <3>5. NothingHidden' /\ OfferedOnce'
                  BY <2>2, <3>3 DEF NothingHidden, OfferedOnce
            <3>6. told' \subseteq LifeIds /\ ToldKept'
                  BY <3>1 DEF DiscoveryInv, DiscoveryTypeOK, ToldKept, Refused
            <3>. QED
                  BY <1>0, <2>0, <2>2, <3>1, <3>2, <3>3, <3>4, <3>5, <3>6, GatheredFacts, InvByTask DEF ByTask
      <2>. QED
            BY <1>1, <2>1, <2>2 DEF Collect
<1>2. CASE SettleEnds
      <2>1. Gathered # {}
            BY <1>2, GatheredFacts DEF SettleEnds, DiscoveryInv, RaceStages
      <2>. QED
            BY <1>0, <1>2, <2>1, FinishKeepsInv DEF SettleEnds
<1>3. CASE Done
      <2>1. /\ UNCHANGED <<wanted, directed, excluded, task, found, told, answer, verdict, held,
                           cancelling,
                           collected, results, outcome>>
            /\ race = "stop" /\ AllEnded /\ race' = "done"
            BY <1>3 DEF Done, question, taskVars
      <2>2. Functions' /\ \A t \in Tasks : TaskInv(t)'
            BY <2>1, InvByTask
               DEF ByTask, Functions, TaskInv, Offerable, Ended, Probing
      <2>3. RaceStages' /\ NothingHidden' /\ OfferedOnce' /\ ToldKept'
            BY <2>1
               DEF DiscoveryInv, RaceStages, NothingHidden, OfferedOnce, ToldKept,
                   Refused, AllEnded, Ended, Probing
      <2>. QED
            BY <2>1, <2>2, <2>3, InvByTask DEF ByTask
<1>4. CASE RaceCancelled
      <2>1. /\ UNCHANGED <<wanted, directed, excluded, task, found, told, answer, verdict, held,
                           collected, results>>
            /\ race' = "stop" /\ outcome' = "cancelled"
            /\ cancelling' = [t \in Tasks |-> cancelling[t] \/ ~Ended(t)]
            BY <1>4 DEF RaceCancelled, CancelTasks, question
      <2>2. cancelling' \in [Tasks -> BOOLEAN]
            BY <2>1
      <2>3. Functions' /\ \A t \in Tasks : TaskInv(t)'
            BY <2>1, <2>2, InvByTask
               DEF ByTask, Functions, TaskInv, Offerable, Ended, Probing
      <2>4. RaceStages' /\ NothingHidden' /\ OfferedOnce' /\ ToldKept'
            BY <2>1
               DEF DiscoveryInv, RaceStages, NothingHidden, OfferedOnce, ToldKept,
                   Refused, AllEnded, Ended
      <2>. QED
            BY <2>1, <2>3, <2>4, InvByTask DEF ByTask
<1>. QED
      BY <1>1, <1>2, <1>3, <1>4 DEF RaceStep

LEMMA DiscoverySafe == DiscoverySpec => []DiscoveryInv
<1>1. DiscoveryInit => DiscoveryInv
      BY DiscoveryStart
<1>2. DiscoveryInv /\ [DiscoveryNext]_discoveryVars => DiscoveryInv'
      <2> SUFFICES ASSUME DiscoveryInv, [DiscoveryNext]_discoveryVars PROVE DiscoveryInv'
          OBVIOUS
      <2>1. CASE \E t \in Tasks : Step(t) \/ \E r \in Results : Reply(t, r)
            BY <2>1, TaskKeepsInv
      <2>2. CASE RaceStep \/ RaceCancelled
            BY <2>2, RaceKeepsInv
      <2>3. CASE UNCHANGED discoveryVars
            <3>1. UNCHANGED <<wanted, directed, excluded, task, found, told, answer, verdict, held,
                              cancelling,
                              race, collected, results, outcome>>
                  BY <2>3 DEF discoveryVars, question, taskVars, raceVars
            <3>2. Functions' /\ \A t \in Tasks : TaskInv(t)'
                  BY <3>1, InvByTask
                     DEF ByTask, Functions, TaskInv, Offerable, Ended, Probing
            <3>3. RaceStages' /\ NothingHidden' /\ OfferedOnce' /\ ToldKept'
                  BY <3>1
                     DEF DiscoveryInv, RaceStages, NothingHidden, ToldKept,
                         Refused, OfferedOnce, AllEnded, Ended, Probing
            <3>. QED
                  BY <3>1, <3>2, <3>3, InvByTask DEF ByTask
      <2>. QED
            BY <2>1, <2>2, <2>3 DEF DiscoveryNext
<1>. QED
      BY <1>1, <1>2, PTL DEF DiscoverySpec

\* Every way out of a task closes what it holds, its cancellation included, but
\* for a release that is itself cancelled; for any devices, any question and any
\* limit on results (local_discovery.py, _race_discovery).
THEOREM NothingIsLeftOpen == DiscoverySpec => []NothingLeftOpen
<1>1. DiscoveryInv => NothingLeftOpen
      BY DEF DiscoveryInv, RaceStages, HeldWhileRunning, NothingLeftOpen,
         AllEnded, Ended
<1>. QED
      BY <1>1, DiscoverySafe, PTL

\* A search that finds nothing has heard both mechanisms to their end, though the
\* race may settle on the first that answers (local_discovery.py,
\* _race_discovery).
THEOREM NothingIsHidden == DiscoverySpec => []NothingHidden
<1>1. DiscoveryInv => NothingHidden
      BY DEF DiscoveryInv
<1>. QED
      BY <1>1, DiscoverySafe, PTL

\* Whatever order its replies with and without MAC come in, a Life device that has
\* said its MAC is offered with it, or is one whose MAC is refused, and is not
\* offered beside the legacy device of that MAC; for any devices, any question and
\* any limit on results (local_discovery.py, datagram_received and _race_discovery).
THEOREM OffersAreNew == DiscoverySpec => []OfferedOnce
<1>1. DiscoveryInv => OfferedOnce
      BY DEF DiscoveryInv
<1>. QED
      BY <1>1, DiscoverySafe, PTL
=============================================================================
