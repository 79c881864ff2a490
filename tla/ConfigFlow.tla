----------------------------- MODULE ConfigFlow -----------------------------
(***************************************************************************)
(* The flows that add and change entries (config_flow.py): several may be  *)
(* open at once, each started by the user, by DHCP or for an entry, and    *)
(* each waits at its forms while the others go on.  Between two awaits of  *)
(* a handler a step is one piece.                                          *)
(*                                                                         *)
(* A device may speak the legacy protocol, 352Life or both.  It has one    *)
(* identity in each, its MAC in the first, and the Life identity may come  *)
(* with the MAC or without.  Home Assistant's own part is in InProgress,   *)
(* Over, Outlived, Updated, Create, Remove and Close.                      *)
(***************************************************************************)
CONSTANTS Flows,
          Legacy,     \* the devices that speak the legacy protocol
          Life,       \* ... and those that speak 352Life
          Scheduled,  \* legacy devices with schedules to clean up
          None

LegacyResult == {[kind |-> "legacy", device |-> d, mac |-> d] : d \in Legacy}
LifeResult == {[kind |-> "life", device |-> d, mac |-> d] : d \in Life}
              \cup {[kind |-> "life", device |-> d, mac |-> None] : d \in Life}
Result == LegacyResult \cup LifeResult

\* result_id
Id(r) == <<r.kind, r.device>>
Ids == {Id(r) : r \in Result}

ASSUME ConfigFlowAssumption ==
    /\ Scheduled \subseteq Legacy
    /\ None \notin Legacy \cup Life /\ None \notin Result /\ None \notin Ids

VARIABLES
    entries,  \* entry of an identity: the device of its data and its MAC
    stage,    \* where a flow stands
    unique,   \* the unique id of its context
    pending,  \* _pending_discovery
    offered,  \* _discovered_devices
    target,   \* the entry that is reconfigured
    alone,    \* no other entry had the MAC when the flow accepted its identity
    orphaned  \* handlers run on whose flows are over

flowVars == <<stage, unique, pending, offered, target, alone>>
vars == <<entries, orphaned, flowVars>>

Configured == DOMAIN entries
Entry == [data : Ids, mac : Legacy \cup Life \cup {None}]

Forms == {"menu", "none", "select", "manual", "model", "local", "cleanup", "reconfigure"}
Awaits == {"dhcp", "scan", "validate", "revalidate", "clearing"}

TypeOK ==
    /\ entries \in [Configured -> Entry] /\ Configured \subseteq Ids
    /\ stage \in [Flows -> {"idle"} \cup Forms \cup Awaits]
    /\ unique \in [Flows -> Ids \cup {None}]
    /\ pending \in [Flows -> Result \cup {None}]
    /\ offered \in [Flows -> SUBSET Result]
    /\ target \in [Flows -> Ids \cup {None}]
    /\ alone \in [Flows -> BOOLEAN] /\ orphaned \in BOOLEAN

Init ==
    /\ entries = [i \in {} |-> None]
    /\ stage = [f \in Flows |-> "idle"]
    /\ unique = [f \in Flows |-> None]
    /\ pending = [f \in Flows |-> None]
    /\ offered = [f \in Flows |-> {}]
    /\ target = [f \in Flows |-> None]
    /\ alone = [f \in Flows |-> FALSE] /\ orphaned = FALSE

MacsConfigured == {entries[i].mac : i \in Configured} \ {None}

\* _mac_already_configured: an entry of another identity has the MAC.
MacAlreadyConfigured(r) ==
    /\ r.mac # None
    /\ \E i \in Configured \ {Id(r)} :
          i = <<"legacy", r.mac>> \/ entries[i].mac = r.mac

-----------------------------------------------------------------------------
(* Home Assistant                                                          *)

\* The flows in gone are over, whatever they were waiting for.
Over(gone) ==
    /\ stage' = [f \in Flows |-> IF f \in gone THEN "idle" ELSE stage[f]]
    /\ unique' = [f \in Flows |-> IF f \in gone THEN None ELSE unique[f]]
    /\ pending' = [f \in Flows |-> IF f \in gone THEN None ELSE pending[f]]
    /\ offered' = [f \in Flows |-> IF f \in gone THEN {} ELSE offered[f]]
    /\ target' = [f \in Flows |-> IF f \in gone THEN None ELSE target[f]]
    /\ alone' = [f \in Flows |-> alone[f] /\ f \notin gone]

Abort(f) == Over({f}) /\ UNCHANGED <<entries, orphaned>>

\* Closing a flow does not cancel its handler.  Those of two steps can still change
\* an entry; what the others leave goes back to a flow that is not there any more,
\* or writes to a legacy entry what it has.
Outlived(gone) ==
    orphaned' = (orphaned \/ \E f \in gone : stage[f] \in {"dhcp", "validate"})

\* async_set_unique_id aborts if another open flow has the id.
InProgress(f, id) == \E g \in Flows \ {f} : unique[g] = id

Data(r) == [data |-> Id(r), mac |-> r.mac]

\* Updating the data of an entry keeps what is not given.
Updated(e, r) == [data |-> Id(r), mac |-> IF r.mac = None THEN e.mac ELSE r.mac]

\* A new entry takes the flow's unique id, the place of an entry that has it,
\* and closes the other flows that have it.
Create(f, r) ==
    /\ entries' = [i \in Configured \cup {Id(r)} |->
                      IF i = Id(r) THEN Data(r) ELSE entries[i]]
    /\ Over({f} \cup {g \in Flows : unique[g] = Id(r)})
    /\ Outlived({g \in Flows : unique[g] = Id(r)} \ {f})

\* The user removes an entry; the flows that reconfigure it are closed.
Remove(id) ==
    /\ id \in Configured
    /\ entries' = [i \in Configured \ {id} |-> entries[i]]
    /\ Over({f \in Flows : target[f] = id})
    /\ UNCHANGED orphaned

\* The user closes a flow, wherever it stands.
Close(f) ==
    /\ stage[f] # "idle"
    /\ Over({f}) /\ Outlived({f})
    /\ UNCHANGED entries

-----------------------------------------------------------------------------
(* Accepting an identity                                                   *)

Goto(f, where) == stage' = [stage EXCEPT ![f] = where]

Show(f, where) ==
    Goto(f, where) /\ UNCHANGED <<entries, orphaned, unique, pending, offered, target, alone>>

\* The identity is confirmed: the flow goes on at where, and knows it.
Accept(f, r, where) ==
    /\ Goto(f, where)
    /\ unique' = [unique EXCEPT ![f] = Id(r)]
    /\ pending' = [pending EXCEPT ![f] = r]
    /\ alone' = [alone EXCEPT ![f] = ~MacAlreadyConfigured(r)]
    /\ UNCHANGED <<entries, orphaned, offered, target>>

\* _abort_if_unique_id_configured updates the entry that has the identity.
UpdateExisting(f, r) ==
    /\ Id(r) \in Configured
    /\ entries' = [entries EXCEPT ![Id(r)] = Updated(@, r)]
    /\ Over({f}) /\ UNCHANGED orphaned

\* _finish_pending_entry
Finish(f, r) ==
    \/ target[f] = None /\ Create(f, r)
    \/ /\ target[f] # None
       /\ entries' = [entries EXCEPT ![target[f]] = Updated(@, r)]
       /\ Over({f}) /\ UNCHANGED orphaned

\* _async_continue_after_identity: the form that follows, or the entry.
Following(r) ==
    CASE r.kind = "life" -> "local"
      [] r.device \in Scheduled -> "cleanup"
      [] OTHER -> "entry"

GoOn(f, r, where) ==
    \/ where # "entry" /\ Accept(f, r, where)
    \/ where = "entry" /\ Finish(f, r)

\* Mutant: an identity that another flow is at work on is accepted.
IdentifyAnyway(f, r, where) ==
    \/ MacAlreadyConfigured(r) /\ Abort(f)
    \/ /\ ~MacAlreadyConfigured(r)
       /\ \/ UpdateExisting(f, r)
          \/ Id(r) \notin Configured /\ GoOn(f, r, where)

\* Mutant: the MAC is not compared with those of the entries.
IdentifyAnyMac(f, r, where) ==
    \/ InProgress(f, Id(r)) /\ Abort(f)
    \/ /\ ~InProgress(f, Id(r))
       /\ \/ UpdateExisting(f, r)
          \/ Id(r) \notin Configured /\ GoOn(f, r, where)

\* Mutant: an identity that has an entry is accepted.
IdentifyAgain(f, r, where) ==
    \/ (MacAlreadyConfigured(r) \/ InProgress(f, Id(r))) /\ Abort(f)
    \/ ~MacAlreadyConfigured(r) /\ ~InProgress(f, Id(r)) /\ GoOn(f, r, where)

\* The checks common to the select, manual and DHCP steps, before they go on.
Identify(f, r, where) ==
    \/ (MacAlreadyConfigured(r) \/ InProgress(f, Id(r))) /\ Abort(f)
    \/ /\ ~MacAlreadyConfigured(r) /\ ~InProgress(f, Id(r))
       /\ \/ UpdateExisting(f, r)
          \/ Id(r) \notin Configured /\ GoOn(f, r, where)

-----------------------------------------------------------------------------
(* The steps                                                               *)

Start(f) ==
    /\ stage[f] = "idle"
    /\ \/ Show(f, "menu")
       \/ Show(f, "dhcp")
       \/ \E id \in Configured :
            /\ target' = [target EXCEPT ![f] = id]
            /\ Goto(f, "reconfigure")
            /\ UNCHANGED <<entries, orphaned, unique, pending, offered, alone>>

DhcpDone(f) ==
    /\ stage[f] = "dhcp"
    /\ \/ \E r \in Result : Identify(f, r, "menu")
       \/ Abort(f)  \* nobody replied

AutoStep(f) ==
    /\ stage[f] \in {"menu", "none"}
    /\ IF pending[f] = None THEN Show(f, "scan")
       ELSE Show(f, IF pending[f].kind = "life" THEN "local" ELSE "model")

\* The search ends.  Its results, one per identity and none with the MAC of a
\* legacy one (OfferedOnce of Discovery), are filtered once more.
ScanDone(f) ==
    /\ stage[f] = "scan"
    /\ \E rs \in SUBSET {r \in Result : Id(r) \notin Configured
                                        /\ r.mac \notin MacsConfigured
                                        /\ r.mac \notin {i[2] : i \in
                                              {i \in Configured : i[1] = "legacy"}}} :
        /\ \A r, s \in rs : r # s => Id(r) # Id(s) /\ (r.mac # s.mac \/ r.mac = None)
        /\ offered' = [offered EXCEPT ![f] = rs]
        /\ Goto(f, IF rs = {} THEN "none" ELSE "select")
    /\ UNCHANGED <<entries, orphaned, unique, pending, target, alone>>

Select(f) ==
    /\ stage[f] = "select"
    /\ \E r \in offered[f] :
          Identify(f, r, IF r.kind = "life" THEN "local" ELSE "model")

Manual(f) == stage[f] \in {"menu", "none"} /\ Show(f, "manual")

Submit(f) ==
    \/ stage[f] = "manual" /\ Show(f, "validate")
    \/ stage[f] = "reconfigure" /\ Show(f, "revalidate")

\* Nobody replied, several did, or the model does not fit: back to the form.
Invalid(f) ==
    \/ stage[f] = "validate" /\ Show(f, "manual")
    \/ stage[f] = "revalidate" /\ Show(f, "reconfigure")

\* The identity has replied.  With the model left open a legacy device goes to
\* its confirmation.
AfterValidation(r) == {Following(r)} \cup IF r.kind = "legacy" THEN {"model"} ELSE {}

Validated(f) ==
    /\ stage[f] = "validate"
    /\ \E r \in Result : \E where \in AfterValidation(r) : Identify(f, r, where)

\* Mutant: the entry may be reconfigured to any device that replies.
RevalidatedAnyone(f) ==
    /\ stage[f] = "revalidate"
    /\ \E r \in Result :
        \/ InProgress(f, Id(r)) /\ Abort(f)
        \/ /\ ~InProgress(f, Id(r))
           /\ \E where \in AfterValidation(r) : GoOn(f, r, where)

\* Only the identity of the entry may take its place.
Revalidated(f) ==
    /\ stage[f] = "revalidate"
    /\ \E r \in Result :
        \/ (InProgress(f, Id(r)) \/ Id(r) # target[f]) /\ Abort(f)
        \/ /\ ~InProgress(f, Id(r)) /\ Id(r) = target[f]
           /\ \E where \in AfterValidation(r) : GoOn(f, r, where)

\* A model that fits goes on; another shows the form again.
ConfirmModel(f) ==
    /\ stage[f] = "model"
    /\ \/ Following(pending[f]) # "entry" /\ Show(f, Following(pending[f]))
       \/ Following(pending[f]) = "entry" /\ Finish(f, pending[f])

ConfirmLocal(f) == stage[f] = "local" /\ Finish(f, pending[f])

\* The schedules are left alone, or cleared first.
Cleanup(f) ==
    /\ stage[f] = "cleanup"
    /\ Finish(f, pending[f]) \/ Show(f, "clearing")

Cleared(f) ==
    /\ stage[f] = "clearing"
    /\ Finish(f, pending[f]) \/ Show(f, "cleanup")

\* The handler of a closed flow gets its reply.  A flow that is not there counts
\* for nobody else, and what it accepts or shows is dropped; but an identity that
\* has an entry updates it.
OrphanDone ==
    /\ orphaned
    /\ \/ \E r \in Result :
            /\ ~MacAlreadyConfigured(r) /\ Id(r) \in Configured
            /\ \A f \in Flows : unique[f] # Id(r)
            /\ entries' = [entries EXCEPT ![Id(r)] = Updated(@, r)]
       \/ UNCHANGED entries
    /\ orphaned' \in BOOLEAN  \* there may be others
    /\ UNCHANGED flowVars

-----------------------------------------------------------------------------
(* The system                                                              *)

Next ==
    \/ \E f \in Flows :
        \/ Start(f) \/ Close(f)
        \/ DhcpDone(f) \/ AutoStep(f) \/ ScanDone(f) \/ Select(f)
        \/ Manual(f) \/ Submit(f) \/ Invalid(f) \/ Validated(f) \/ Revalidated(f)
        \/ ConfirmModel(f) \/ ConfirmLocal(f) \/ Cleanup(f) \/ Cleared(f)
    \/ \E id \in Ids : Remove(id)
    \/ OrphanDone

Spec == Init /\ [][Next]_vars

-----------------------------------------------------------------------------
(* Properties                                                              *)

\* The data of an entry are those of the device it stands for, whichever flows
\* have changed it: no reconfiguration, update or stale choice swaps devices.
EntryKeepsDevice ==
    \A i \in Configured : entries[i].data = i /\ entries[i].mac \in {i[2], None}

\* Two open flows never wait for the confirmation of, or clear the schedules of, the
\* same identity, though each was started without knowing of the other.  (The
\* handler of a flow that was closed may still be clearing them.)
OneFlowPerIdentity ==
    \A f, g \in Flows :
        f # g /\ pending[f] # None /\ pending[g] # None => Id(pending[f]) # Id(pending[g])

\* While an entry is there its MAC, once known, stays: neither a later reply
\* without the MAC nor a flow whose form was open when the entry was made
\* puts less in its place.
EntryKeepsMac ==
    [][\A i \in Configured \cap Configured' :
          entries[i].mac # None => entries'[i].mac = entries[i].mac]_vars

\* "Do not create a second protocol entry for an already configured MAC"
\* (config_flow.py:159) holds but for a race and a reconfiguration.  Two entries come
\* to share a MAC only as a flow ends which gives it to one of them, and which either
\* makes that entry and had accepted its identity while no other entry had the MAC,
\* or reconfigures a Life entry that had none: that step compares the MAC with no
\* other entry (config_flow.py:420-446).  No search, reply or update does it by itself.
MacSharedTwoWays ==
    [][\A i, j \in Configured' :
          /\ i # j /\ entries'[i].mac # None /\ entries'[i].mac = entries'[j].mac
          /\ ~ (i \in Configured /\ j \in Configured /\ entries[i].mac = entries[j].mac)
          => \E f \in Flows :
                /\ stage'[f] = "idle" /\ pending[f] # None
                /\ Id(pending[f]) \in {i, j} /\ pending[f].mac = entries'[i].mac
                /\ \/ target[f] = None /\ alone[f]
                   \/ /\ target[f] = Id(pending[f]) /\ target[f][1] = "life"
                      /\ entries[target[f]].mac = None]_vars

-----------------------------------------------------------------------------
(* Inductive invariant, in parts                                           *)

\* A flow that is not open remembers nothing.
IdleForgets ==
    \A f \in Flows : stage[f] = "idle" =>
        unique[f] = None /\ pending[f] = None /\ target[f] = None

\* Who confirms an identity has it as its unique id, and only one flow has.
UniqueIds ==
    /\ \A f \in Flows : pending[f] # None => unique[f] = Id(pending[f])
    /\ \A f, g \in Flows : f # g /\ unique[f] # None => unique[f] # unique[g]

\* The last forms have an identity to confirm.
FormsKnow ==
    \A f \in Flows :
        stage[f] \in {"model", "local", "cleanup", "clearing"} => pending[f] # None

\* The forms of a new entry have no entry to change.
NewFlows ==
    \A f \in Flows :
        stage[f] \in {"menu", "none", "dhcp", "scan", "select", "manual", "validate"}
            => target[f] = None

\* A reconfiguration confirms the identity of its entry; any other flow
\* confirms one that has no entry.
Places ==
    \A f \in Flows :
        /\ target[f] # None => target[f] \in Configured
        /\ pending[f] # None =>
               IF target[f] = None THEN Id(pending[f]) \notin Configured
                                   ELSE Id(pending[f]) = target[f]

\* An identity without an entry is accepted only while no other entry has its MAC.
AcceptedAlone ==
    \A f \in Flows : pending[f] # None /\ target[f] = None => alone[f]

\* An entry of the legacy protocol has its MAC from the start.
LegacyHasMac == \A i \in Configured : i[1] = "legacy" => entries[i].mac # None

IndInv ==
    /\ TypeOK /\ EntryKeepsDevice
    /\ IdleForgets /\ UniqueIds /\ FormsKnow /\ NewFlows /\ Places /\ AcceptedAlone
=============================================================================
