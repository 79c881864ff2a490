-------------------------- MODULE ClientRefinement --------------------------
(* DeviceClient implements CommandService: the queue entries, flattened, are *)
(* the line; the popped entry is being served while its exchange lasts.     *)
EXTENDS DeviceClient, SequencesExt

WaiterLists == [i \in 1..Len(queue) |-> queue[i].waiters]
Line == FlattenSeq(WaiterLists)
Serving == IF worker = "exchange" THEN current ELSE <<>>

\* What an outcome is to the service.
ResultOf(o) ==
    CASE o.kind = "none" -> "out"
      [] o.kind \in {"ok", "cancelled"} -> o.kind
      [] OTHER -> "failed"

\* Refreshes do not pass through the queue: their callers stay out.
AnswerOf(c) ==
    IF request[c] \notin Commands THEN "out"
    ELSE IF pc[c] = "waiting" THEN "open" ELSE ResultOf(outcome[c])

Service == INSTANCE CommandService WITH
    line <- Line,
    serving <- Serving,
    answer <- [c \in Callers |-> AnswerOf(c)],
    sharing <- {c \in Callers : request[c] \in Coalescible},
    sealed <- closed

\* Every behaviour of the client, seen through the mapping, is one of the
\* service: order, sharing and the fate of every caller at close.
ImplementsService == Service!Spec

-----------------------------------------------------------------------------
(* What the mapping of a step needs                                        *)

\* An entry has a caller, and several only for a percentage write.
EntriesShared ==
    \A i \in 1..Len(queue) :
        /\ queue[i].waiters # <<>>
        /\ Len(queue[i].waiters) > 1 => queue[i].command \in Coalescible

\* During an exchange the worker's callers are those close() will fail.
ActiveServed == worker = "exchange" => current # <<>> /\ active = current

\* Only a call that is over has an outcome.
Undecided == \A c \in Callers : pc[c] # "done" => outcome[c].kind = "none"

ServiceInv == SuccessInv /\ EntriesShared /\ ActiveServed /\ Undecided
=============================================================================
