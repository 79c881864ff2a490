--------------------------- MODULE CommandService ---------------------------
(***************************************************************************)
(* What LocalDeviceClient.command() promises, without worker, datagrams or *)
(* timers: accepted callers are served in order, one at a time; only       *)
(* callers of percentage writes that follow each other directly share one  *)
(* execution; the callers of an execution all get the same answer; after   *)
(* the service is sealed nobody is accepted and everybody left is failed.  *)
(***************************************************************************)
EXTENDS Naturals, Sequences

CONSTANT Callers

VARIABLES line,      \* accepted callers not yet served, in order
          serving,   \* the callers whose command is being executed
          answer,    \* per caller: "out", "open", "ok", "failed", "cancelled"
          sharing,   \* the callers whose request is a percentage write
          sealed     \* close() has begun

vars == <<line, serving, answer, sharing, sealed>>

In(seq) == {seq[i] : i \in 1..Len(seq)}

TypeOK ==
    /\ line \in Seq(Callers)
    /\ serving \in Seq(Callers)
    /\ answer \in [Callers -> {"out", "open", "ok", "failed", "cancelled"}]
    /\ sharing \in SUBSET Callers
    /\ sealed \in BOOLEAN

Init ==
    /\ line = <<>> /\ serving = <<>>
    /\ answer = [c \in Callers |-> "out"]
    /\ sharing = {}
    /\ sealed = FALSE

\* The open ones among cs get the answer a, the others keep theirs.
AnswerAll(cs, a) ==
    answer' = [c \in Callers |->
                  IF c \in cs /\ answer[c] = "open" THEN a ELSE answer[c]]

Ask(c) ==
    /\ answer[c] = "out"
    /\ sharing' \in {sharing \cup {c}, sharing \ {c}}
    /\ UNCHANGED <<line, serving, answer, sealed>>

Accept(c) ==
    /\ ~sealed
    /\ answer[c] = "out"
    /\ line' = Append(line, c)
    /\ answer' = [answer EXCEPT ![c] = "open"]
    /\ UNCHANGED <<serving, sharing, sealed>>

Refuse(c) ==
    /\ answer[c] = "out"
    /\ \E a \in {"failed", "cancelled"} : answer' = [answer EXCEPT ![c] = a]
    /\ UNCHANGED <<line, serving, sharing, sealed>>

\* The first n callers are served together.
Front(n) ==
    /\ serving = <<>>
    /\ n = 1 \/ \A i \in 1..n : line[i] \in sharing
    /\ line' = SubSeq(line, n + 1, Len(line))

Serve(n) ==
    /\ ~sealed
    /\ Front(n)
    /\ serving' = SubSeq(line, 1, n)
    /\ UNCHANGED <<answer, sharing, sealed>>

\* Their command cannot be executed at all.
Drop(n) ==
    /\ Front(n)
    /\ AnswerAll(In(SubSeq(line, 1, n)), "failed")
    /\ UNCHANGED <<serving, sharing, sealed>>

Complete(a) ==
    /\ serving # <<>>
    /\ AnswerAll(In(serving), a)
    /\ serving' = <<>>
    /\ UNCHANGED <<line, sharing, sealed>>

Cancel(c) ==
    /\ answer[c] = "open"
    /\ answer' = [answer EXCEPT ![c] = "cancelled"]
    /\ UNCHANGED <<line, serving, sharing, sealed>>

Seal ==
    /\ ~sealed
    /\ sealed' = TRUE
    /\ UNCHANGED <<line, serving, answer, sharing>>

\* Everybody left fails in one step.
Dismiss ==
    /\ sealed
    /\ AnswerAll(Callers, "failed")
    /\ line' = <<>>
    /\ UNCHANGED <<serving, sharing, sealed>>

Next ==
    \/ \E c \in Callers : Ask(c) \/ Accept(c) \/ Refuse(c) \/ Cancel(c)
    \/ \E n \in 1..Len(line) : Serve(n) \/ Drop(n)
    \/ \E a \in {"ok", "failed"} : Complete(a)
    \/ Seal
    \/ Dismiss

Spec == Init /\ [][Next]_vars
=============================================================================
