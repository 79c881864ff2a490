--------------------------- MODULE LifePowerProofs ---------------------------
(***************************************************************************)
(* Theorems about LifePower, for any callers, addresses and bounds: what a *)
(* call and the shown power say of a device that answers late or never,    *)
(* and what is left when the runtime is closed.                            *)
(***************************************************************************)
EXTENDS LifePower, SequenceTheorems, TLAPS

Powers == BOOLEAN \cup {Unknown}
Results == {"none", "ok", "failed", "unknown", "cancelled", "refused"}

-----------------------------------------------------------------------------
(* Lines: sequences without repetition                                     *)

LEMMA AppendLine ==
    ASSUME NEW S, NEW s \in Seq(S), IsInjective(s), NEW a \in S, a \notin Range(s)
    PROVE  /\ Append(s, a) \in Seq(S) /\ IsInjective(Append(s, a))
           /\ Range(Append(s, a)) = Range(s) \cup {a}
           /\ Append(s, a) # <<>>
           /\ Head(Append(s, a)) = IF s = <<>> THEN a ELSE Head(s)
<1>1. /\ Append(s, a) \in Seq(S) /\ Len(Append(s, a)) = Len(s) + 1
      /\ \A i \in 1 .. Len(s) : Append(s, a)[i] = s[i]
      /\ Append(s, a)[Len(s) + 1] = a /\ Append(s, a) # <<>>
      BY AppendProperties
<1>2. DOMAIN s = 1 .. Len(s) /\ DOMAIN Append(s, a) = 1 .. Len(s) + 1 /\ Len(s) \in Nat
      BY <1>1
<1>3. Range(Append(s, a)) = Range(s) \cup {a}
      BY <1>1, <1>2 DEF Range
<1>4. IsInjective(Append(s, a))
      BY <1>1, <1>2 DEF IsInjective, Range
<1>5. Head(Append(s, a)) = IF s = <<>> THEN a ELSE Head(s)
      BY <1>1, <1>2
<1>. QED
      BY <1>1, <1>3, <1>4, <1>5

LEMMA TailLine ==
    ASSUME NEW S, NEW s \in Seq(S), IsInjective(s), s # <<>>
    PROVE  /\ Head(s) \in S /\ Head(s) \in Range(s)
           /\ Tail(s) \in Seq(S) /\ IsInjective(Tail(s))
           /\ Range(Tail(s)) = Range(s) \ {Head(s)}
<1>1. /\ Head(s) \in S /\ Tail(s) \in Seq(S) /\ Len(Tail(s)) = Len(s) - 1
      /\ \A i \in 1 .. Len(Tail(s)) : Tail(s)[i] = s[i + 1]
      BY HeadTailProperties
<1>2. /\ DOMAIN s = 1 .. Len(s) /\ Len(s) \in Nat /\ Len(s) > 0
      /\ DOMAIN Tail(s) = 1 .. Len(s) - 1
      BY <1>1
<1>3. Head(s) = s[1]
      BY <1>2
<1>4. Range(Tail(s)) = Range(s) \ {Head(s)}
      <2>1. ASSUME NEW b \in Range(Tail(s))
            PROVE  b \in Range(s) /\ b # Head(s)
            BY <1>1, <1>2, <1>3 DEF Range, IsInjective
      <2>2. ASSUME NEW b \in Range(s), b # Head(s)
            PROVE  b \in Range(Tail(s))
            <3>1. PICK i \in 1 .. Len(s) : s[i] = b
                  BY <1>2 DEF Range
            <3>2. i - 1 \in 1 .. Len(s) - 1 /\ (i - 1) + 1 = i
                  BY <1>2, <1>3, <2>2, <3>1
            <3>3. Tail(s)[i - 1] = b
                  BY <1>1, <3>1, <3>2
            <3>. QED
                  BY <1>2, <3>2, <3>3 DEF Range
      <2>. QED
            BY <2>1, <2>2
<1>5. IsInjective(Tail(s))
      BY <1>1, <1>2 DEF IsInjective
<1>6. Head(s) \in Range(s)
      <2>1. 1 \in DOMAIN s
            BY <1>2
      <2>. QED
            BY <1>3, <2>1 DEF Range
<1>. QED
      BY <1>1, <1>4, <1>5, <1>6

LEMMA RemoveLine ==
    ASSUME NEW S, NEW s \in Seq(S), IsInjective(s), NEW a \in S
    PROVE  /\ RemoveFirst(s, a) \in Seq(S) /\ IsInjective(RemoveFirst(s, a))
           /\ Range(RemoveFirst(s, a)) = Range(s) \ {a}
           /\ s # <<>> /\ Head(s) # a =>
                RemoveFirst(s, a) # <<>> /\ Head(RemoveFirst(s, a)) = Head(s)
<1>0. DOMAIN s = 1 .. Len(s) /\ Len(s) \in Nat /\ (s # <<>> => Len(s) > 0)
      OBVIOUS
<1>1. CASE a \notin Range(s)
      <2>1. RemoveFirst(s, a) = s
            BY <1>0, <1>1 DEF RemoveFirst, Range
      <2>. QED
            BY <1>1, <2>1
<1>2. CASE a \in Range(s)
      <2> DEFINE I == {i \in 1 .. Len(s) : s[i] = a}
                 k == Min(I)
                 r == RemoveFirst(s, a)
      <2>1. PICK n \in 1 .. Len(s) : s[n] = a
            BY <1>0, <1>2 DEF Range
      <2>2. I = {n}
            BY <1>0, <2>1 DEF IsInjective
      <2>3. k = n
            BY <2>2 DEF Min
      <2>4. r = RemoveAt(s, k)
            BY <2>2 DEF RemoveFirst, SelectInSeq
      <2> HIDE DEF I, k
      <2> DEFINE before == SubSeq(s, 1, n - 1)
                 after == SubSeq(s, n + 1, Len(s))
      <2>5. r = before \o after
            BY <2>3, <2>4 DEF RemoveAt
      <2>6. /\ before \in Seq(S) /\ Len(before) = n - 1
            /\ \A i \in 1 .. n - 1 : before[i] = s[i]
            <3>1. 1 \in Int /\ n - 1 \in Int /\ \A i \in 1 .. n - 1 : s[i] \in S
                  BY <1>0
            <3>. QED
                  BY <3>1, SubSeqProperties
      <2>7. /\ after \in Seq(S) /\ Len(after) = Len(s) - n
            /\ \A i \in 1 .. Len(s) - n : after[i] = s[n + i]
            <3>1. n + 1 \in Int /\ Len(s) \in Int /\ \A i \in n + 1 .. Len(s) : s[i] \in S
                  BY <1>0
            <3>2. /\ after \in Seq(S)
                  /\ Len(after) = IF n + 1 <= Len(s) THEN Len(s) - (n + 1) + 1 ELSE 0
                  /\ \A i \in 1 .. Len(s) - (n + 1) + 1 : after[i] = s[n + 1 + i - 1]
                  BY <3>1, SubSeqProperties
            <3> HIDE DEF after
            <3>3. Len(after) = Len(s) - n
                  <4>1. CASE n + 1 <= Len(s)
                        <5>1. Len(after) = Len(s) - (n + 1) + 1
                              BY <3>2, <4>1
                        <5>2. Len(s) - (n + 1) + 1 = Len(s) - n
                              BY <1>0
                        <5>. QED
                              BY <5>1, <5>2
                  <4>2. CASE ~(n + 1 <= Len(s))
                        <5>1. Len(after) = 0
                              BY <3>2, <4>2
                        <5>2. n \in Nat /\ Len(s) \in Nat /\ n <= Len(s)
                              OBVIOUS
                        <5>3. n = Len(s)
                              BY <4>2, <5>2
                        <5>. QED
                              BY <5>1, <5>2, <5>3
                  <4>. QED
                        BY <4>1, <4>2
            <3>4. ASSUME NEW i \in 1 .. Len(s) - n
                  PROVE  after[i] = s[n + i]
                  <4>1. i \in 1 .. Len(s) - (n + 1) + 1 /\ n + 1 + i - 1 = n + i
                        BY <1>0
                  <4>. QED
                        BY <3>2, <4>1
            <3>. QED
                  BY <3>2, <3>3, <3>4
      <2> HIDE DEF r, before, after
      <2>8. /\ r \in Seq(S) /\ Len(r) = Len(s) - 1
            /\ \A i \in 1 .. n - 1 : r[i] = s[i]
            /\ \A i \in n .. Len(s) - 1 : r[i] = s[i + 1]
            <3>1. /\ r \in Seq(S) /\ Len(r) = Len(before) + Len(after)
                  /\ \A i \in 1 .. Len(before) + Len(after) : r[i] =
                        IF i <= Len(before) THEN before[i] ELSE after[i - Len(before)]
                  BY <2>5, <2>6, <2>7, ConcatProperties
            <3>2. Len(r) = Len(s) - 1
                  BY <1>0, <2>6, <2>7, <3>1
            <3>3. ASSUME NEW i \in 1 .. n - 1
                  PROVE  r[i] = s[i]
                  <4>1. i \in 1 .. (n - 1) + (Len(s) - n) /\ i <= n - 1
                        BY <1>0
                  <4>2. r[i] = before[i]
                        BY <2>6, <2>7, <3>1, <4>1
                  <4>. QED
                        BY <2>6, <4>2
            <3>4. ASSUME NEW i \in n .. Len(s) - 1
                  PROVE  r[i] = s[i + 1]
                  <4>1. /\ i - (n - 1) \in 1 .. Len(s) - n /\ n + (i - (n - 1)) = i + 1
                        /\ i \in 1 .. (n - 1) + (Len(s) - n) /\ ~(i <= n - 1)
                        BY <1>0
                  <4>2. r[i] = after[i - (n - 1)]
                        BY <2>6, <2>7, <3>1, <4>1
                  <4>3. after[i - (n - 1)] = s[n + (i - (n - 1))]
                        BY <2>7, <4>1
                  <4>. QED
                        BY <4>1, <4>2, <4>3
            <3>. QED
                  BY <3>1, <3>2, <3>3, <3>4
      <2>9. DOMAIN r = 1 .. Len(s) - 1
            BY <2>8
      <2>10. Range(r) = Range(s) \ {a}
            <3>1. ASSUME NEW b \in Range(r)
                  PROVE  b \in Range(s) /\ b # a
                  <4>1. PICK i \in 1 .. Len(s) - 1 : r[i] = b
                        BY <2>9 DEF Range
                  <4>2. \E j \in 1 .. Len(s) : j # n /\ s[j] = b
                        BY <1>0, <2>8, <4>1
                  <4>. QED
                        BY <1>0, <2>1, <4>2 DEF Range, IsInjective
            <3>2. ASSUME NEW b \in Range(s), b # a
                  PROVE  b \in Range(r)
                  <4>1. PICK j \in 1 .. Len(s) : s[j] = b
                        BY <1>0 DEF Range
                  <4>2. CASE j < n
                        <5>1. j \in 1 .. n - 1 /\ j \in 1 .. Len(s) - 1
                              BY <1>0, <4>2
                        <5>2. r[j] = b /\ j \in DOMAIN r
                              BY <2>8, <2>9, <4>1, <5>1
                        <5>. QED
                              BY <5>2 DEF Range
                  <4>3. CASE j > n
                        <5>1. j - 1 \in n .. Len(s) - 1 /\ (j - 1) + 1 = j
                              BY <1>0, <4>3
                        <5>2. r[j - 1] = b /\ j - 1 \in DOMAIN r
                              BY <2>8, <2>9, <4>1, <5>1
                        <5>. QED
                              BY <5>2 DEF Range
                  <4>. QED
                        <5>1. j # n
                              BY <2>1, <3>2, <4>1
                        <5>2. j < n \/ j > n
                              BY <5>1
                        <5>. QED
                              BY <4>2, <4>3, <5>2
            <3>. QED
                  BY <3>1, <3>2
      <2>11. IsInjective(r)
            <3>1. ASSUME NEW i \in 1 .. Len(s) - 1, NEW j \in 1 .. Len(s) - 1, r[i] = r[j]
                  PROVE  i = j
                  <4> DEFINE at(m) == IF m < n THEN m ELSE m + 1
                  <4>1. \A m \in 1 .. Len(s) - 1 : at(m) \in 1 .. Len(s) /\ r[m] = s[at(m)]
                        BY <1>0, <2>8
                  <4>2. at(i) = at(j)
                        BY <1>0, <3>1, <4>1 DEF IsInjective
                  <4>. QED
                        BY <1>0, <4>2
            <3>. QED
                  BY <2>9, <3>1 DEF IsInjective
      <2>12. ASSUME s # <<>>, Head(s) # a
             PROVE  r # <<>> /\ Head(r) = Head(s)
            <3>1. Head(s) = s[1] /\ n # 1
                  BY <2>1, <2>12
            <3>2. r[1] = s[1] /\ Len(r) > 0
                  BY <1>0, <2>8, <3>1
            <3>. QED
                  BY <2>8, <3>1, <3>2
      <2>. QED
            BY <2>8, <2>10, <2>11, <2>12 DEF r
<1>. QED
      BY <1>1, <1>2

-----------------------------------------------------------------------------
(* The steps of the module                                                 *)

\* The transaction of a goes on to its next exchange.
Continues(a) ==
    /\ InTx(a) /\ Runs(a) /\ tx.reply # Unknown
    /\ \/ tx.step = "auth" /\ tx' = [step |-> "read", reply |-> Unknown] /\ UNCHANGED write
       \/ /\ tx.step = "read" /\ a # Poller
          /\ tx' = [step |-> "write", reply |-> Unknown]
          /\ write' \in {write, [write EXCEPT ![a] = "sent"]}
       \/ /\ tx.step = "write" /\ tx' = [step |-> "verify", reply |-> Unknown]
          /\ UNCHANGED write
    /\ UNCHANGED <<deviceVars, line, host, life, poll, reachable, identity, known, callVars>>

\* The transaction of a ends: only an answer to a read becomes the shown power.
Finishes(a) ==
    /\ InTx(a) /\ Runs(a)
    /\ tx' = NoTx /\ line' = Tail(line)
    /\ \/ known' = Unknown
       \/ known' = tx.reply /\ tx.reply # Unknown /\ tx.step \in {"read", "verify"}
    /\ \/ a = Poller /\ poll' = "idle" /\ UNCHANGED <<pc, outcome>>
       \/ /\ a # Poller /\ UNCHANGED poll
          /\ \E result \in {"ok", "unknown", "failed"} :
                /\ Return(a, result)
                /\ result = "ok" => tx.step \in {"read", "verify"}
                /\ result = "failed" => ~Attempted(tx.step)
    /\ UNCHANGED <<deviceVars, write, host, life, reachable, identity, desired>>

LEMMA Advances ==
    ASSUME TxShape, NEW a \in Actors, Advance(a) \/ Fail(a)
    PROVE  Continues(a) \/ Finishes(a)
<1> USE DEF Finish, callVars
<1>1. CASE Fail(a)
      BY <1>1 DEF Fail, Finishes
<1>2. CASE Advance(a)
      <2>1. a = Poller => tx.step \in {"auth", "read"}
            BY <1>2 DEF Advance, TxShape
      <2>2. CASE tx.step = "auth"
            BY <1>2, <2>2 DEF Advance, Continue, Continues
      <2>3. CASE tx.step = "read" /\ a = Poller
            BY <1>2, <2>3 DEF Advance, Finishes
      <2>4. CASE tx.step \in {"read", "verify"} /\ a # Poller /\ tx.reply = desired[a]
            BY <1>2, <2>4 DEF Advance, Finishes, Return
      <2>5. CASE tx.step = "read" /\ a # Poller /\ tx.reply # desired[a]
            BY <1>2, <2>5 DEF Advance, Continue, Continues
      <2>6. CASE tx.step = "write"
            BY <1>2, <2>6 DEF Advance, Continue, Continues
      <2>7. CASE tx.step = "verify" /\ tx.reply # desired[a]
            BY <1>2, <2>1, <2>7 DEF Advance, Finishes, Return
      <2>. QED
            BY <1>2, <2>1, <2>2, <2>3, <2>4, <2>5, <2>6, <2>7 DEF Advance
<1>. QED
      BY <1>1, <1>2

\* What does not touch the client's line nor its transaction.
Aside ==
    \/ Toggle \/ Move \/ PollStart \/ SetupDone \/ Close \/ CallsStopped
    \/ \E c \in Callers, d \in BOOLEAN : SetPower(c, d) /\ life # "open"

LEMMA Asides ==
    ASSUME Aside
    PROVE  /\ UNCHANGED <<write, line, tx, known>>
           /\ poll' = poll \/ (poll = "idle" /\ poll' = "scan")
           /\ UNCHANGED <<pc, outcome>> \/
                \E c \in Callers : pc[c] = "idle" /\ Return(c, "refused")
<1>1. CASE Toggle \/ Move
      BY <1>1 DEF Toggle, Move, callVars
<1>2. CASE PollStart \/ SetupDone \/ Close \/ CallsStopped
      BY <1>2 DEF PollStart, SetupDone, Close, CallsStopped, callVars
<1>3. CASE \E c \in Callers, d \in BOOLEAN : SetPower(c, d) /\ life # "open"
      BY <1>3 DEF SetPower
<1>. QED
      BY <1>1, <1>2, <1>3 DEF Aside

\* A call that joins the line.
Call(c, d) == SetPower(c, d) /\ life = "open"

LEMMA NextCases ==
    ASSUME TxShape, [Next]_vars
    PROVE  \/ Answer \/ \E c \in Callers : ExecuteWrite(c) \/ Cancel(c)
           \/ \E c \in Callers, d \in BOOLEAN : Call(c, d)
           \/ \E a \in Actors : Begin(a) \/ Continues(a) \/ Finishes(a)
           \/ ScanDone \/ UpdateHost \/ PollStopped
           \/ Aside \/ UNCHANGED vars
BY Advances DEF Next, ClientStep, Shutdown, Aside, Call

-----------------------------------------------------------------------------
(* The line                                                                *)

LineOK == line \in Seq(Actors) /\ IsInjective(line)

\* Who leaves the line leaves the transaction, if it was theirs, and nothing else.
LEMMA Abandons ==
    ASSUME LineOK, NEW a \in Actors, Abandon(a)
    PROVE  /\ LineOK' /\ Range(line') = Range(line) \ {a}
           /\ \/ Holds(a) /\ tx' = NoTx
              \/ /\ ~Holds(a) /\ tx' = tx
                 /\ line # <<>> => line' # <<>> /\ Head(line') = Head(line)
BY RemoveLine DEF LineOK, Abandon, Others, Holds

LEMMA UpdatedLine ==
    ASSUME LineOK, LineShape, UpdateHost
    PROVE  /\ LineOK'
           /\ Range(line') = IF reachable THEN Range(line) ELSE Range(line) \ {Poller}
<1>1. /\ line # <<>> /\ Head(line) = Poller /\ Poller \in Actors
      BY DEF UpdateHost, Holds, Actors
<1>2. /\ Tail(line) \in Seq(Actors) /\ IsInjective(Tail(line))
      /\ Range(Tail(line)) = Range(line) \ {Poller} /\ Poller \in Range(line)
      BY <1>1, TailLine DEF LineOK
<1>3. CASE reachable
      <2>1. line' = Append(Tail(line), Poller)
            BY <1>3 DEF UpdateHost
      <2> DEFINE rest == Tail(line)
      <2>2. /\ rest \in Seq(Actors) /\ IsInjective(rest) /\ Poller \notin Range(rest)
            /\ line' = Append(rest, Poller)
            BY <1>2, <2>1
      <2> HIDE DEF rest
      <2>3. /\ line' \in Seq(Actors) /\ IsInjective(line')
            /\ Range(line') = Range(rest) \cup {Poller}
            BY <1>1, <2>2, AppendLine
      <2>. QED
            BY <1>2, <1>3, <2>3 DEF LineOK, rest
<1>4. CASE ~reachable
      BY <1>2, <1>4 DEF UpdateHost, LineOK
<1>. QED
      BY <1>3, <1>4

LEMMA LineInv ==
    ASSUME IndInv, [Next]_vars
    PROVE  LineOK' /\ LineShape'
<1> USE LifeAssumption DEF Actors
<1>0. /\ LineOK /\ LineShape /\ TxShape /\ Poller \notin Callers
      /\ pc \in [Callers -> {"idle", "power", "done"}]
      BY DEF IndInv, TypeOK, LineOK
<1>1. CASE UNCHANGED <<line, pc, poll>>
      BY <1>0, <1>1 DEF LineOK, LineShape
<1>2. ASSUME NEW c \in Callers, Cancel(c)
      PROVE  LineOK' /\ LineShape'
      <2>1. LineOK' /\ Range(line') = Range(line) \ {c}
            BY <1>0, <1>2, Abandons DEF Cancel
      <2>. QED
            BY <1>0, <1>2, <2>1 DEF Cancel, Return, LineShape
<1>3. ASSUME NEW c \in Callers, NEW d \in BOOLEAN, Call(c, d)
      PROVE  LineOK' /\ LineShape'
      <2>1. /\ line' = Append(line, c) /\ c \notin Range(line) /\ UNCHANGED poll
            /\ pc' = [pc EXCEPT ![c] = "power"]
            BY <1>0, <1>3 DEF Call, SetPower, LineShape
      <2>2. LineOK' /\ Range(line') = Range(line) \cup {c}
            BY <1>0, <2>1, AppendLine DEF LineOK
      <2>. QED
            BY <1>0, <2>1, <2>2 DEF LineShape
<1>4. ASSUME NEW a \in Actors, Finishes(a)
      PROVE  LineOK' /\ LineShape'
      <2>1. LineOK' /\ Range(line') = Range(line) \ {a}
            BY <1>0, <1>4, TailLine DEF Finishes, InTx, Holds, LineOK
      <2>2. CASE a = Poller
            BY <1>0, <1>4, <2>1, <2>2 DEF Finishes, LineShape
      <2>3. CASE a # Poller
            BY <1>0, <1>4, <2>1, <2>3 DEF Finishes, Return, LineShape
      <2>. QED
            BY <2>2, <2>3
<1>5. CASE ScanDone
      <2>1. /\ line' = Append(line, Poller) /\ Poller \notin Range(line)
            /\ poll' = "host" /\ UNCHANGED pc
            BY <1>0, <1>5 DEF ScanDone, callVars, LineShape
      <2>2. LineOK' /\ Range(line') = Range(line) \cup {Poller}
            BY <1>0, <2>1, AppendLine DEF LineOK
      <2>. QED
            BY <1>0, <2>1, <2>2 DEF LineShape
<1>6. CASE UpdateHost
      BY <1>0, <1>6, UpdatedLine DEF UpdateHost, callVars, LineShape
<1>7. CASE PollStopped
      BY <1>0, <1>7, Abandons DEF PollStopped, callVars, LineShape
<1>8. CASE Aside
      BY <1>0, <1>8, Asides DEF LineOK, LineShape, Return
<1>. QED
      BY <1>0, <1>1, <1>2, <1>3, <1>4, <1>5, <1>6, <1>7, <1>8, NextCases
         DEF Answer, ExecuteWrite, Begin, Continues, callVars, vars

-----------------------------------------------------------------------------
(* The type invariant                                                      *)

LEMMA TypeInv ==
    ASSUME IndInv, [Next]_vars
    PROVE  TypeOK'
<1> USE LifeAssumption DEF deviceVars, callVars
<1>0. TypeOK /\ TxShape
      BY DEF IndInv
<1>1. line' \in Seq(Actors) /\ IsInjective(line')
      BY LineInv DEF LineOK
<1>2. NoTx \in [step : Steps, reply : Powers]
      BY DEF NoTx, Steps, Powers
<1>3. CASE Answer
      <2>1. tx' \in [step : Steps, reply : Powers]
            BY <1>0, <1>3 DEF Answer, TypeOK, Powers
      <2>. QED
            BY <1>0, <1>1, <1>3, <2>1 DEF Answer, TypeOK, Powers
<1>4. ASSUME NEW c \in Callers, ExecuteWrite(c)
      PROVE  TypeOK'
      <2>1. tx' \in [step : Steps, reply : Powers]
            BY <1>0, <1>4 DEF ExecuteWrite, TypeOK, Powers
      <2>2. power' \in BOOLEAN /\ write' \in [Callers -> {"none", "sent", "executed"}]
            BY <1>0, <1>4 DEF ExecuteWrite, TypeOK
      <2>. QED
            BY <1>0, <1>1, <1>4, <2>1, <2>2 DEF ExecuteWrite, TypeOK, Powers
<1>5. ASSUME NEW a \in Actors, Begin(a)
      PROVE  TypeOK'
      <2>1. tx' \in [step : Steps, reply : Powers]
            BY <1>5 DEF Begin, Steps, Powers
      <2>. QED
            BY <1>0, <1>1, <1>5, <2>1 DEF Begin, TypeOK, Powers
<1>6. ASSUME NEW a \in Actors, Continues(a)
      PROVE  TypeOK'
      <2>1. tx' \in [step : Steps, reply : Powers]
            BY <1>6 DEF Continues, Steps, Powers
      <2>2. write' \in [Callers -> {"none", "sent", "executed"}]
            BY <1>0, <1>6 DEF Continues, TypeOK, Actors
      <2>. QED
            BY <1>0, <1>1, <1>6, <2>1, <2>2 DEF Continues, TypeOK, Powers
<1>7. ASSUME NEW a \in Actors, Finishes(a)
      PROVE  TypeOK'
      <2>1. known' \in Powers /\ tx' \in [step : Steps, reply : Powers]
            BY <1>0, <1>2, <1>7 DEF Finishes, TypeOK, Powers
      <2>2. poll' \in {"idle", "scan", "host", "read"}
            BY <1>0, <1>7 DEF Finishes, TypeOK
      <2>3. /\ pc' \in [Callers -> {"idle", "power", "done"}]
            /\ outcome' \in [Callers -> Results]
            BY <1>0, <1>7 DEF Finishes, Return, TypeOK, Results
      <2>. QED
            BY <1>0, <1>1, <1>7, <2>1, <2>2, <2>3 DEF Finishes, TypeOK, Powers, Results
<1>8. ASSUME NEW c \in Callers, NEW d \in BOOLEAN, SetPower(c, d)
      PROVE  TypeOK'
      <2>1. /\ desired' \in [Callers -> BOOLEAN] /\ known' \in Powers
            BY <1>0, <1>8 DEF SetPower, TypeOK, Powers
      <2>2. /\ pc' \in [Callers -> {"idle", "power", "done"}]
            /\ outcome' \in [Callers -> Results]
            BY <1>0, <1>8 DEF SetPower, Return, TypeOK, Results
      <2>. QED
            BY <1>0, <1>1, <1>8, <2>1, <2>2 DEF SetPower, TypeOK, Powers, Results
<1>9. ASSUME NEW c \in Callers, Cancel(c)
      PROVE  TypeOK'
      <2>1. tx' \in [step : Steps, reply : Powers]
            BY <1>0, <1>2, <1>9 DEF Cancel, Abandon, TypeOK, Powers
      <2>2. /\ pc' \in [Callers -> {"idle", "power", "done"}]
            /\ outcome' \in [Callers -> Results]
            BY <1>0, <1>9 DEF Cancel, Return, TypeOK, Results
      <2>. QED
            BY <1>0, <1>1, <1>9, <2>1, <2>2 DEF Cancel, TypeOK, Powers, Results
<1>10. CASE ScanDone
      <2>1. identity' \in Hosts
            BY <1>0, <1>10 DEF ScanDone, TypeOK
      <2>. QED
            BY <1>0, <1>1, <1>10, <2>1 DEF ScanDone, TypeOK
<1>11. CASE UpdateHost
      BY <1>0, <1>1, <1>11 DEF UpdateHost, TypeOK
<1>12. CASE PollStopped
      <2>1. tx' \in [step : Steps, reply : Powers]
            BY <1>0, <1>2, <1>12 DEF PollStopped, Abandon, TypeOK, Powers
      <2>. QED
            BY <1>0, <1>1, <1>12, <2>1 DEF PollStopped, TypeOK, Powers
<1>13. CASE Toggle \/ Move
      <2>1. toggles \in 0 .. MaxToggles /\ moves \in 0 .. MaxMoves /\ power \in BOOLEAN
            BY <1>0 DEF TypeOK
      <2>2. toggles' \in 0 .. MaxToggles /\ moves' \in 0 .. MaxMoves
            BY <1>13, <2>1 DEF Toggle, Move
      <2>3. power' \in BOOLEAN /\ addr' \in Hosts
            BY <1>0, <1>13 DEF Toggle, Move, TypeOK
      <2>. QED
            BY <1>0, <1>1, <1>13, <2>2, <2>3 DEF Toggle, Move, TypeOK
<1>14. CASE PollStart \/ SetupDone \/ Close \/ CallsStopped
      BY <1>0, <1>1, <1>14 DEF PollStart, SetupDone, Close, CallsStopped, TypeOK
<1>15. CASE UNCHANGED vars
      BY <1>0, <1>15 DEF vars, TypeOK
<1>. QED
      BY <1>0, <1>3, <1>4, <1>5, <1>6, <1>7, <1>8, <1>9, <1>10, <1>11, <1>12, <1>13,
         <1>14, <1>15, NextCases DEF Call, Aside

-----------------------------------------------------------------------------
(* What leaves the transactions alone                                      *)

\* The transaction stays with its holder, or its holder is cancelled; the other
\* calls stand where they stood, or begin, and nothing becomes shown.
Standing ==
    /\ UNCHANGED write
    /\ UNCHANGED <<power, toggles>> \/ toggles' > 0
    /\ known' \in {known, Unknown}
    /\ \/ /\ tx' = tx
          /\ tx.step # "none" => line' # <<>> /\ Head(line') = Head(line)
       \/ /\ tx' = NoTx
          /\ \E a \in Actors : Holds(a) /\ (a \in Callers => outcome'[a] = "cancelled")
    /\ InTx(Poller)' => poll' = poll
    /\ \A c \in Callers :
        \/ outcome'[c] = outcome[c] /\ (pc'[c] = pc[c] \/ (pc[c] = "idle" /\ pc'[c] = "power"))
        \/ outcome'[c] = "refused" /\ pc[c] = "idle" /\ pc'[c] = "done"
        \/ outcome'[c] = "cancelled" /\ pc[c] = "power" /\ pc'[c] = "done"

LEMMA Stands ==
    ASSUME IndInv,
           \/ \E c \in Callers : Cancel(c)
           \/ \E c \in Callers, d \in BOOLEAN : Call(c, d)
           \/ ScanDone \/ UpdateHost \/ PollStopped \/ Aside \/ UNCHANGED vars
    PROVE  Standing
<1> USE LifeAssumption DEF Actors, Standing, deviceVars, callVars
<1>0. /\ TypeOK /\ LineOK /\ LineShape /\ TxShape /\ NoTx.step = "none"
      BY DEF IndInv, TypeOK, LineOK, NoTx
<1>1. ASSUME NEW c \in Callers, Cancel(c)
      PROVE  Standing
      <2>1. /\ pc' = [pc EXCEPT ![c] = "done"] /\ outcome' = [outcome EXCEPT ![c] = "cancelled"]
            /\ pc[c] = "power" /\ UNCHANGED <<write, power, toggles, known, poll>>
            BY <1>1 DEF Cancel, Return
      <2>2. \/ Holds(c) /\ tx' = NoTx
            \/ /\ ~Holds(c) /\ tx' = tx
               /\ line # <<>> => line' # <<>> /\ Head(line') = Head(line)
            BY <1>0, <1>1, Abandons DEF Cancel
      <2>. QED
            BY <1>0, <2>1, <2>2 DEF TypeOK, TxShape
<1>2. ASSUME NEW c \in Callers, NEW d \in BOOLEAN, Call(c, d)
      PROVE  Standing
      <2>1. /\ pc' = [pc EXCEPT ![c] = "power"] /\ pc[c] = "idle"
            /\ UNCHANGED <<write, outcome, power, toggles, poll, tx>> /\ known' = Unknown
            /\ line' = Append(line, c) /\ c \notin Range(line)
            BY <1>0, <1>2 DEF Call, SetPower, LineShape
      <2>2. line # <<>> => line' # <<>> /\ Head(line') = Head(line)
            BY <1>0, <2>1, AppendLine DEF LineOK
      <2>. QED
            BY <1>0, <2>1, <2>2 DEF TypeOK, TxShape
<1>3. CASE ScanDone
      <2>1. /\ UNCHANGED <<write, pc, outcome, power, toggles, known, tx>>
            /\ line' = Append(line, Poller) /\ Poller \notin Range(line) /\ poll = "scan"
            BY <1>0, <1>3 DEF ScanDone, LineShape
      <2>2. line # <<>> => line' # <<>> /\ Head(line') = Head(line)
            BY <1>0, <2>1, AppendLine DEF LineOK
      <2>3. ~InTx(Poller)'
            BY <1>0, <2>1, <2>2 DEF TxShape, InTx, Holds
      <2>. QED
            BY <1>0, <2>1, <2>2, <2>3 DEF TypeOK, TxShape
<1>4. CASE UpdateHost
      <2>1. /\ UNCHANGED <<write, pc, outcome, power, toggles, tx>>
            /\ known' \in {known, Unknown} /\ tx.step = "none"
            BY <1>0, <1>4 DEF UpdateHost, TxShape, InTx
      <2>. QED
            BY <1>0, <2>1 DEF TypeOK, InTx
<1>5. CASE PollStopped
      <2>1. UNCHANGED <<write, pc, outcome, power, toggles, known>>
            BY <1>5 DEF PollStopped
      <2>2. \/ Holds(Poller) /\ tx' = NoTx
            \/ /\ ~Holds(Poller) /\ tx' = tx
               /\ line # <<>> => line' # <<>> /\ Head(line') = Head(line)
            BY <1>0, <1>5, Abandons DEF PollStopped
      <2>3. ~InTx(Poller)'
            BY <1>0, <2>2 DEF TxShape, InTx, Holds
      <2>. QED
            BY <1>0, <2>1, <2>2, <2>3 DEF TypeOK, TxShape
<1>6. CASE Aside
      <2>1. /\ UNCHANGED <<write, line, tx, known>>
            /\ poll' = poll \/ (poll = "idle" /\ poll' = "scan")
            BY <1>6, Asides
      <2>2. InTx(Poller)' => poll' = poll
            BY <1>0, <2>1 DEF TxShape, InTx, Holds
      <2>3. UNCHANGED <<power, toggles>> \/ toggles' > 0
            BY <1>0, <1>6 DEF Aside, Toggle, Move, PollStart, SetupDone, Close,
                              CallsStopped, SetPower, TypeOK
      <2>4. \A c \in Callers :
                \/ outcome'[c] = outcome[c] /\ pc'[c] = pc[c]
                \/ outcome'[c] = "refused" /\ pc[c] = "idle" /\ pc'[c] = "done"
            BY <1>0, <1>6, Asides DEF Return, TypeOK
      <2>. QED
            BY <1>0, <2>1, <2>2, <2>3, <2>4 DEF TxShape
<1>7. CASE UNCHANGED vars
      BY <1>0, <1>7 DEF vars, TxShape
<1>. QED
      BY <1>1, <1>2, <1>3, <1>4, <1>5, <1>6, <1>7

-----------------------------------------------------------------------------
(* The invariant, part by part                                             *)

\* The holder of the lock stands in the line.
LEMMA HolderWaits ==
    ASSUME IndInv, NEW a \in Actors, Holds(a)
    PROVE  a \in Callers => pc[a] = "power"
BY TailLine DEF IndInv, TypeOK, Holds, LineShape

LEMMA TxInv ==
    ASSUME IndInv, [Next]_vars
    PROVE  TxShape'
<1> USE DEF TxShape, InTx, Holds
<1>0. /\ TypeOK /\ TxShape /\ NoTx.step = "none" /\ NoTx.reply = Unknown
      BY DEF IndInv, NoTx
<1>1. CASE Answer
      <2>1. tx'.step = tx.step
            BY <1>0, <1>1 DEF Answer, TypeOK
      <2>. QED
            BY <1>0, <1>1, <2>1 DEF Answer
<1>2. ASSUME NEW c \in Callers, ExecuteWrite(c)
      PROVE  TxShape'
      <2>1. tx'.step = tx.step /\ (tx.step = "none" => tx' = tx)
            BY <1>0, <1>2 DEF ExecuteWrite, TypeOK
      <2>. QED
            BY <1>0, <1>2, <2>1 DEF ExecuteWrite
<1>3. ASSUME NEW a \in Actors, Begin(a)
      PROVE  TxShape'
      BY <1>0, <1>3 DEF Begin
<1>4. ASSUME NEW a \in Actors, Continues(a)
      PROVE  TxShape'
      BY <1>0, <1>4 DEF Continues
<1>5. ASSUME NEW a \in Actors, Finishes(a)
      PROVE  TxShape'
      BY <1>0, <1>5 DEF Finishes
<1>6. CASE Standing
      <2>1. CASE tx' = tx
            BY <1>0, <1>6, <2>1 DEF Standing
      <2>2. CASE tx' = NoTx
            BY <1>0, <2>2
      <2>. QED
            BY <1>6, <2>1, <2>2 DEF Standing
<1>. QED
      BY <1>0, <1>1, <1>2, <1>3, <1>4, <1>5, <1>6, Stands, NextCases

LEMMA WriteInv ==
    ASSUME IndInv, [Next]_vars, NEW c \in Callers
    PROVE  WriteShape(c)'
<1> USE DEF WriteShape, Holds, Attempted
<1>0. /\ TypeOK /\ TxShape /\ WriteShape(c) /\ NoTx.step = "none"
      /\ (Holds(c) => pc[c] = "power")
      BY HolderWaits DEF IndInv, NoTx, Actors
<1>1. CASE Answer
      <2>1. tx'.step = tx.step /\ tx.step # "write"
            BY <1>0, <1>1 DEF Answer, TypeOK
      <2>. QED
            BY <1>0, <1>1, <2>1 DEF Answer, callVars
<1>2. ASSUME NEW d \in Callers, ExecuteWrite(d)
      PROVE  WriteShape(c)'
      <2>1. /\ write' = [write EXCEPT ![d] = "executed"] /\ write[d] = "sent"
            /\ UNCHANGED <<line, pc, outcome>>
            BY <1>2 DEF ExecuteWrite, callVars
      <2>2. tx'.step = tx.step /\ (tx' # tx => Holds(d))
            BY <1>0, <1>2 DEF ExecuteWrite, TypeOK
      <2>. QED
            BY <1>0, <2>1, <2>2 DEF TypeOK
<1>3. ASSUME NEW a \in Actors, Begin(a)
      PROVE  WriteShape(c)'
      BY <1>0, <1>3 DEF Begin, callVars
<1>4. ASSUME NEW a \in Actors, Continues(a)
      PROVE  WriteShape(c)'
      <2>1. Holds(a) /\ UNCHANGED <<line, pc, outcome>>
            BY <1>4 DEF Continues, InTx, callVars
      <2>2. CASE a # c
            <3>1. write'[c] = write[c] /\ ~Holds(c)
                  BY <1>0, <1>4, <2>1, <2>2 DEF Continues, TypeOK
            <3>. QED
                  BY <1>0, <2>1, <3>1
      <2>3. CASE a = c
            BY <1>0, <1>4, <2>1, <2>3 DEF Continues, TypeOK
      <2>. QED
            BY <2>2, <2>3
<1>5. ASSUME NEW a \in Actors, Finishes(a)
      PROVE  WriteShape(c)'
      <2>1. tx'.step = "none" /\ UNCHANGED write /\ Holds(a)
            BY <1>0, <1>5 DEF Finishes, InTx
      <2>2. CASE a # c
            <3>1. UNCHANGED <<pc[c], outcome[c]>> /\ ~Holds(c)
                  BY <1>0, <1>5, <2>1, <2>2 DEF Finishes, Return, TypeOK
            <3>. QED
                  BY <1>0, <2>1, <3>1
      <2>3. CASE a = c
            <3>1. a # Poller
                  BY <2>3, LifeAssumption
            <3>2. PICK result \in {"ok", "unknown", "failed"} :
                    /\ pc' = [pc EXCEPT ![c] = "done"]
                    /\ outcome' = [outcome EXCEPT ![c] = result]
                    /\ result = "ok" => tx.step \in {"read", "verify"}
                    /\ result = "failed" => ~Attempted(tx.step)
                  BY <1>5, <2>3, <3>1 DEF Finishes, Return
            <3>3. pc'[c] = "done" /\ outcome'[c] = result
                  BY <1>0, <3>2 DEF TypeOK
            <3>. QED
                  BY <1>0, <2>1, <2>3, <3>2, <3>3
      <2>. QED
            BY <2>2, <2>3
<1>6. CASE Standing
      <2>1. /\ UNCHANGED write
            /\ \/ outcome'[c] = outcome[c] /\ (pc'[c] = pc[c] \/ (pc[c] = "idle" /\ pc'[c] = "power"))
               \/ outcome'[c] = "refused" /\ pc[c] = "idle" /\ pc'[c] = "done"
               \/ outcome'[c] = "cancelled" /\ pc[c] = "power" /\ pc'[c] = "done"
            BY <1>6 DEF Standing
      <2>2. CASE tx' = tx
            BY <1>0, <1>6, <2>1, <2>2 DEF Standing, TxShape
      <2>3. CASE tx' = NoTx /\ \E a \in Actors :
                    Holds(a) /\ (a \in Callers => outcome'[a] = "cancelled")
            BY <1>0, <2>1, <2>3
      <2>. QED
            BY <1>6, <2>2, <2>3 DEF Standing
<1>. QED
      BY <1>0, <1>1, <1>2, <1>3, <1>4, <1>5, <1>6, Stands, NextCases

\* The device has executed the write of a call that is over and not confirmed.
Late == \E c \in Callers : write[c] = "executed" /\ outcome[c] \notin {"none", "ok"}

\* What has been executed stays so, and a call that is over stays as it ended.
LEMMA LateStays ==
    ASSUME IndInv, [Next]_vars, Late
    PROVE  Late'
<1> SUFFICES ASSUME NEW c \in Callers, write[c] = "executed",
                    outcome[c] \notin {"none", "ok"}
             PROVE  write'[c] = "executed" /\ outcome'[c] = outcome[c]
    BY DEF Late
<1>0. TypeOK /\ TxShape /\ pc[c] = "done" /\ ~Holds(c)
      BY HolderWaits DEF IndInv, WriteShape, Actors
<1>1. CASE UNCHANGED <<write, outcome>>
      BY <1>1
<1>2. ASSUME NEW d \in Callers, ExecuteWrite(d)
      PROVE  write'[c] = "executed" /\ outcome'[c] = outcome[c]
      BY <1>0, <1>2 DEF ExecuteWrite, callVars, TypeOK
<1>3. ASSUME NEW a \in Actors, Continues(a)
      PROVE  write'[c] = "executed" /\ outcome'[c] = outcome[c]
      BY <1>0, <1>3 DEF Continues, InTx, callVars, TypeOK
<1>4. ASSUME NEW a \in Actors, Finishes(a)
      PROVE  write'[c] = "executed" /\ outcome'[c] = outcome[c]
      BY <1>0, <1>4 DEF Finishes, InTx, Return, TypeOK
<1>5. CASE Standing
      BY <1>0, <1>5 DEF Standing
<1>. QED
      BY <1>0, <1>1, <1>2, <1>3, <1>4, <1>5, Stands, NextCases DEF Answer, Begin, callVars

\* The datagram of a write that arrives after its transaction belongs to a call
\* that is over and was not confirmed.
LEMMA LateWrite ==
    ASSUME IndInv, NEW c \in Callers, ExecuteWrite(c), ~(Holds(c) /\ tx.step = "write")
    PROVE  Late'
<1>1. /\ write' = [write EXCEPT ![c] = "executed"] /\ write[c] = "sent"
      /\ UNCHANGED outcome
      BY DEF ExecuteWrite, callVars
<1>2. outcome[c] \in {"unknown", "cancelled"}
      BY <1>1 DEF IndInv, WriteShape, Attempted
<1>. QED
      BY <1>1, <1>2 DEF IndInv, TypeOK, Late

LEMMA ReplyInv ==
    ASSUME IndInv, [Next]_vars
    PROVE  ReplyTrue'
<1>0. /\ TypeOK /\ TxShape /\ NoTx.step = "none" /\ toggles \in Nat
      BY DEF IndInv, NoTx, TypeOK
<1>1. ReplyTrue /\ (Late => Late')
      BY LateStays DEF IndInv
<1>2. ReplyTrue <=> (tx.step \in {"read", "verify"} =>
                        tx.reply \in {Unknown, power} \/ toggles > 0 \/ Late)
      BY DEF ReplyTrue, Late
<1>3. ReplyTrue' <=> (tx'.step \in {"read", "verify"} =>
                        tx'.reply \in {Unknown, power'} \/ toggles' > 0 \/ Late')
      BY DEF ReplyTrue, Late
<1>4. CASE Answer
      <2>1. tx'.reply = power /\ UNCHANGED power
            BY <1>0, <1>4 DEF Answer, deviceVars, TypeOK
      <2>. QED
            BY <1>3, <2>1
<1>5. ASSUME NEW c \in Callers, ExecuteWrite(c)
      PROVE  ReplyTrue'
      <2>1. CASE Holds(c) /\ tx.step = "write"
            BY <1>0, <1>3, <1>5, <2>1 DEF ExecuteWrite, TypeOK
      <2>2. CASE ~(Holds(c) /\ tx.step = "write")
            BY <1>3, <1>5, <2>2, LateWrite
      <2>. QED
            BY <2>1, <2>2
<1>6. ASSUME NEW a \in Actors, Begin(a)
      PROVE  ReplyTrue'
      BY <1>3, <1>6 DEF Begin
<1>7. ASSUME NEW a \in Actors, Continues(a)
      PROVE  ReplyTrue'
      BY <1>3, <1>7 DEF Continues
<1>8. ASSUME NEW a \in Actors, Finishes(a)
      PROVE  ReplyTrue'
      BY <1>0, <1>3, <1>8 DEF Finishes
<1>9. CASE Standing
      BY <1>0, <1>1, <1>2, <1>3, <1>9 DEF Standing
<1>. QED
      BY <1>0, <1>4, <1>5, <1>6, <1>7, <1>8, <1>9, Stands, NextCases

\* The device has executed the write of a call that has not been confirmed.
Unconfirmed == \E c \in Callers : write[c] = "executed" /\ outcome[c] # "ok"

LEMMA ShownInv ==
    ASSUME IndInv, [Next]_vars
    PROVE  ShownUnlessUnconfirmed'
<1>0. /\ TypeOK /\ TxShape /\ NoTx.step = "none" /\ toggles \in Nat
      BY DEF IndInv, NoTx, TypeOK
<1>1. (Late => Late') /\ (Late => Unconfirmed) /\ (Late' => Unconfirmed')
      BY LateStays DEF Late, Unconfirmed
<1>2. known \in {Unknown, power} \/ toggles > 0 \/ Unconfirmed
      BY DEF IndInv, ShownUnlessUnconfirmed, Unconfirmed
<1>3. ShownUnlessUnconfirmed' <=> known' \in {Unknown, power'} \/ toggles' > 0 \/ Unconfirmed'
      BY DEF ShownUnlessUnconfirmed, Unconfirmed
<1>4. CASE UNCHANGED <<power, toggles, known, write, outcome>>
      BY <1>2, <1>3, <1>4 DEF Unconfirmed
<1>5. ASSUME NEW c \in Callers, ExecuteWrite(c)
      PROVE  ShownUnlessUnconfirmed'
      <2>1. CASE Holds(c) /\ tx.step = "write"
            <3>1. outcome[c] = "none"
                  BY <2>1, HolderWaits DEF IndInv, TypeOK, WriteShape, Actors
            <3>. QED
                  BY <1>0, <1>3, <1>5, <3>1 DEF ExecuteWrite, callVars, TypeOK, Unconfirmed
      <2>2. CASE ~(Holds(c) /\ tx.step = "write")
            BY <1>1, <1>3, <1>5, <2>2, LateWrite
      <2>. QED
            BY <2>1, <2>2
<1>6. ASSUME NEW a \in Actors, Continues(a)
      PROVE  ShownUnlessUnconfirmed'
      <2>1. Unconfirmed => Unconfirmed'
            <3>1. ASSUME NEW c \in Callers, write[c] = "executed"
                  PROVE  write'[c] = "executed"
                  <4>1. Holds(c) => Attempted(tx.step) \/ outcome[c] # "none"
                        BY <3>1 DEF IndInv, WriteShape
                  <4>2. Holds(c) => outcome[c] = "none"
                        BY HolderWaits DEF IndInv, WriteShape, Actors
                  <4>. QED
                        BY <1>0, <1>6, <3>1, <4>1, <4>2
                           DEF Continues, InTx, Holds, Attempted, TypeOK
            <3>. QED
                  BY <1>6, <3>1 DEF Continues, callVars, Unconfirmed
      <2>. QED
            BY <1>2, <1>3, <1>6, <2>1 DEF Continues, deviceVars
<1>7. ASSUME NEW a \in Actors, Finishes(a)
      PROVE  ShownUnlessUnconfirmed'
      <2>1. UNCHANGED <<power, toggles>>
            BY <1>7 DEF Finishes, deviceVars
      <2>2. CASE known' = Unknown
            BY <1>3, <2>2
      <2>3. CASE known' = tx.reply /\ tx.reply # Unknown /\ tx.step \in {"read", "verify"}
            BY <1>1, <1>3, <2>1, <2>3 DEF IndInv, ReplyTrue, Late
      <2>. QED
            BY <1>7, <2>2, <2>3 DEF Finishes
<1>8. CASE Standing
      <2>1. Unconfirmed => Unconfirmed'
            BY <1>8 DEF Standing, Unconfirmed
      <2>. QED
            BY <1>0, <1>2, <1>3, <1>8, <2>1 DEF Standing
<1>. QED
      BY <1>0, <1>4, <1>5, <1>6, <1>7, <1>8, Stands, NextCases
         DEF Answer, Begin, deviceVars, callVars

LEMMA CloseInv ==
    ASSUME IndInv, [Next]_vars
    PROVE  CloseShape'
<1> USE DEF CloseShape
<1>0. TypeOK /\ TxShape /\ CloseShape
      BY DEF IndInv
<1>1. CASE UNCHANGED <<life, poll, pc>>
      BY <1>0, <1>1
<1>2. ASSUME NEW c \in Callers, Cancel(c)
      PROVE  CloseShape'
      BY <1>0, <1>2 DEF Cancel, Return, TypeOK
<1>3. ASSUME NEW c \in Callers, NEW d \in BOOLEAN, SetPower(c, d)
      PROVE  CloseShape'
      BY <1>0, <1>3 DEF SetPower, Return, TypeOK
<1>4. ASSUME NEW a \in Actors, Finishes(a)
      PROVE  CloseShape'
      BY <1>0, <1>4 DEF Finishes, Return, TypeOK
<1>5. CASE ScanDone \/ UpdateHost \/ PollStopped
      BY <1>0, <1>5 DEF ScanDone, UpdateHost, PollStopped, callVars
<1>6. CASE Toggle \/ Move \/ PollStart \/ SetupDone \/ Close \/ CallsStopped
      BY <1>0, <1>6 DEF Toggle, Move, PollStart, SetupDone, Close, CallsStopped, callVars
<1>. QED
      BY <1>0, <1>1, <1>2, <1>3, <1>4, <1>5, <1>6, NextCases
         DEF Answer, ExecuteWrite, Begin, Continues, Call, Aside, callVars, vars

LEMMA InitInv ==
    ASSUME Init
    PROVE  IndInv
<1> USE LifeAssumption DEF Init
<1>1. TypeOK
      <2>1. line \in Seq(Actors) /\ IsInjective(line)
            BY DEF IsInjective
      <2>2. NoTx \in [step : Steps, reply : BOOLEAN \cup {Unknown}]
            BY DEF NoTx, Steps
      <2>3. toggles \in 0 .. MaxToggles /\ moves \in 0 .. MaxMoves
            OBVIOUS
      <2>4. /\ write \in [Callers -> {"none", "sent", "executed"}]
            /\ pc \in [Callers -> {"idle", "power", "done"}]
            /\ desired \in [Callers -> BOOLEAN] /\ outcome \in [Callers -> Results]
            BY DEF Results
      <2>5. /\ life \in {"setup", "open", "stopPoll", "stopCalls", "closed"}
            /\ poll \in {"idle", "scan", "host", "read"}
            /\ reachable \in BOOLEAN /\ known \in BOOLEAN \cup {Unknown}
            OBVIOUS
      <2>. QED
            BY <2>1, <2>2, <2>3, <2>4, <2>5 DEF TypeOK, Results
<1>2. LineShape /\ TxShape /\ ReplyTrue
      BY DEF LineShape, TxShape, ReplyTrue, InTx, NoTx, Range
<1>3. CloseShape /\ ShownUnlessUnconfirmed /\ \A c \in Callers : WriteShape(c)
      BY DEF CloseShape, ShownUnlessUnconfirmed, WriteShape, Holds
<1>. QED
      BY <1>1, <1>2, <1>3 DEF IndInv

LEMMA StepInv ==
    ASSUME IndInv, [Next]_vars
    PROVE  IndInv'
BY LineInv, TypeInv, TxInv, WriteInv, ReplyInv, ShownInv, CloseInv DEF IndInv

LEMMA Invariance == Spec => []IndInv
BY InitInv, StepInv, PTL DEF Spec

-----------------------------------------------------------------------------
(* The theorems                                                            *)

\* A call of async_set_power that fails without "outcome unknown" has sent no
\* write, at whatever exchange the transaction stopped and however late the
\* datagrams of other calls arrive.
THEOREM AmbiguousOutcome == Spec => []AmbiguityReported
<1>1. ASSUME IndInv
      PROVE  AmbiguityReported
      <2>1. ASSUME NEW c \in Callers, outcome[c] \in {"failed", "refused"}
            PROVE  write[c] = "none"
            <3>1. pc[c] = "done" /\ WriteShape(c)
                  BY <1>1, <2>1 DEF IndInv, WriteShape
            <3>2. ~Holds(c)
                  BY <1>1, <3>1, HolderWaits DEF Actors
            <3>. QED
                  BY <2>1, <3>1, <3>2 DEF WriteShape
      <2>. QED
            BY <2>1 DEF AmbiguityReported
<1>. QED
      BY <1>1, Invariance, PTL

\* The power_state the runtime shows is the device's, or unknown, until somebody
\* uses the device's own switch or a write that nobody confirmed is executed: an
\* overlap of polls and calls does not show an outdated state.
THEOREM ShownPower == Spec => []ShownUnlessUnconfirmed
BY Invariance, PTL DEF IndInv

\* async_close leaves no task in the client's line, no transaction and no poll.
THEOREM QuietClose == Spec => []CloseQuiet
<1>1. ASSUME IndInv, life = "closed"
      PROVE  line = <<>> /\ tx = NoTx /\ poll = "idle" /\ \A c \in Callers : pc[c] # "power"
      <2>1. poll = "idle" /\ \A c \in Callers : pc[c] # "power"
            BY <1>1 DEF IndInv, CloseShape
      <2>2. Range(line) = {}
            BY <1>1, <2>1 DEF IndInv, TypeOK, LineShape, Actors, Range
      <2>3. line = <<>>
            BY <1>1, <2>2, TailLine DEF IndInv, TypeOK
      <2>4. tx = NoTx
            BY <1>1, <2>3 DEF IndInv, TypeOK, TxShape, NoTx
      <2>. QED
            BY <2>1, <2>3, <2>4
<1>2. IndInv => CloseQuiet
      BY <1>1 DEF CloseQuiet
<1>. QED
      BY <1>2, Invariance, PTL
=============================================================================
