------------------------ MODULE BlockTransferProofs ------------------------
(***************************************************************************)
(* Theorems about BlockTransfer, for any representations, block sizes that *)
(* divide one another and limits, and however often the device changes and *)
(* datagrams overtake others: what one request of the probe assembles, and *)
(* why it fails.                                                           *)
(***************************************************************************)
EXTENDS BlockTransfer, SequenceTheorems, TLAPS

-----------------------------------------------------------------------------
(* Numbers and sequences                                                   *)

\* Division of multiples.
LEMMA DivMultiple ==
    ASSUME NEW q \in Nat, NEW s \in Nat \ {0}
    PROVE  (q * s) \div s = q
OBVIOUS

LEMMA DivExact ==
    ASSUME NEW t \in Nat, NEW s \in Nat \ {0}, t % s = 0
    PROVE  \E k \in Nat : t = k * s
<1>1. t = (t \div s) * s
  OBVIOUS
<1>2. t \div s \in Nat
  OBVIOUS
<1>. QED BY <1>1, <1>2

LEMMA ProductAssoc ==
    ASSUME NEW a \in Nat, NEW b \in Nat, NEW c \in Nat
    PROVE  /\ a * (b * c) = (a * b) * c /\ a * b \in Nat
           /\ (a + 1) * b = a * b + b
OBVIOUS

LEMMA RemoveFacts ==
    ASSUME NEW S, NEW s \in Seq(S), NEW i \in 1 .. Len(s)
    PROVE  /\ RemoveAt(s, i) \in Seq(S)
           /\ Len(RemoveAt(s, i)) = Len(s) - 1
           /\ \A k \in 1 .. Len(s) - 1 :
                 RemoveAt(s, i)[k] = IF k < i THEN s[k] ELSE s[k + 1]
<1>1. /\ SubSeq(s, 1, i - 1) \in Seq(S) /\ Len(SubSeq(s, 1, i - 1)) = i - 1
      /\ \A k \in 1 .. i - 1 : SubSeq(s, 1, i - 1)[k] = s[k]
      BY SubSeqProperties
<1>2. /\ SubSeq(s, i + 1, Len(s)) \in Seq(S) /\ Len(SubSeq(s, i + 1, Len(s))) = Len(s) - i
      /\ \A k \in 1 .. Len(s) - i : SubSeq(s, i + 1, Len(s))[k] = s[k + i]
      BY SubSeqProperties
<1>. DEFINE a == SubSeq(s, 1, i - 1)  b == SubSeq(s, i + 1, Len(s))
<1>3. /\ a \o b \in Seq(S) /\ Len(a \o b) = Len(a) + Len(b)
      /\ \A k \in 1 .. Len(a) + Len(b) :
            (a \o b)[k] = IF k <= Len(a) THEN a[k] ELSE b[k - Len(a)]
      BY <1>1, <1>2, ConcatProperties
<1>4. RemoveAt(s, i) = a \o b
      BY DEF RemoveAt
<1>8. /\ \A k \in 1 .. i - 1 : a[k] = s[k]
      /\ \A k \in 1 .. Len(s) - i : b[k] = s[k + i]
      BY <1>1, <1>2
<1>. HIDE DEF a, b
<1>5. Len(a) = i - 1 /\ Len(b) = Len(s) - i /\ Len(s) \in Nat
      BY <1>1, <1>2 DEF a, b
<1>6. Len(a) + Len(b) = Len(s) - 1
      BY <1>5
<1>7. ASSUME NEW k \in 1 .. Len(s) - 1
      PROVE  (a \o b)[k] = IF k < i THEN s[k] ELSE s[k + 1]
      <2>1. CASE k < i
            <3>1. k \in 1 .. i - 1 /\ k \in 1 .. Len(a) + Len(b) /\ k <= Len(a)
                  BY <1>5, <1>6, <2>1
            <3>. QED
                  BY <1>3, <1>8, <2>1, <3>1
      <2>2. CASE k >= i
            <3>1. k - (i - 1) \in 1 .. Len(s) - i
                  BY <1>5, <2>2
            <3>2. (k - (i - 1)) + i = k + 1
                  OBVIOUS
            <3>3. (a \o b)[k] = b[k - (i - 1)]
                  BY <1>3, <1>5, <1>6, <2>2
            <3>4. b[k - (i - 1)] = s[(k - (i - 1)) + i]
                  BY <1>8, <3>1
            <3>5. ~(k < i)
                  BY <1>5, <2>2
            <3>. QED
                  BY <3>2, <3>3, <3>4, <3>5
      <2>. QED
            BY <1>5, <2>1, <2>2
<1>. QED
      BY <1>3, <1>4, <1>6, <1>7

LEMMA BodyFacts ==
    ASSUME NEW v \in Versions
    PROVE  /\ Length[v] \in Nat \ {0}
           /\ Body(v) \in Seq(Units) /\ Len(Body(v)) = Length[v]
           /\ \A u \in 1 .. Length[v] : Body(v)[u] = <<v, u>>
BY LengthAssumption DEF Body, Units

LEMMA PartFacts ==
    ASSUME NEW v \in Versions, NEW a \in Nat, NEW b \in a .. Length[v]
    PROVE  /\ SubSeq(Body(v), a + 1, b) \in Seq(Units)
           /\ Len(SubSeq(Body(v), a + 1, b)) = b - a
           /\ \A k \in 1 .. b - a : SubSeq(Body(v), a + 1, b)[k] = <<v, a + k>>
<1>1. b \in 0 .. Length[v] /\ Length[v] \in Nat
      BY BodyFacts
<1>2. /\ SubSeq(Body(v), a + 1, b) \in Seq(Units)
      /\ Len(SubSeq(Body(v), a + 1, b)) = b - a
      /\ \A k \in 1 .. b - a : SubSeq(Body(v), a + 1, b)[k] = Body(v)[a + k]
      BY <1>1, BodyFacts, SubSeqProperties
<1>3. \A k \in 1 .. b - a : a + k \in 1 .. Length[v]
      BY <1>1
<1>. QED
      BY <1>2, <1>3, BodyFacts

\* A sequence of a representation's units, each in its place, is its body.
LEMMA BodyUnits ==
    ASSUME NEW v \in Versions, NEW p \in Seq(Units), Len(p) = Length[v],
           \A u \in 1 .. Len(p) : p[u] = <<v, u>>
    PROVE  p = Body(v)
BY LengthAssumption DEF Body, Units

LEMMA TagFacts ==
    ASSUME NEW v \in Versions
    PROVE  /\ <<Content, TagOf(v)>> \in Signatures
           /\ \A w \in Versions : TagOf(w) = TagOf(v) => w = v \/ {v, w} \cap tagged = {}
BY NoneAssumption DEF TagOf, Signatures, Content

-----------------------------------------------------------------------------
(* What the device answers                                                 *)

LEMMA WholeGenuine ==
    ASSUME TypeOK, NEW q \in Requests
    PROVE  Whole(q) \in Answers /\ Genuine(Whole(q)) /\ Whole(q).mid = q.mid
<1>1. /\ version \in Versions /\ Shown(version) /\ q.mid \in Nat \ {0}
      BY DEF TypeOK, Shown, Requests
<1>2. <<Content, TagOf(version)>> \in Signatures /\ Body(version) \in Seq(Units)
      BY <1>1, BodyFacts, TagFacts
<1>. QED
      BY <1>1, <1>2 DEF Whole, Answers, Genuine

LEMMA SliceGenuine ==
    ASSUME TypeOK, NEW q \in Requests
    PROVE  /\ Slice(q) \in Answers /\ Genuine(Slice(q)) /\ Slice(q).mid = q.mid
           /\ Slice(q).block # None =>
                 Slice(q).block.num * Slice(q).block.size =
                    IF q.asked = None THEN 0 ELSE q.asked.num * q.asked.size
<1> DEFINE s == IF q.asked = None \/ size < q.asked.size THEN size ELSE q.asked.size
           from == IF q.asked = None THEN 0 ELSE q.asked.num * q.asked.size
           to == IF from + s < Length[version] THEN from + s ELSE Length[version]
<1>1. /\ q.mid \in Nat \ {0} /\ q.asked \in Asks \cup {None}
      /\ size \in Sizes /\ version \in Versions /\ Length[version] \in Nat \ {0}
      /\ Shown(version)
      BY BodyFacts DEF TypeOK, Requests, Shown
<1>2. s \in Sizes /\ s \in Nat \ {0} /\ from \in Nat /\ \E k \in Nat : from = k * s
      <2>1. CASE q.asked = None
            <3>1. s = size /\ from = 0 /\ s \in Nat \ {0}
                  BY <1>1, <2>1, SizesAssumption
            <3>2. 0 * s = 0
                  BY <3>1
            <3>. QED
                  BY <1>1, <3>1, <3>2
      <2>2. CASE q.asked # None
            <3> DEFINE n == q.asked.num  z == q.asked.size
            <3>1. n \in Nat /\ z \in Sizes /\ z \in Nat \ {0} /\ size \in Nat \ {0}
                  BY <1>1, <2>2, SizesAssumption DEF Asks
            <3>2. from = n * z /\ s = IF size < z THEN size ELSE z
                  BY <2>2
            <3> HIDE DEF n, z, from, s
            <3>3. s \in Sizes /\ s \in Nat \ {0} /\ s <= z
                  BY <1>1, <3>1, <3>2
            <3>4. z % s = 0
                  BY <3>1, <3>3, SizesAssumption
            <3>5. PICK k \in Nat : z = k * s
                  BY <3>1, <3>3, <3>4, DivExact
            <3>6. from = (n * k) * s /\ n * k \in Nat /\ from \in Nat
                  BY <3>1, <3>2, <3>3, <3>5, ProductAssoc
            <3>. QED
                  BY <3>3, <3>6
      <2>. QED
            BY <2>1, <2>2
<1>3. Slice(q) = IF from >= Length[version]
                 THEN [kind |-> "answer", mid |-> q.mid, sig |-> <<"4.00", None>>, block |-> None,
                       payload |-> <<>>]
                 ELSE [kind |-> "answer", mid |-> q.mid, sig |-> <<Content, TagOf(version)>>,
                       block |-> [num |-> from \div s, size |-> s, more |-> to < Length[version]],
                       payload |-> SubSeq(Body(version), from + 1, to)]
      BY DEF Slice
<1>6. to = IF from + s < Length[version] THEN from + s ELSE Length[version]
      OBVIOUS
<1> HIDE DEF s, from, to
<1>4. CASE from >= Length[version]
      <2>1. <<"4.00", None>> \in Signatures /\ <<>> \in Seq(Units)
            BY EmptySeq DEF Signatures
      <2>. QED
            BY <1>1, <1>3, <1>4, <2>1 DEF Answers, Genuine
<1>5. CASE from < Length[version]
      <2>1. PICK k \in Nat : from = k * s
            BY <1>2
      <2>2. from \div s = k /\ k * s = from /\ (k + 1) * s = from + s
            BY <1>2, <2>1, DivMultiple, ProductAssoc
      <2>3. to \in from .. Length[version]
            BY <1>1, <1>2, <1>5, <1>6
      <2>4. SubSeq(Body(version), from + 1, to) \in Seq(Units)
            BY <1>1, <1>2, <2>3, PartFacts
      <2>5. <<Content, TagOf(version)>> \in Signatures
            BY <1>1, TagFacts
      <2> DEFINE b == [num |-> k, size |-> s, more |-> to < Length[version]]
                 r == [kind |-> "answer", mid |-> q.mid, sig |-> <<Content, TagOf(version)>>,
                       block |-> b, payload |-> SubSeq(Body(version), from + 1, to)]
      <2>6. Slice(q) = r
            <3>1. ~(from >= Length[version])
                  BY <1>1, <1>2, <1>5
            <3>. QED
                  BY <1>3, <2>2, <3>1
      <2>7. b \in Options /\ b.num * b.size = from /\ (b.num + 1) * b.size = from + s
            BY <1>2, <2>2 DEF Options
      <2>8. b.more <=> from + s < Length[version]
            <3>1. b.more <=> to < Length[version]
                  OBVIOUS
            <3>. QED
                  BY <1>1, <1>2, <1>6, <3>1
      <2>9. End(version, b) = to
            BY <1>6, <2>7 DEF End
      <2>10. r \in Answers
            BY <1>1, <2>4, <2>5, <2>7 DEF Answers
      <2> HIDE DEF b
      <2>11. Genuine(r)
            BY <1>1, <1>5, <2>7, <2>8, <2>9 DEF Genuine
      <2>12. r.block.num * r.block.size = from /\ r.mid = q.mid
            BY <2>7
      <2>. QED
            BY <2>6, <2>10, <2>11, <2>12 DEF from
<1>. QED
      BY <1>1, <1>2, <1>4, <1>5

\* What the device sends for one request.
LEMMA ServedSequences ==
    ASSUME TypeOK, NEW q \in Requests, NEW r \in {Whole(q), Slice(q)},
           NEW answer \in {<<r>>, <<[kind |-> "ack", mid |-> q.mid], r>>,
                           <<[kind |-> "reset", mid |-> q.mid]>>, <<>>,
                           <<[kind |-> "ack", mid |-> q.mid]>>}
    PROVE  /\ answer \in Seq(Empties \cup Answers)
           /\ \A i \in 1 .. Len(answer) : /\ answer[i].mid = q.mid
                                          /\ answer[i] \in Empties \/ answer[i] = r
           /\ r \in Answers /\ Genuine(r)
<1>1. r \in Answers /\ Genuine(r) /\ r.mid = q.mid
      BY WholeGenuine, SliceGenuine
<1>2. /\ [kind |-> "ack", mid |-> q.mid] \in Empties /\ [kind |-> "reset", mid |-> q.mid] \in Empties
      BY DEF Empties, Requests
<1> DEFINE a == [kind |-> "ack", mid |-> q.mid]  e == [kind |-> "reset", mid |-> q.mid]
<1>3. a.mid = q.mid /\ e.mid = q.mid /\ a \in Empties /\ e \in Empties
      BY <1>2
<1>4. answer \in {<<r>>, <<a, r>>, <<e>>, <<>>, <<a>>}
      OBVIOUS
<1> HIDE DEF a, e
<1>5. answer \in Seq(Empties \cup Answers)
      <2> DEFINE T == Empties \cup Answers
      <2>1. a \in T /\ e \in T /\ r \in T
            BY <1>1, <1>3
      <2> HIDE DEF T
      <2>2. <<a, r>> \in Seq(T) /\ <<r>> \in Seq(T) /\ <<e>> \in Seq(T) /\ <<a>> \in Seq(T)
            BY <2>1
      <2>3. <<>> \in Seq(T)
            OBVIOUS
      <2>4. answer \in Seq(T)
            BY <1>4, <2>2, <2>3
      <2>. QED
            BY <2>4 DEF T
<1>6. ASSUME NEW i \in 1 .. Len(answer)
      PROVE  answer[i].mid = q.mid /\ (answer[i] \in Empties \/ answer[i] = r)
      <2>1. CASE answer = <<a, r>>
            BY <1>1, <1>3, <2>1
      <2>2. CASE answer = <<r>>
            BY <1>1, <2>2
      <2>3. CASE answer \in {<<e>>, <<a>>}
            BY <1>3, <2>3
      <2>. QED
            BY <1>4, <2>1, <2>2, <2>3
<1>. QED
      BY <1>1, <1>5, <1>6

-----------------------------------------------------------------------------
(* What is assembled                                                       *)

Safe == TypeOK /\ AllGenuine /\ Assembled /\ WholeBody /\ BoundedAndContiguous /\ Timed

\* Time passes towards the ends of a block and of the request.
LEMMA WithinFacts ==
    ASSUME NEW t \in 0 .. Total
    PROVE  /\ Within(t) \in 0 .. Window /\ Within(t) <= t /\ Window \in Nat
           /\ Within(t) = IF t < Window THEN t ELSE Window
BY TimeAssumption DEF Within, Window

LEMMA TickFacts ==
    ASSUME TypeOK, Timed, Tick
    PROVE  /\ due' \in 0 .. Timeout /\ window' \in 0 .. Window /\ left' \in 0 .. Total
           /\ Timed'
<1> DEFINE w3 == Window
<1>1. /\ due \in 0 .. Timeout /\ window \in 0 .. w3 /\ left \in 0 .. Total
      /\ w3 = 3 * Timeout /\ Timeout \in Nat \ {0} /\ Total \in Nat
      /\ window > 0 /\ ~(sent < 2 /\ ~acked /\ due = 0)
      /\ left' = left - 1 /\ window' = window - 1 /\ due' = IF due = 0 THEN 0 ELSE due - 1
      /\ UNCHANGED <<sent, acked>> /\ window <= left /\ sent \in 0 .. 2
      BY TimeAssumption DEF TypeOK, Timed, Tick, Goes, MustSend, Window
<1>2. window < left =>
       \/ acked \/ sent = 2
       \/ sent = 0 /\ due = 0 /\ window = w3
       \/ sent = 1 /\ window = due + 2 * Timeout
      BY DEF Timed
<1>3. UNCHANGED w3
      BY DEF Window
<1> HIDE DEF w3
<1>4. due' \in 0 .. Timeout /\ window' \in 0 .. w3 /\ left' \in 0 .. Total /\ window' <= left'
      BY <1>1
<1>5. ASSUME window' < left', ~acked, sent # 2
      PROVE  sent = 1 /\ window' = due' + 2 * Timeout
      BY <1>1, <1>2, <1>5
<1>. QED
      BY <1>1, <1>4, <1>5 DEF Timed, w3

LEMMA EndFacts ==
    ASSUME NEW v \in Versions, NEW b \in Options, b.num * b.size < Length[v]
    PROVE  /\ b.num * b.size \in Nat /\ (b.num + 1) * b.size = b.num * b.size + b.size
           /\ b.size \in Nat \ {0}
           /\ End(v, b) \in b.num * b.size .. Length[v]
           /\ End(v, b) = IF (b.num + 1) * b.size < Length[v]
                          THEN (b.num + 1) * b.size ELSE Length[v]
<1>1. b.num \in Nat /\ b.size \in Nat \ {0} /\ Length[v] \in Nat
      BY SizesAssumption, BodyFacts DEF Options
<1>2. b.num * b.size \in Nat /\ (b.num + 1) * b.size = b.num * b.size + b.size
      BY <1>1, ProductAssoc
<1>. QED
      BY <1>1, <1>2 DEF End

\* What payload adds to the parts so far, if it is a part of v that begins where
\* they end.
LEMMA UnitsInPlace ==
    ASSUME Safe, NEW v \in Versions, NEW to \in Len(parts) .. Length[v], NEW p \in Seq(Units),
           Shown(v), signature \in {None, <<Content, TagOf(v)>>},
           p = parts \o SubSeq(Body(v), Len(parts) + 1, to)
    PROVE  /\ Len(p) = to
           /\ \A u \in 1 .. Len(p) :
                 \E w \in Versions : Shown(w) /\ TagOf(w) = TagOf(v) /\ p[u] = <<w, u>>
<1> DEFINE n == Len(parts)  add == SubSeq(Body(v), n + 1, to)
<1>1. parts \in Seq(Units) /\ n \in Nat /\ to \in Nat /\ n <= to
      BY BodyFacts DEF Safe, TypeOK
<1>2. /\ add \in Seq(Units) /\ Len(add) = to - n
      /\ \A k \in 1 .. to - n : add[k] = <<v, n + k>>
      BY <1>1, PartFacts
<1>3. p = parts \o add
      OBVIOUS
<1>4. \A u \in 1 .. n : \E w \in Versions : Shown(w) /\ TagOf(w) = TagOf(v) /\ parts[u] = <<w, u>>
      <2>1. CASE signature = None
            <3>1. n = 0
                  BY <2>1 DEF Safe, Assembled
            <3>. QED
                  BY <3>1
      <2>2. CASE signature = <<Content, TagOf(v)>>
            <3>1. signature[2] = TagOf(v) /\ signature # None
                  BY <2>2, NoneAssumption, TagFacts
            <3>. QED
                  BY <3>1 DEF Safe, Assembled
      <2>. QED
            BY <2>1, <2>2
<1>. HIDE DEF add
<1>5. /\ p \in Seq(Units) /\ Len(p) = n + Len(add)
      /\ \A u \in 1 .. n + Len(add) : p[u] = IF u <= n THEN parts[u] ELSE add[u - n]
      <2>1. /\ parts \o add \in Seq(Units) /\ Len(parts \o add) = n + Len(add)
            /\ \A u \in 1 .. n + Len(add) :
                  (parts \o add)[u] = IF u <= n THEN parts[u] ELSE add[u - n]
            BY <1>1, <1>2, ConcatProperties
      <2>. QED
            BY <1>3, <2>1
<1>. HIDE DEF n
<1>6. Len(p) = to
      BY <1>1, <1>2, <1>5
<1>7. ASSUME NEW u \in 1 .. Len(p)
      PROVE  \E w \in Versions : Shown(w) /\ TagOf(w) = TagOf(v) /\ p[u] = <<w, u>>
      <2>1. CASE u <= n
            <3>1. u \in 1 .. n /\ p[u] = parts[u]
                  BY <1>1, <1>2, <1>5, <1>6, <2>1
            <3>. QED
                  BY <1>4, <3>1
      <2>2. CASE ~(u <= n)
            <3>0. n \in Nat /\ to \in Nat /\ u \in 1 .. to /\ n + Len(add) = to
                  BY <1>1, <1>5, <1>6
            <3>1. u - n \in 1 .. to - n /\ p[u] = add[u - n] /\ n + (u - n) = u
                  <4>1. u \in 1 .. n + Len(add)
                        BY <3>0
                  <4>2. p[u] = add[u - n]
                        BY <1>5, <2>2, <4>1
                  <4>3. u - n \in 1 .. to - n /\ n + (u - n) = u
                        BY <2>2, <3>0
                  <4>. QED
                        BY <4>2, <4>3
            <3>2. p[u] = <<v, u>>
                  BY <1>2, <3>1
            <3>. QED
                  BY <3>2
      <2>. QED
            BY <2>1, <2>2
<1>. QED
      BY <1>5, <1>6, <1>7

LEMMA AnswerAccepted ==
    ASSUME Safe, NEW r \in Answers, Genuine(r), Acceptable(r),
           NEW p, p = parts \o r.payload
    PROVE  /\ p \in Seq(Units) /\ Len(p) <= MaxUnits /\ count + 1 <= MaxBlocks
           /\ \A u \in 1 .. Len(p) :
                 \E w \in Versions : Shown(w) /\ TagOf(w) = r.sig[2] /\ p[u] = <<w, u>>
           /\ r.sig[1] # Content => p = <<>>
           /\ r.block = None \/ ~r.block.more =>
                 p = <<>> \/ \E v \in Versions : Shown(v) /\ TagOf(v) = r.sig[2] /\ Len(p) = Length[v]
           /\ r.block # None => Len(p) > r.block.num * r.block.size
           /\ r.block # None /\ r.block.more => Len(p) = (r.block.num + 1) * r.block.size
<1>1. /\ parts \in Seq(Units) /\ r.payload \in Seq(Units) /\ count \in Nat
      /\ MaxUnits \in Nat /\ MaxBlocks \in Nat \ {0} /\ r.block \in Options \cup {None}
      /\ r.sig \in Signatures
      BY LimitAssumption DEF Safe, TypeOK, Answers
<1>2. p \in Seq(Units) /\ Len(p) = Len(parts) + Len(r.payload)
      BY <1>1, ConcatProperties
<1>3. Len(p) <= MaxUnits /\ count + 1 <= MaxBlocks
      BY <1>1, <1>2 DEF Acceptable, WithinBudget
<1>4. signature \in {None, r.sig} /\ (signature = None <=> count = 0) /\ (count = 0 => parts = <<>>)
      BY DEF Acceptable, SameRepresentation, Safe, Assembled
<1>5. CASE r.sig = <<"4.00", None>> /\ r.block = None /\ r.payload = <<>>
      <2>1. p = <<>>
            BY <1>1, <1>4, <1>5, ConcatEmptySeq DEF Acceptable
      <2>2. Len(p) = 0
            BY <2>1
      <2>. QED
            BY <1>2, <1>3, <1>5, <2>1, <2>2 DEF Content
<1>8. CASE \E v \in Versions :
             Shown(v) /\ r.sig = <<Content, TagOf(v)>> /\ r.block = None /\ r.payload = Body(v)
      <2>1. PICK v \in Versions :
             Shown(v) /\ r.sig = <<Content, TagOf(v)>> /\ r.block = None /\ r.payload = Body(v)
            BY <1>8
      <2>2. /\ p = Body(v) /\ Len(p) = Length[v] /\ Length[v] \in Nat
            /\ \A u \in 1 .. Length[v] : p[u] = <<v, u>>
            BY <1>1, <1>4, <2>1, ConcatEmptySeq, BodyFacts DEF Acceptable
      <2>3. r.sig[1] = Content /\ r.sig[2] = TagOf(v)
            BY <2>1
      <2>4. \A u \in 1 .. Len(p) :
               \E w \in Versions : Shown(w) /\ TagOf(w) = r.sig[2] /\ p[u] = <<w, u>>
            BY <2>1, <2>2, <2>3
      <2>. QED
            BY <1>2, <1>3, <2>1, <2>2, <2>3, <2>4
<1>9. CASE \E v \in Versions :
             /\ Shown(v) /\ r.sig = <<Content, TagOf(v)>> /\ r.block \in Options
             /\ r.block.num * r.block.size < Length[v]
             /\ r.block.more <=> (r.block.num + 1) * r.block.size < Length[v]
             /\ r.payload = SubSeq(Body(v), r.block.num * r.block.size + 1, End(v, r.block))
      <2>1. PICK v \in Versions :
             /\ Shown(v) /\ r.sig = <<Content, TagOf(v)>> /\ r.block \in Options
             /\ r.block.num * r.block.size < Length[v]
             /\ r.block.more <=> (r.block.num + 1) * r.block.size < Length[v]
             /\ r.payload = SubSeq(Body(v), r.block.num * r.block.size + 1, End(v, r.block))
            BY <1>9
      <2> DEFINE from == r.block.num * r.block.size  to == End(v, r.block)
      <2>2. /\ from \in Nat /\ to \in from .. Length[v] /\ Length[v] \in Nat
            /\ r.block.size \in Nat \ {0} /\ (r.block.num + 1) * r.block.size = from + r.block.size
            /\ to = IF from + r.block.size < Length[v] THEN from + r.block.size ELSE Length[v]
            BY <2>1, EndFacts, BodyFacts
      <2>3. r.block # None /\ Len(parts) = from
            BY <2>1, NoneAssumption DEF Acceptable, Contiguous
      <2>4. p = parts \o SubSeq(Body(v), Len(parts) + 1, to) /\ from < Length[v]
            BY <2>1, <2>3
      <2>5. r.block.more <=> from + r.block.size < Length[v]
            BY <2>1, <2>2
      <2> DEFINE n == Len(parts)
      <2> HIDE DEF from, to
      <2>10. to \in n .. Length[v]
            BY <2>2, <2>3
      <2>6. /\ Len(p) = to
            /\ \A u \in 1 .. Len(p) :
                  \E w \in Versions : Shown(w) /\ TagOf(w) = r.sig[2] /\ p[u] = <<w, u>>
            <3>1. signature \in {None, <<Content, TagOf(v)>>}
                  BY <1>4, <2>1
            <3>2. /\ Len(p) = to
                  /\ \A u \in 1 .. Len(p) :
                        \E w \in Versions : Shown(w) /\ TagOf(w) = TagOf(v) /\ p[u] = <<w, u>>
                  BY <1>2, <2>1, <2>4, <2>10, <3>1, UnitsInPlace
            <3>3. r.sig[2] = TagOf(v)
                  BY <2>1
            <3>. QED
                  BY <3>2, <3>3
      <2>7. to > from /\ (r.block.more => to = from + r.block.size) /\ (~r.block.more => to = Length[v])
            <3> DEFINE z == r.block.size  L == Length[v]
            <3>1. /\ from \in Nat /\ L \in Nat /\ z \in Nat \ {0} /\ from < L
                  /\ to = IF from + z < L THEN from + z ELSE L
                  /\ r.block.more <=> from + z < L
                  BY <2>2, <2>4, <2>5
            <3> HIDE DEF z, L
            <3>2. to > from /\ (from + z < L => to = from + z) /\ (~(from + z < L) => to = L)
                  BY <3>1
            <3>. QED
                  BY <3>1, <3>2 DEF z, L
      <2>8. r.sig[1] = Content /\ r.sig[2] = TagOf(v)
            BY <2>1
      <2>9. /\ Len(p) > r.block.num * r.block.size
            /\ r.block.more => Len(p) = (r.block.num + 1) * r.block.size
            BY <2>2, <2>6, <2>7 DEF from
      <2>. QED
            BY <1>2, <1>3, <2>1, <2>3, <2>6, <2>7, <2>8, <2>9, ZenonT(60)
<1>. QED
      BY <1>5, <1>8, <1>9 DEF Genuine

\* Units in place up to the end of a representation are its body, or untagged
\* and of more than one.
LEMMA WholeOrMixed ==
    ASSUME Safe, NEW v \in Versions, Shown(v), NEW p \in Seq(Units), Len(p) = Length[v],
           \A u \in 1 .. Len(p) :
              \E w \in Versions : Shown(w) /\ TagOf(w) = TagOf(v) /\ p[u] = <<w, u>>
    PROVE  \/ p = Body(v)
           \/ /\ upsets > 0 /\ v \in Versions \ tagged
              /\ \A u \in 1 .. Len(p) : \E w \in Versions \ tagged : p[u] = <<w, u>>
<1>1. CASE upsets = 0 \/ v \in tagged
      <2>1. \A u \in 1 .. Len(p) : p[u] = <<v, u>>
            BY <1>1, TagFacts DEF Shown
      <2>. QED
            BY <2>1, BodyUnits
<1>2. CASE upsets # 0 /\ v \notin tagged
      <2>1. upsets > 0
            BY <1>2 DEF Safe, TypeOK
      <2>2. \A w \in Versions : TagOf(w) = TagOf(v) => w \in Versions \ tagged
            BY <1>2, TagFacts
      <2>. QED
            BY <1>2, <2>1, <2>2
<1>. QED
      BY <1>1, <1>2

\* What a step may do to what the device shows.
Onward ==
  /\ tagged' = tagged /\ upsets' \in Nat /\ upsets' >= upsets
  /\ upsets' = 0 => version' = version

LEMMA WholeEnd ==
    ASSUME Safe, Onward, parts' \in Seq(Units), NEW tag,
           \A u \in 1 .. Len(parts') :
              \E w \in Versions : Shown(w) /\ TagOf(w) = tag /\ parts'[u] = <<w, u>>,
           \/ parts' = <<>>
           \/ \E v \in Versions : Shown(v) /\ TagOf(v) = tag /\ Len(parts') = Length[v]
    PROVE  WholeBody'
<1>1. CASE parts' = <<>>
      BY <1>1 DEF WholeBody
<1>2. CASE \E v \in Versions : Shown(v) /\ TagOf(v) = tag /\ Len(parts') = Length[v]
      <2>1. PICK v \in Versions : Shown(v) /\ TagOf(v) = tag /\ Len(parts') = Length[v]
            BY <1>2
      <2>2. \/ parts' = Body(v)
            \/ /\ upsets > 0 /\ v \in Versions \ tagged
               /\ \A u \in 1 .. Len(parts') : \E w \in Versions \ tagged : parts'[u] = <<w, u>>
            BY <2>1, WholeOrMixed
      <2>3. tagged' = tagged /\ (upsets > 0 => upsets' > 0)
            BY DEF Onward, Safe, TypeOK
      <2>. QED
            BY <2>1, <2>2, <2>3 DEF WholeBody, Mixed, Body
<1>. QED
      BY <1>1, <1>2

LEMMA OnwardStep ==
    ASSUME Safe, [Next]_vars
    PROVE  Onward
<1>1. upsets \in Nat
      BY DEF Safe, TypeOK
<1>2. CASE Change
      BY <1>1, <1>2 DEF Change, Onward
<1>3. CASE UNCHANGED <<version, tagged>> /\ (upsets' = upsets \/ \E i \in Nat : Overtakes(i))
      BY <1>1, <1>3 DEF Overtakes, Onward
<1>4. CASE Serve \/ Receive
      <2>1. ASSUME Serve PROVE \E i \in Nat : Overtakes(i)
            <3>1. PICK i \in 1 .. Len(requests) : Overtakes(i)
                  BY <2>1 DEF Serve
            <3>2. i \in Nat
                  OBVIOUS
            <3>. QED
                  BY <3>1, <3>2
      <2>2. ASSUME Receive PROVE \E i \in Nat : Overtakes(i)
            <3>1. PICK i \in 1 .. Len(replies) : Overtakes(i)
                  BY <2>2 DEF Receive
            <3>2. i \in Nat
                  OBVIOUS
            <3>. QED
                  BY <3>1, <3>2
      <2>3. \E i \in Nat : Overtakes(i)
            BY <1>4, <2>1, <2>2
      <2>. QED
            BY <1>3, <1>4, <2>3 DEF Serve, Receive, device
<1>5. CASE Send \/ Stray \/ Budget \/ Tick \/ TimesOut \/ SocketError
      BY <1>3, <1>5 DEF Send, Stray, Budget, Tick, TimesOut, SocketError, device
<1>6. CASE UNCHANGED vars
      BY <1>3, <1>6 DEF vars, device
<1>. QED
      BY <1>2, <1>4, <1>5, <1>6 DEF Next

LEMMA TimedStep ==
    ASSUME Safe, [Next]_vars
    PROVE  Timed'
<1> DEFINE w3 == Window
<1>1. /\ due \in 0 .. Timeout /\ window \in 0 .. w3 /\ left \in 0 .. Total /\ sent \in 0 .. 2
      /\ w3 = 3 * Timeout /\ Timeout \in Nat \ {0} /\ Total \in Nat
      /\ window <= left /\ w3' = w3
      BY TimeAssumption DEF Safe, TypeOK, Timed, Window
<1>2. window < left =>
       \/ acked \/ sent = 2
       \/ sent = 0 /\ due = 0 /\ window = w3
       \/ sent = 1 /\ window = due + 2 * Timeout
      BY DEF Safe, Timed
<1> HIDE DEF w3
<1>3. CASE UNCHANGED <<sent, window, left, due>> /\ (acked => acked')
      BY <1>1, <1>2, <1>3 DEF Timed, w3
<1>4. CASE Tick
      BY <1>4, TickFacts DEF Safe
<1>5. CASE Send
      <2>1. /\ sent' = sent + 1 /\ due' = Timeout /\ sent < 2 /\ due = 0
            /\ UNCHANGED <<window, left, acked>>
            BY <1>5 DEF Send, MustSend
      <2>2. window' < left' => acked' \/ sent' = 2 \/ (sent' = 1 /\ window' = due' + 2 * Timeout)
            BY <1>1, <1>2, <2>1
      <2>. QED
            BY <1>1, <2>1, <2>2 DEF Timed
<1>6. CASE sent' = 0 /\ due' = 0 /\ window' = Within(left) /\ left' = left
      <2>1. window' <= left' /\ (window' < left' => window' = w3)
            BY <1>1, <1>6, WithinFacts DEF w3
      <2>. QED
            BY <1>1, <1>6, <2>1 DEF Timed, w3
<1>7. CASE Receive
      <2>1. left' = left
            BY <1>7 DEF Receive
      <2>2. PICK i \in 1 .. Len(replies) :
              IF replies[i].kind = "answer" THEN Answer(replies[i]) ELSE Empty(replies[i])
            BY <1>7 DEF Receive
      <2>3. CASE replies[i].kind # "answer"
            <3>1. Empty(replies[i])
                  BY <2>2, <2>3
            <3>. QED
                  BY <1>3, <2>1, <3>1 DEF Empty
      <2>4. CASE replies[i].kind = "answer"
            <3>1. UNCHANGED exchange \/ AskNext(replies[i])
                  BY <2>2, <2>4 DEF Answer, Fails
            <3>. QED
                  BY <1>3, <1>6, <2>1, <3>1 DEF AskNext, exchange
      <2>. QED
            BY <2>3, <2>4
<1>8. CASE Serve \/ Change \/ Stray \/ Budget \/ TimesOut \/ SocketError \/ UNCHANGED vars
      BY <1>3, <1>8 DEF Serve, Change, Stray, Budget, TimesOut, SocketError, Fails, vars, exchange
<1>. QED
      BY <1>4, <1>5, <1>7, <1>8 DEF Next

LEMMA ShownKept ==
    ASSUME Safe, Onward, NEW v \in Versions, Shown(v)
    PROVE  Shown(v)' /\ TagOf(v)' = TagOf(v)
BY DEF Safe, TypeOK, Onward, Shown, TagOf

LEMMA GenuineKept ==
    ASSUME Safe, Onward
    PROVE  \A r : Genuine(r) => Genuine(r)'
<1> SUFFICES ASSUME NEW r, Genuine(r) PROVE Genuine(r)'
    OBVIOUS
<1>1. CASE r.sig = <<"4.00", None>> /\ r.block = None /\ r.payload = <<>>
      BY <1>1 DEF Genuine
<1>2. CASE \E v \in Versions :
        /\ Shown(v) /\ r.sig = <<Content, TagOf(v)>>
        /\ \/ r.block = None /\ r.payload = Body(v)
           \/ /\ r.block \in Options
              /\ r.block.num * r.block.size < Length[v]
              /\ r.block.more <=> (r.block.num + 1) * r.block.size < Length[v]
              /\ r.payload = SubSeq(Body(v), r.block.num * r.block.size + 1, End(v, r.block))
      <2>1. PICK v \in Versions :
        /\ Shown(v) /\ r.sig = <<Content, TagOf(v)>>
        /\ \/ r.block = None /\ r.payload = Body(v)
           \/ /\ r.block \in Options
              /\ r.block.num * r.block.size < Length[v]
              /\ r.block.more <=> (r.block.num + 1) * r.block.size < Length[v]
              /\ r.payload = SubSeq(Body(v), r.block.num * r.block.size + 1, End(v, r.block))
            BY <1>2
      <2>2. Shown(v)' /\ TagOf(v)' = TagOf(v)
            BY <2>1, ShownKept
      <2>3. r.sig = <<Content, TagOf(v)'>>
            BY <2>1, <2>2
      <2>. QED
            BY <2>1, <2>2, <2>3, ZenonT(60) DEF Genuine, Body, End
<1>. QED
      BY <1>1, <1>2 DEF Genuine

\* A step that leaves the blocks as they are and asks for nothing new.
LEMMA BlocksKept ==
    ASSUME Safe, Onward, TypeOK', Timed', AllGenuine', UNCHANGED <<asked, blocks, complete>>,
           Running' => Running
    PROVE  Safe'
<1>1. UNCHANGED <<asked, parts, count, signature, last, complete, tagged>>
      BY DEF blocks, Onward
<1>2. Assembled'
      <2>1. ASSUME NEW u \in 1 .. Len(parts), signature # None
            PROVE  \E w \in Versions : Shown(w)' /\ TagOf(w)' = signature[2] /\ parts[u] = <<w, u>>
            <3>1. PICK w \in Versions : Shown(w) /\ TagOf(w) = signature[2] /\ parts[u] = <<w, u>>
                  BY <2>1 DEF Safe, Assembled
            <3>. QED
                  BY <3>1, ShownKept
      <2>. QED
            BY <1>1, <2>1 DEF Safe, Assembled, Running
<1>3. WholeBody'
      <2>1. upsets > 0 => upsets' > 0
            BY DEF Onward, Safe, TypeOK
      <2>. QED
            BY <1>1, <2>1 DEF Safe, WholeBody, Mixed, Body
<1>4. BoundedAndContiguous'
      BY <1>1 DEF Safe, BoundedAndContiguous
<1>. QED
      BY <1>2, <1>3, <1>4 DEF Safe

LEMMA ServeSafe ==
    ASSUME Safe, Serve
    PROVE  Safe'
<1>1. PICK i \in 1 .. Len(requests) :
        LET q == requests[i]
            r == IF q.asked = None /\ ~blockwise THEN Whole(q) ELSE Slice(q)
            ack == [kind |-> "ack", mid |-> q.mid]
        IN
        /\ requests' = RemoveAt(requests, i)
        /\ Overtakes(i)
        /\ \/ /\ \E answer \in {<<r>>, <<ack, r>>, <<[kind |-> "reset", mid |-> q.mid]>>} :
                   replies' = replies \o answer
              /\ UNCHANGED lost
           \/ /\ \E answer \in {<<>>, <<ack>>} : replies' = replies \o answer
              /\ Losing(q.mid)
      BY DEF Serve
<1> DEFINE q == requests[i]
           r == IF q.asked = None /\ ~blockwise THEN Whole(q) ELSE Slice(q)
           ack == [kind |-> "ack", mid |-> q.mid]
<1>2. q \in Requests /\ r \in {Whole(q), Slice(q)} /\ requests \in Seq(Requests)
      BY ElementOfSeq DEF Safe, TypeOK
<1>3. PICK answer \in {<<r>>, <<ack, r>>, <<[kind |-> "reset", mid |-> q.mid]>>, <<>>, <<ack>>} :
        replies' = replies \o answer
      BY <1>1
<1>4. lost' \in Nat /\ upsets' \in Nat
      BY <1>1 DEF Losing, Overtakes, Safe, TypeOK
<1>5. requests' \in Seq(Requests)
      BY <1>1, <1>2, RemoveFacts
<1> HIDE DEF q, r
<1>6. /\ answer \in Seq(Empties \cup Answers)
      /\ \A k \in 1 .. Len(answer) : answer[k] \in Empties \/ answer[k] = r
      /\ r \in Answers /\ Genuine(r)
      BY <1>2, <1>3, ServedSequences, ZenonT(60) DEF Safe
<1>7. /\ replies \in Seq(Empties \cup Answers)
      /\ \A k \in 1 .. Len(replies) : replies[k] \in Answers => Genuine(replies[k])
      BY DEF Safe, TypeOK, AllGenuine
<1>8. /\ replies' \in Seq(Empties \cup Answers) /\ Len(replies') = Len(replies) + Len(answer)
      /\ \A k \in 1 .. Len(replies) + Len(answer) :
            replies'[k] = IF k <= Len(replies) THEN replies[k] ELSE answer[k - Len(replies)]
      BY <1>3, <1>6, <1>7, ConcatProperties
<1>10. UNCHANGED <<device, exchange, left, blocks, received, status, complete>> /\ Onward /\ Timed'
      BY OnwardStep, TimedStep DEF Serve, Next
<1>9. AllGenuine'
      <2> SUFFICES ASSUME NEW k \in 1 .. Len(replies'), replies'[k] \in Answers
                   PROVE  Genuine(replies'[k])
          BY <1>10, GenuineKept DEF AllGenuine
      <2>1. CASE k <= Len(replies)
            <3>1. k \in 1 .. Len(replies) /\ replies'[k] = replies[k]
                  BY <1>6, <1>7, <1>8, <2>1
            <3>. QED
                  BY <1>7, <3>1
      <2>2. CASE ~(k <= Len(replies))
            <3>1. k - Len(replies) \in 1 .. Len(answer) /\ replies'[k] = answer[k - Len(replies)]
                  BY <1>6, <1>7, <1>8, <2>2
            <3>2. replies'[k] \notin Empties
                  BY DEF Answers, Empties
            <3>. QED
                  BY <1>6, <3>1, <3>2
      <2>. QED
            BY <2>1, <2>2
<1>11. TypeOK'
      BY <1>4, <1>5, <1>8, <1>10 DEF Safe, TypeOK, device, exchange, blocks
<1>. QED
      BY <1>9, <1>10, <1>11, BlocksKept DEF exchange, Running

\* The steps that neither take a datagram nor answer one.
LEMMA OtherSafe ==
    ASSUME Safe, Change \/ Send \/ Stray \/ Budget \/ Tick \/ TimesOut \/ SocketError
    PROVE  Safe'
<1>1. UNCHANGED <<asked, blocks, complete, replies>> /\ (Running' => Running) /\ Onward /\ Timed'
      <2>1. Onward /\ Timed'
            BY OnwardStep, TimedStep DEF Next
      <2>. QED
            BY <2>1 DEF Change, Send, Stray, Budget, Tick, TimesOut, SocketError, Fails, exchange,
                        blocks, Running, Goes
<1>2. AllGenuine'
      BY <1>1, GenuineKept DEF Safe, AllGenuine
<1>3. TypeOK'
      <2>1. CASE Change
            BY <2>1 DEF Change, Safe, TypeOK, exchange, blocks
      <2>2. CASE Send
            <3>1. [mid |-> mid, asked |-> asked] \in Requests
                  BY DEF Safe, TypeOK, Requests
            <3>2. Append(requests, [mid |-> mid, asked |-> asked]) \in Seq(Requests)
                  BY <3>1, AppendProperties DEF Safe, TypeOK
            <3>3. requests' \in Seq(Requests)
                  BY <2>2, <3>2 DEF Send, Safe, TypeOK
            <3>4. lost' \in Nat /\ sent' \in 0 .. 2 /\ due' \in 0 .. Timeout
                  BY <2>2, TimeAssumption DEF Send, MustSend, Losing, Safe, TypeOK
            <3>. QED
                  BY <2>2, <3>3, <3>4 DEF Send, Safe, TypeOK, device, blocks
      <2>3. CASE Stray \/ Budget
            <3>1. UNCHANGED <<device, exchange, left, blocks, requests, replies>>
                  BY <2>3 DEF Stray, Budget
            <3>2. received' \in 0 .. MaxPackets
                  BY <2>3, LimitAssumption DEF Stray, Budget, Goes, Safe, TypeOK
            <3>3. /\ status' \in {"running", "response", "reset", "timeout", "socket_error",
                                 "incomplete_representation", "packet_budget_exhausted"}
                  /\ complete' \in BOOLEAN /\ lost' \in Nat /\ upsets' \in Nat
                  BY <2>3 DEF Stray, Budget, Fails, Safe, TypeOK
            <3>. QED
                  BY <3>1, <3>2, <3>3 DEF Safe, TypeOK, device, exchange, blocks
      <2>4. CASE Tick
            <3>1. due' \in 0 .. Timeout /\ window' \in 0 .. Window /\ left' \in 0 .. Total
                  BY <2>4, TickFacts DEF Safe
            <3>. QED
                  BY <2>4, <3>1 DEF Tick, Safe, TypeOK, device, blocks
      <2>5. CASE TimesOut \/ SocketError
            BY <2>5 DEF TimesOut, SocketError, Fails, Safe, TypeOK, device, exchange, blocks
      <2>. QED
            BY <2>1, <2>2, <2>3, <2>4, <2>5
<1>. QED
      BY <1>1, <1>2, <1>3, BlocksKept

\* What is left after one datagram is taken.
LEMMA DatagramTaken ==
    ASSUME Safe, Onward, NEW i \in 1 .. Len(replies), replies' = RemoveAt(replies, i), Overtakes(i)
    PROVE  /\ replies' \in Seq(Empties \cup Answers) /\ AllGenuine' /\ upsets' \in Nat
           /\ replies[i] \in Empties \cup Answers
           /\ replies[i] \in Answers => Genuine(replies[i])
           /\ Len(replies') = Len(replies) - 1
           /\ \A k \in 1 .. Len(replies) - 1 :
                 replies'[k] = IF k < i THEN replies[k] ELSE replies[k + 1]
<1>1. replies \in Seq(Empties \cup Answers) /\ AllGenuine /\ upsets \in Nat
      BY DEF Safe, TypeOK
<1>2. /\ replies' \in Seq(Empties \cup Answers) /\ Len(replies') = Len(replies) - 1
      /\ \A k \in 1 .. Len(replies) - 1 :
            replies'[k] = IF k < i THEN replies[k] ELSE replies[k + 1]
      BY <1>1, RemoveFacts
<1>3. replies[i] \in Empties \cup Answers
      BY <1>1, ElementOfSeq
<1>4. AllGenuine'
      <2> SUFFICES ASSUME NEW k \in 1 .. Len(replies'), replies'[k] \in Answers
                   PROVE  Genuine(replies'[k])
          BY GenuineKept DEF AllGenuine
      <2>1. Len(replies) \in Nat
            BY <1>1
      <2>2. k \in 1 .. Len(replies) /\ k + 1 \in 1 .. Len(replies) /\ k \in 1 .. Len(replies) - 1
            BY <1>2, <2>1
      <2>. QED
            BY <1>1, <1>2, <2>2 DEF AllGenuine
<1>. QED
      BY <1>1, <1>2, <1>3, <1>4 DEF Overtakes, AllGenuine

LEMMA ReceiveSafe ==
    ASSUME Safe, Receive
    PROVE  Safe'
<1>1. PICK i \in 1 .. Len(replies) :
        /\ replies' = RemoveAt(replies, i)
        /\ Overtakes(i)
        /\ IF replies[i].kind = "answer" THEN Answer(replies[i]) ELSE Empty(replies[i])
      BY DEF Receive
<1> DEFINE r == replies[i]
<1>0. Onward /\ Timed'
      BY OnwardStep, TimedStep DEF Next
<1>2. /\ replies' \in Seq(Empties \cup Answers) /\ AllGenuine' /\ upsets' \in Nat
      /\ r \in Empties \cup Answers /\ (r \in Answers => Genuine(r))
      BY <1>0, <1>1, DatagramTaken
<1>3. /\ Running /\ received' \in 0 .. MaxPackets /\ UNCHANGED <<device, requests, left>>
      BY LimitAssumption DEF Receive, Goes, Safe, TypeOK
<1>4. IF r.kind = "answer" THEN Answer(r) ELSE Empty(r)
      BY <1>1
<1> HIDE DEF r
<1>5. CASE r.kind # "answer"
      <2>1. UNCHANGED <<mid, asked, sent, due, window, blocks, complete, lost>>
            BY <1>4, <1>5 DEF Empty
      <2>2. TypeOK'
            BY <1>2, <1>3, <1>4, <1>5, <2>1 DEF Empty, Safe, TypeOK, device, blocks
      <2>. QED
            BY <1>0, <1>2, <1>3, <2>1, <2>2, BlocksKept
<1>6. CASE r.kind = "answer"
      <2>1. r \in Answers /\ Genuine(r) /\ Answer(r)
            BY <1>2, <1>4, <1>6 DEF Empties
      <2>2. CASE UNCHANGED <<blocks, exchange, complete, status, lost>>
            <3>1. TypeOK'
                  BY <1>2, <1>3, <2>2 DEF Safe, TypeOK, device, blocks, exchange
            <3>. QED
                  BY <1>0, <1>2, <1>3, <2>2, <3>1, BlocksKept DEF exchange
      <2>3. CASE Fails("incomplete_representation") /\ UNCHANGED blocks
            <3>1. TypeOK'
                  BY <1>2, <1>3, <2>3 DEF Fails, Safe, TypeOK, device, blocks, exchange
            <3>. QED
                  BY <1>0, <1>2, <1>3, <2>3, <3>1, BlocksKept DEF Fails, exchange
      <2>4. CASE /\ Acceptable(r)
                 /\ parts' = parts \o r.payload /\ count' = count + 1 /\ signature' = r.sig
                 /\ last' = IF r.block = None THEN last ELSE <<r.block, r.payload>>
                 /\ IF r.block # None /\ r.block.more
                    THEN AskNext(r) /\ UNCHANGED <<status, complete>>
                    ELSE /\ status' = "response" /\ complete' = TRUE
                         /\ UNCHANGED <<exchange, lost>>
            <3>1. /\ parts' \in Seq(Units) /\ Len(parts') <= MaxUnits /\ count + 1 <= MaxBlocks
                  /\ \A u \in 1 .. Len(parts') : \E w \in Versions :
                        Shown(w) /\ TagOf(w) = r.sig[2] /\ parts'[u] = <<w, u>>
                  /\ r.sig[1] # Content => parts' = <<>>
                  /\ r.block = None \/ ~r.block.more => \/ parts' = <<>>
                                                        \/ \E v \in Versions :
                                                              /\ Shown(v) /\ TagOf(v) = r.sig[2]
                                                              /\ Len(parts') = Length[v]
                  /\ r.block # None /\ r.block.more => Len(parts') = (r.block.num + 1) * r.block.size
                  <4> DEFINE p == parts \o r.payload
                  <4>1. Acceptable(r) /\ r \in Answers /\ Genuine(r) /\ p = parts \o r.payload
                        BY <2>1, <2>4
                  <4>2. parts' = p
                        BY <2>4
                  <4> HIDE DEF p
                  <4>3. /\ p \in Seq(Units) /\ Len(p) <= MaxUnits /\ count + 1 <= MaxBlocks
                        /\ \A u \in 1 .. Len(p) : \E w \in Versions :
                              Shown(w) /\ TagOf(w) = r.sig[2] /\ p[u] = <<w, u>>
                        /\ r.sig[1] # Content => p = <<>>
                        /\ r.block = None \/ ~r.block.more => \/ p = <<>>
                                                              \/ \E v \in Versions :
                                                                    /\ Shown(v) /\ TagOf(v) = r.sig[2]
                                                                    /\ Len(p) = Length[v]
                        /\ r.block # None /\ r.block.more => Len(p) = (r.block.num + 1) * r.block.size
                        BY <4>1, AnswerAccepted, ZenonT(60)
                  <4>. QED
                        BY <4>2, <4>3
            <3>2. /\ r.sig \in Signatures /\ r.sig # None /\ r.payload \in Seq(Units)
                  /\ r.block \in Options \cup {None} /\ count \in Nat /\ mid \in Nat \ {0}
                  BY <2>1, NoneAssumption DEF Answers, Safe, TypeOK
            <3>6. /\ signature' # None /\ count' # 0
                  /\ \A u \in 1 .. Len(parts') : \E w \in Versions :
                        Shown(w)' /\ TagOf(w)' = signature'[2] /\ parts'[u] = <<w, u>>
                  <4>1. signature' = r.sig /\ count' = count + 1
                        BY <2>4
                  <4>2. ASSUME NEW u \in 1 .. Len(parts')
                        PROVE  \E w \in Versions :
                                  Shown(w)' /\ TagOf(w)' = r.sig[2] /\ parts'[u] = <<w, u>>
                        <5>1. PICK w \in Versions :
                                 Shown(w) /\ TagOf(w) = r.sig[2] /\ parts'[u] = <<w, u>>
                              BY <3>1
                        <5>2. Shown(w)' /\ TagOf(w)' = TagOf(w)
                              BY <1>0, <5>1, ShownKept
                        <5>. QED
                              BY <5>1, <5>2
                  <4>. QED
                        BY <3>2, <4>1, <4>2
            <3>3. last' \in (Options \X Seq(Units)) \cup {None}
                  BY <2>4, <3>2 DEF Safe, TypeOK
            <3>4. CASE r.block # None /\ r.block.more
                  <4>1. /\ r.block.num \in Nat /\ r.block.size \in Sizes /\ r.block.size \in Nat \ {0}
                        BY <3>2, <3>4, SizesAssumption DEF Options
                  <4>2. Len(parts') \div r.block.size = r.block.num + 1
                        <5>1. r.block.num + 1 \in Nat
                              BY <4>1
                        <5>2. ((r.block.num + 1) * r.block.size) \div r.block.size = r.block.num + 1
                              BY <4>1, <5>1, DivMultiple
                        <5>. QED
                              BY <3>1, <3>4, <5>2
                  <4>3. /\ mid' = mid + 1
                        /\ asked' = [num |-> r.block.num + 1, size |-> r.block.size]
                        /\ sent' = 0 /\ acked' = FALSE /\ lost' = 0
                        /\ due' = 0 /\ window' = Within(left)
                        /\ UNCHANGED <<status, complete>>
                        BY <2>4, <3>4, <4>2 DEF AskNext
                  <4>4. asked' \in Asks
                        BY <4>1, <4>3 DEF Asks
                  <4>5. TypeOK'
                        <5>3. parts' \in Seq(Units) /\ signature' \in Signatures
                              BY <2>4, <3>1, <3>2
                        <5>4. count' \in Nat /\ mid' \in Nat \ {0}
                              BY <2>4, <3>2, <4>3
                        <5>6. sent' = 0 /\ lost' = 0
                              BY <4>3
                        <5>7. acked' \in BOOLEAN
                              BY <4>3
                        <5>1. sent' \in 0 .. 2 /\ acked' \in BOOLEAN /\ lost' \in Nat
                              BY <5>6, <5>7
                        <5>2. UNCHANGED <<version, size, blockwise, tagged, requests, left, status,
                                          complete>>
                              BY <1>3, <4>3 DEF device
                        <5>8. left \in 0 .. Total /\ Timeout \in Nat /\ Window' = Window
                              BY TimeAssumption DEF Safe, TypeOK, Window
                        <5>5. due' \in 0 .. Timeout /\ window' \in 0 .. Window
                              BY <4>3, <5>8, WithinFacts
                        <5>. QED
                              BY <5>5, <1>2, <1>3, <3>3, <4>4, <5>1, <5>2, <5>3, <5>4 DEF Safe, TypeOK
                  <4>6. Assembled' /\ WholeBody'
                        <5>1. complete' = FALSE
                              BY <1>3, <4>3 DEF Safe, Assembled, TypeOK
                        <5>2. signature'[1] # Content => parts' = <<>>
                              BY <2>4, <3>1
                        <5>. QED
                              BY <3>6, <5>1, <5>2 DEF Assembled, WholeBody
                  <4>7. BoundedAndContiguous'
                        BY <2>4, <3>1, <3>4, <4>3 DEF BoundedAndContiguous
                  <4>. QED
                        BY <1>0, <1>2, <4>5, <4>6, <4>7 DEF Safe
            <3>5. CASE ~(r.block # None /\ r.block.more)
                  <4>1. status' = "response" /\ complete' = TRUE /\ UNCHANGED <<exchange, lost>>
                        BY <2>4, <3>5
                  <4>2. TypeOK'
                        BY <1>2, <1>3, <2>4, <3>1, <3>2, <3>3, <4>1
                           DEF Safe, TypeOK, device, exchange
                  <4>3. Assembled' /\ WholeBody'
                        <5>1. WholeBody'
                              BY <1>0, <3>1, <3>5, WholeEnd
                        <5>2. signature'[1] # Content => parts' = <<>>
                              BY <2>4, <3>1
                        <5>. QED
                              BY <3>6, <4>1, <5>1, <5>2 DEF Assembled, Running
                  <4>4. BoundedAndContiguous'
                        BY <2>4, <3>1, <4>1 DEF BoundedAndContiguous, Running
                  <4>. QED
                        BY <1>0, <1>2, <4>2, <4>3, <4>4 DEF Safe
            <3>. QED
                  BY <3>4, <3>5
      <2>. QED
            BY <2>1, <2>2, <2>3, <2>4 DEF Answer
<1>. QED
      BY <1>5, <1>6

LEMMA SafeInit == Init => Safe
<1> SUFFICES ASSUME Init PROVE Safe
    OBVIOUS
<1>0. <<>> \in Seq(Requests) /\ <<>> \in Seq(Empties \cup Answers) /\ <<>> \in Seq(Units)
      OBVIOUS
<1>1. TypeOK
      <2>1. /\ version \in Versions /\ size \in Sizes /\ blockwise \in BOOLEAN
            /\ requests \in Seq(Requests) /\ replies \in Seq(Empties \cup Answers)
            /\ parts \in Seq(Units) /\ tagged \in SUBSET Versions
            BY <1>0 DEF Init
      <2>2. /\ mid \in Nat \ {0} /\ asked \in Asks \cup {None} /\ sent \in 0 .. 2 /\ acked \in BOOLEAN
            /\ count \in Nat /\ lost \in Nat /\ upsets \in Nat /\ complete \in BOOLEAN
            /\ signature \in Signatures \cup {None} /\ last \in (Options \X Seq(Units)) \cup {None}
            <3>1. /\ mid = 1 /\ asked = None /\ sent = 0 /\ acked = FALSE /\ count = 0 /\ lost = 0
                  /\ upsets = 0 /\ complete = FALSE /\ signature = None /\ last = None
                  BY DEF Init
            <3>2. acked \in BOOLEAN /\ complete \in BOOLEAN
                  BY <3>1, Zenon
            <3>. QED
                  BY <3>1, <3>2
      <2>3. received \in 0 .. MaxPackets /\ status = "running"
            BY LimitAssumption DEF Init
      <2>4. due \in 0 .. Timeout /\ window \in 0 .. Window /\ left \in 0 .. Total
            BY TimeAssumption, WithinFacts DEF Init
      <2>. QED
            BY <2>1, <2>2, <2>3, <2>4 DEF TypeOK
<1>2. AllGenuine
      BY DEF Init, AllGenuine
<1>3. Assembled /\ WholeBody
      <2>1. /\ signature = None /\ count = 0 /\ parts = <<>> /\ complete = FALSE
            BY DEF Init
      <2>. QED
            BY <2>1 DEF Assembled, WholeBody
<1>4. BoundedAndContiguous
      <2>1. Len(parts) = 0 /\ count = 0 /\ asked = None /\ MaxUnits \in Nat /\ MaxBlocks \in Nat
            BY LimitAssumption DEF Init
      <2>. QED
            BY <2>1 DEF BoundedAndContiguous
<1>5. Timed
      <2>1. left \in 0 .. Total /\ window = Within(left) /\ sent = 0 /\ due = 0 /\ Window \in Nat
            BY WithinFacts DEF Init
      <2>2. window <= left /\ (window < left => window = Window)
            BY <2>1, WithinFacts
      <2>. QED
            BY <2>1, <2>2 DEF Timed
<1>. QED
      BY <1>1, <1>2, <1>3, <1>4, <1>5 DEF Safe

LEMMA SafeStep == Safe /\ [Next]_vars => Safe'
<1> SUFFICES ASSUME Safe, [Next]_vars PROVE Safe'
    OBVIOUS
<1>1. CASE UNCHANGED vars
      <2>1. UNCHANGED <<version, size, blockwise, tagged, requests, replies, mid, asked, sent, acked,
                        due, window, left, blocks, received, status, complete, lost, upsets>>
            BY <1>1 DEF vars, device, exchange
      <2>2. Onward /\ Timed'
            BY OnwardStep, TimedStep
      <2>3. TypeOK'
            BY <2>1 DEF Safe, TypeOK, blocks
      <2>4. AllGenuine'
            BY <2>1, <2>2, GenuineKept DEF Safe, AllGenuine
      <2>. QED
            BY <2>1, <2>2, <2>3, <2>4, BlocksKept DEF Running
<1>. QED
      BY <1>1, ServeSafe, ReceiveSafe, OtherSafe DEF Next

-----------------------------------------------------------------------------
(* While nothing upsets device and network                                 *)

\* The blocks that the requests so far ask for begin within the representation.
LEMMA BlockFacts ==
    ASSUME Safe, InStep, NEW m \in Nat \ {0}, m \in {mid - 1, mid}
    PROVE  /\ size \in Sizes /\ size \in Nat \ {0} /\ Length[version] \in Nat /\ version \in Versions
           /\ (m - 1) * size \in Nat /\ (m - 1) * size < Length[version]
           /\ m * size = (m - 1) * size + size /\ m * size \in Nat
           /\ BlockOf(m) \in Options /\ BlockOf(m) # None
           /\ BlockOf(m).num = m - 1 /\ BlockOf(m).size = size
           /\ BlockOf(m).more <=> m * size < Length[version]
           /\ End(version, BlockOf(m)) = IF m * size < Length[version] THEN m * size ELSE Length[version]
           /\ End(version, BlockOf(m)) \in (m - 1) * size .. Length[version]
           /\ PayloadOf(m) \in Seq(Units)
           /\ Len(PayloadOf(m)) = End(version, BlockOf(m)) - (m - 1) * size
<1>1. /\ size \in Sizes /\ size \in Nat \ {0} /\ version \in Versions /\ mid \in Nat \ {0}
      /\ Length[version] \in Nat
      BY SizesAssumption, BodyFacts DEF Safe, TypeOK
<1>2. m - 1 \in Nat /\ (m - 1) + 1 = m
      OBVIOUS
<1>3. (m - 1) * size \in Nat /\ m * size = (m - 1) * size + size /\ m * size \in Nat
      <2>1. ((m - 1) + 1) * size = (m - 1) * size + size /\ (m - 1) * size \in Nat
            BY <1>1, <1>2, ProductAssoc
      <2>. QED
            BY <1>1, <1>2, <2>1
<1>4. (m - 1) * size < Length[version]
      <2>1. CASE m = mid
            BY <2>1 DEF InStep
      <2>2. CASE m = mid - 1
            <3>1. (mid - 1) * size < Length[version]
                  BY DEF InStep
            <3>2. m * size < Length[version]
                  BY <2>2, <3>1
            <3>. QED
                  BY <1>1, <1>3, <3>2
      <2>. QED
            BY <2>1, <2>2
<1>5. /\ BlockOf(m) \in Options /\ BlockOf(m).num = m - 1 /\ BlockOf(m).size = size
      /\ BlockOf(m).more <=> m * size < Length[version]
      <2>1. (m * size < Length[version]) \in BOOLEAN
            OBVIOUS
      <2>2. BlockOf(m) \in Options
            BY <1>1, <1>2, <2>1, Zenon DEF BlockOf, Options
      <2>3. BlockOf(m).more = (m * size < Length[version])
            BY DEF BlockOf
      <2>. QED
            BY <2>2, <2>3 DEF BlockOf
<1>6. BlockOf(m) # None
      BY <1>5, NoneAssumption
<1>7. End(version, BlockOf(m)) = IF m * size < Length[version] THEN m * size ELSE Length[version]
      BY <1>2, <1>5 DEF End
<1>8. End(version, BlockOf(m)) \in (m - 1) * size .. Length[version]
      BY <1>1, <1>3, <1>4, <1>7
<1>9. /\ PayloadOf(m) \in Seq(Units)
      /\ Len(PayloadOf(m)) = End(version, BlockOf(m)) - (m - 1) * size
      BY <1>1, <1>3, <1>8, PartFacts, ZenonT(60) DEF PayloadOf
<1>. QED
      BY <1>1, <1>3, <1>4, <1>5, <1>6, <1>7, <1>8, <1>9

\* The device answers a request with what it asks for.
LEMMA ServedAnswer ==
    ASSUME Safe, InStep, NEW q \in Requests, q.mid \in {mid - 1, mid}, q.asked = AskOf(q.mid)
    PROVE  (IF q.asked = None /\ ~blockwise THEN Whole(q) ELSE Slice(q)) = AnswerTo(q.mid)
<1> DEFINE m == q.mid
<1>0. m \in Nat \ {0} /\ mid \in Nat \ {0} /\ m \in {mid - 1, mid}
      BY DEF Requests, Safe, TypeOK
<1>1. CASE ~blockwise
      <2>1. mid = 1
            BY <1>0, <1>1 DEF InStep
      <2>2. m = 1 /\ q.asked = None
            BY <1>0, <2>1 DEF AskOf
      <2>. QED
            BY <1>1, <2>2 DEF AnswerTo, Whole
<1>2. CASE blockwise
      <2> DEFINE s == IF q.asked = None \/ size < q.asked.size THEN size ELSE q.asked.size
                 from == IF q.asked = None THEN 0 ELSE q.asked.num * q.asked.size
                 to == IF from + s < Length[version] THEN from + s ELSE Length[version]
      <2>1. /\ size \in Sizes /\ size \in Nat \ {0} /\ Length[version] \in Nat /\ version \in Versions
            /\ (m - 1) * size \in Nat /\ (m - 1) * size < Length[version]
            /\ m * size = (m - 1) * size + size /\ m * size \in Nat
            /\ End(version, BlockOf(m)) = IF m * size < Length[version] THEN m * size ELSE Length[version]
            BY <1>0, BlockFacts
      <2>2. s = size /\ from = (m - 1) * size
            <3>1. CASE m = 1
                  <4>1. q.asked = None /\ 0 * size = 0
                        BY <2>1, <3>1 DEF AskOf
                  <4>. QED
                        BY <3>1, <4>1
            <3>2. CASE m # 1
                  <4>1. q.asked = [num |-> m - 1, size |-> size]
                        BY <3>2 DEF AskOf
                  <4>2. q.asked \in Asks
                        BY <1>0, <2>1, <4>1 DEF Asks
                  <4>3. q.asked # None
                        BY <4>2, NoneAssumption
                  <4>. QED
                        BY <2>1, <4>1, <4>3
            <3>. QED
                  BY <3>1, <3>2
      <2>3. Slice(q) = IF from >= Length[version]
                 THEN [kind |-> "answer", mid |-> q.mid, sig |-> <<"4.00", None>>, block |-> None,
                       payload |-> <<>>]
                 ELSE [kind |-> "answer", mid |-> q.mid, sig |-> <<Content, TagOf(version)>>,
                       block |-> [num |-> from \div s, size |-> s, more |-> to < Length[version]],
                       payload |-> SubSeq(Body(version), from + 1, to)]
            BY DEF Slice
      <2>4. to = IF from + s < Length[version] THEN from + s ELSE Length[version]
            OBVIOUS
      <2> HIDE DEF s, from, to
      <2>5. to = End(version, BlockOf(m)) /\ (to < Length[version] <=> m * size < Length[version])
            BY <2>1, <2>2, <2>4
      <2>6. from \div s = m - 1
            <3>1. m - 1 \in Nat
                  BY <1>0
            <3>. QED
                  BY <2>1, <2>2, <3>1, DivMultiple
      <2>7. ~(from >= Length[version])
            BY <2>1, <2>2
      <2>8. Slice(q) = [kind |-> "answer", mid |-> q.mid, sig |-> <<Content, TagOf(version)>>,
                        block |-> [num |-> m - 1, size |-> size, more |-> to < Length[version]],
                        payload |-> SubSeq(Body(version), (m - 1) * size + 1, to)]
            BY <2>2, <2>3, <2>6, <2>7
      <2>9. [num |-> m - 1, size |-> size, more |-> to < Length[version]] = BlockOf(m)
            BY <2>5 DEF BlockOf
      <2>. QED
            BY <1>2, <2>5, <2>8, <2>9 DEF AnswerTo, PayloadOf
<1>. QED
      BY <1>1, <1>2 DEF Safe, TypeOK

LEMMA AnswerFacts ==
    ASSUME Safe, InStep, NEW m \in Nat \ {0}, m \in {mid - 1, mid}
    PROVE  /\ AnswerTo(m).kind = "answer" /\ AnswerTo(m).mid = m
           /\ AnswerTo(m).sig = <<Content, TagOf(version)>>
           /\ AnswerTo(m).block = IF blockwise THEN BlockOf(m) ELSE None
           /\ AnswerTo(m).payload = IF blockwise THEN PayloadOf(m) ELSE Body(version)
BY DEF AnswerTo, Whole

LEMMA InStepKept ==
    ASSUME InStep, UNCHANGED <<device, blocks, mid, asked>>
    PROVE  InStep' /\ \A m : AskOf(m)' = AskOf(m) /\ AnswerTo(m)' = AnswerTo(m)
<1>1. UNCHANGED <<version, size, blockwise, tagged, parts, count, signature, last, mid, asked>>
      BY DEF device, blocks
<1>2. \A m : /\ AskOf(m)' = AskOf(m) /\ BlockOf(m)' = BlockOf(m) /\ PayloadOf(m)' = PayloadOf(m)
             /\ AnswerTo(m)' = AnswerTo(m)
      BY <1>1 DEF AskOf, BlockOf, PayloadOf, AnswerTo, End, Body, Whole, TagOf
<1>3. InStep'
      BY <1>1, <1>2 DEF InStep, TagOf
<1>. QED
      BY <1>2, <1>3

LEMMA InOrderNext ==
    ASSUME UNCHANGED device,
           \A i \in 1 .. Len(requests') :
              /\ requests'[i].mid \in {mid' - 1, mid'}
              /\ requests'[i].asked = AskOf(requests'[i].mid),
           \A i \in 1 .. Len(replies') :
              /\ replies'[i].mid \in {mid' - 1, mid'}
              /\ replies'[i].kind = "answer" => replies'[i] = AnswerTo(replies'[i].mid),
           \A i, j \in 1 .. Len(requests') : i < j => requests'[i].mid <= requests'[j].mid,
           \A i, j \in 1 .. Len(replies') : i < j => replies'[i].mid <= replies'[j].mid,
           \A i \in 1 .. Len(replies'), j \in 1 .. Len(requests') :
              replies'[i].mid <= requests'[j].mid
    PROVE  InOrder'
<1>1. UNCHANGED <<version, size, blockwise, tagged>>
      BY DEF device
<1>2. \A i \in 1 .. Len(requests') : (requests[i].asked = AskOf(requests[i].mid))'
      BY <1>1 DEF AskOf
<1>3. \A i \in 1 .. Len(replies') :
         (replies[i].kind = "answer" => replies[i] = AnswerTo(replies[i].mid))'
      <2>1. TagOf(version)' = TagOf(version)
            BY <1>1 DEF TagOf
      <2>. QED
            BY <1>1, <2>1 DEF AnswerTo, BlockOf, PayloadOf, End, Body, Whole
<1>. QED
      BY <1>2, <1>3 DEF InOrder

LEMMA ServeSteady ==
    ASSUME Safe, Quiet, InOrder, InStep, Serve, upsets' = 0
    PROVE  InOrder' /\ InStep'
<1>1. PICK i \in 1 .. Len(requests) :
        LET q == requests[i]
            r == IF q.asked = None /\ ~blockwise THEN Whole(q) ELSE Slice(q)
            ack == [kind |-> "ack", mid |-> q.mid]
        IN
        /\ requests' = RemoveAt(requests, i)
        /\ Overtakes(i)
        /\ \/ /\ \E answer \in {<<r>>, <<ack, r>>, <<[kind |-> "reset", mid |-> q.mid]>>} :
                   replies' = replies \o answer
              /\ UNCHANGED lost
           \/ /\ \E answer \in {<<>>, <<ack>>} : replies' = replies \o answer
              /\ Losing(q.mid)
      BY DEF Serve
<1>2. i = 1
      BY <1>1 DEF Overtakes, Quiet
<1> DEFINE q == requests[1]
           r == IF q.asked = None /\ ~blockwise THEN Whole(q) ELSE Slice(q)
           ack == [kind |-> "ack", mid |-> q.mid]
           n == Len(replies)
<1>3. /\ requests \in Seq(Requests) /\ 1 \in 1 .. Len(requests) /\ q \in Requests
      /\ n \in Nat /\ replies \in Seq(Empties \cup Answers) /\ sent \in 0 .. 2 /\ lost \in Nat
      BY <1>1, <1>2, ElementOfSeq DEF Safe, TypeOK
<1>4. /\ Len(requests') = Len(requests) - 1
      /\ \A k \in 1 .. Len(requests') : k + 1 \in 1 .. Len(requests) /\ requests'[k] = requests[k + 1]
      <2>1. requests' = RemoveAt(requests, 1)
            BY <1>1, <1>2
      <2>2. /\ Len(requests') = Len(requests) - 1
            /\ \A k \in 1 .. Len(requests) - 1 :
                  requests'[k] = IF k < 1 THEN requests[k] ELSE requests[k + 1]
            BY <1>3, <2>1, RemoveFacts
      <2>3. Len(requests) \in Nat
            BY <1>3
      <2>4. \A k \in 1 .. Len(requests') : ~(k < 1) /\ k + 1 \in 1 .. Len(requests)
            BY <2>2, <2>3
      <2>. QED
            BY <2>2, <2>4
<1>5. q.mid \in {mid - 1, mid} /\ q.asked = AskOf(q.mid) /\ mid \in Nat \ {0} /\ q.mid \in Nat
      BY <1>3 DEF InOrder, Safe, TypeOK, Requests
<1>6. r = AnswerTo(q.mid)
      BY <1>3, <1>5, ServedAnswer
<1>7. PICK answer \in {<<r>>, <<ack, r>>, <<[kind |-> "reset", mid |-> q.mid]>>, <<>>, <<ack>>} :
        /\ replies' = replies \o answer
        /\ \/ /\ answer \in {<<r>>, <<ack, r>>, <<[kind |-> "reset", mid |-> q.mid]>>}
              /\ lost' = lost
           \/ Losing(q.mid)
      BY <1>1, <1>2
<1>8. /\ answer \in Seq(Empties \cup Answers)
      /\ \A k \in 1 .. Len(answer) : answer[k].mid = q.mid /\ (answer[k] \in Empties \/ answer[k] = r)
      <2>1. TypeOK /\ r \in {Whole(q), Slice(q)}
            BY DEF Safe
      <2> HIDE DEF q, r
      <2>. QED
            BY <1>3, <1>7, <2>1, ServedSequences
<1>9. /\ Len(replies') = n + Len(answer) /\ Len(answer) \in Nat
      /\ \A k \in 1 .. n + Len(answer) :
            replies'[k] = IF k <= n THEN replies[k] ELSE answer[k - n]
      BY <1>3, <1>7, <1>8, ConcatProperties
<1>10. UNCHANGED <<device, exchange, blocks>>
      BY DEF Serve
<1>11. UNCHANGED <<mid, asked, sent, acked>>
      BY <1>10 DEF exchange
<1>12. InStep' /\ \A m : AskOf(m)' = AskOf(m) /\ AnswerTo(m)' = AnswerTo(m)
      BY <1>10, <1>11, InStepKept
<1>13. \A k \in 1 .. Len(replies') :
          \/ k \in 1 .. n /\ replies'[k] = replies[k]
          \/ /\ k > n /\ replies'[k].mid = q.mid
             /\ replies'[k].kind = "answer" => replies'[k] = AnswerTo(q.mid)
      <2> SUFFICES ASSUME NEW k \in 1 .. Len(replies'), ~(k <= n)
                   PROVE  /\ k > n /\ replies'[k].mid = q.mid
                          /\ replies'[k].kind = "answer" => replies'[k] = AnswerTo(q.mid)
          BY <1>3, <1>9
      <2>1. k - n \in 1 .. Len(answer) /\ replies'[k] = answer[k - n] /\ k > n
            BY <1>3, <1>9
      <2>. QED
            BY <1>6, <1>8, <2>1 DEF Empties
<1> DEFINE f == Len(requests)  a == Len(answer)
<1>14. \A k \in 1 .. f : /\ requests[k].mid \in {mid - 1, mid} /\ requests[k].mid \in Nat
                         /\ requests[k].asked = AskOf(requests[k].mid) /\ q.mid <= requests[k].mid
      <2> SUFFICES ASSUME NEW k \in 1 .. f
                   PROVE  /\ requests[k].mid \in {mid - 1, mid} /\ requests[k].mid \in Nat
                          /\ requests[k].asked = AskOf(requests[k].mid) /\ q.mid <= requests[k].mid
          OBVIOUS
      <2>1. /\ requests[k].mid \in {mid - 1, mid} /\ requests[k].mid \in Nat
            /\ requests[k].asked = AskOf(requests[k].mid)
            BY <1>5 DEF InOrder
      <2>2. CASE k = 1
            BY <1>5, <2>1, <2>2
      <2>3. CASE k # 1
            BY <1>3, <2>1, <2>3 DEF InOrder
      <2>. QED
            BY <2>1, <2>2, <2>3
<1>15. \A k \in 1 .. n : /\ replies[k].mid \in {mid - 1, mid} /\ replies[k].mid <= q.mid
                         /\ replies[k].mid \in Nat
      BY <1>3, <1>5 DEF InOrder
<1>20. \A k \in 1 .. Len(replies') : replies'[k].mid <= q.mid /\ replies'[k].mid \in Nat
      <2> SUFFICES ASSUME NEW k \in 1 .. Len(replies')
                   PROVE  replies'[k].mid <= q.mid /\ replies'[k].mid \in Nat
          OBVIOUS
      <2>1. CASE k \in 1 .. n /\ replies'[k] = replies[k]
            BY <1>15, <2>1
      <2>2. CASE replies'[k].mid = q.mid
            BY <1>5, <2>2
      <2>. QED
            BY <1>13, <2>1, <2>2
<1>16. InOrder'
      <2>1. \A k \in 1 .. Len(requests') :
              /\ requests'[k].mid \in {mid' - 1, mid'}
              /\ requests'[k].asked = AskOf(requests'[k].mid)
            BY <1>4, <1>11, <1>12, <1>14
      <2>2. \A k \in 1 .. Len(replies') :
              /\ replies'[k].mid \in {mid' - 1, mid'}
              /\ replies'[k].kind = "answer" => replies'[k] = AnswerTo(replies'[k].mid)
            BY <1>5, <1>11, <1>12, <1>13 DEF InOrder
      <2>3. \A j, k \in 1 .. Len(requests') : j < k => requests'[j].mid <= requests'[k].mid
            <3> SUFFICES ASSUME NEW j \in 1 .. Len(requests'), NEW k \in 1 .. Len(requests'), j < k
                         PROVE  requests'[j].mid <= requests'[k].mid
                OBVIOUS
            <3>1. j + 1 < k + 1 /\ j + 1 \in 1 .. f /\ k + 1 \in 1 .. f
                  BY <1>4
            <3>. QED
                  BY <1>4, <3>1 DEF InOrder
      <2>4. \A j, k \in 1 .. Len(replies') : j < k => replies'[j].mid <= replies'[k].mid
            <3> SUFFICES ASSUME NEW j \in 1 .. Len(replies'), NEW k \in 1 .. Len(replies'), j < k
                         PROVE  replies'[j].mid <= replies'[k].mid
                OBVIOUS
            <3>1. CASE k \in 1 .. n
                  <4>1. j \in 1 .. n /\ ~(j > n) /\ ~(k > n)
                        BY <1>3, <3>1
                  <4>2. replies'[j] = replies[j] /\ replies'[k] = replies[k]
                        BY <1>13, <4>1
                  <4>. QED
                        BY <3>1, <4>1, <4>2 DEF InOrder
            <3>2. CASE ~(k \in 1 .. n)
                  <4>1. replies'[k].mid = q.mid
                        BY <1>13, <3>2
                  <4>2. replies'[j].mid <= q.mid
                        BY <1>20
                  <4>. QED
                        BY <4>1, <4>2
            <3>. QED
                  BY <3>1, <3>2
      <2>5. \A k \in 1 .. Len(replies'), j \in 1 .. Len(requests') : replies'[k].mid <= requests'[j].mid
            <3> SUFFICES ASSUME NEW k \in 1 .. Len(replies'), NEW j \in 1 .. Len(requests')
                         PROVE  replies'[k].mid <= requests'[j].mid
                OBVIOUS
            <3>1. replies'[k].mid <= q.mid /\ replies'[k].mid \in Nat
                  BY <1>20
            <3>2. q.mid <= requests'[j].mid /\ requests'[j].mid \in Nat
                  BY <1>4, <1>14
            <3> DEFINE x == replies'[k].mid  y == requests'[j].mid  z == q.mid
            <3>3. x <= z /\ z <= y /\ x \in Nat /\ y \in Nat /\ z \in Nat
                  BY <1>5, <3>1, <3>2
            <3> HIDE DEF x, y, z
            <3>4. x <= y
                  BY <3>3
            <3>. QED
                  BY <3>4 DEF x, y
      <2> HIDE DEF n, f, a, q, r
      <2>. QED
            BY <1>10, <2>1, <2>2, <2>3, <2>4, <2>5, InOrderNext
<1>. QED
      BY <1>12, <1>16

LEMMA SendSteady ==
    ASSUME Safe, Quiet, InOrder, InStep, Send
    PROVE  InOrder' /\ InStep'
<1> DEFINE q == [mid |-> mid, asked |-> asked]
           f == Len(requests)
<1>1. /\ UNCHANGED <<device, replies, mid, asked, acked, blocks>> /\ sent' = sent + 1 /\ sent < 2
      BY DEF Send, MustSend
<1>2. /\ requests \in Seq(Requests) /\ f \in Nat /\ q \in Requests /\ mid \in Nat \ {0}
      /\ sent \in 0 .. 2 /\ lost \in Nat
      BY DEF Safe, TypeOK, Requests
<1>3. InStep' /\ \A m : AskOf(m)' = AskOf(m) /\ AnswerTo(m)' = AnswerTo(m)
      BY <1>1, InStepKept
<1>5. CASE requests' = Append(requests, q) /\ lost' = lost
      <2>1. /\ Len(requests') = f + 1 /\ requests'[f + 1] = q
            /\ \A k \in 1 .. f : requests'[k] = requests[k]
            BY <1>2, <1>5, AppendProperties
      <2>2. \A k \in 1 .. f + 1 : k \in 1 .. f \/ k = f + 1
            BY <1>2
      <2>3. \A k \in 1 .. f : requests[k].mid \in {mid - 1, mid} /\ requests[k].asked = AskOf(requests[k].mid)
            BY DEF InOrder
      <2>4. q.mid = mid /\ q.asked = AskOf(q.mid)
            BY DEF InStep
      <2> HIDE DEF q, f
      <2>5. InOrder'
            <3>1. \A i \in 1 .. Len(requests') :
                    /\ requests'[i].mid \in {mid' - 1, mid'}
                    /\ requests'[i].asked = AskOf(requests'[i].mid)
                  BY <1>1, <2>1, <2>2, <2>3, <2>4
            <3>2. \A i \in 1 .. Len(replies') :
                    /\ replies'[i].mid \in {mid' - 1, mid'}
                    /\ replies'[i].kind = "answer" => replies'[i] = AnswerTo(replies'[i].mid)
                  BY <1>1 DEF InOrder
            <3>3. \A i, j \in 1 .. Len(requests') : i < j => requests'[i].mid <= requests'[j].mid
                  <4> SUFFICES ASSUME NEW i \in 1 .. Len(requests'), NEW j \in 1 .. Len(requests'), i < j
                               PROVE  requests'[i].mid <= requests'[j].mid
                      OBVIOUS
                  <4>1. i \in 1 .. f
                        BY <1>2, <2>1
                  <4>2. CASE j \in 1 .. f
                        BY <2>1, <4>1, <4>2 DEF InOrder, f
                  <4>3. CASE j = f + 1
                        BY <1>2, <2>1, <2>3, <2>4, <4>1, <4>3
                  <4>. QED
                        BY <2>1, <2>2, <4>2, <4>3
            <3>4. \A i, j \in 1 .. Len(replies') : i < j => replies'[i].mid <= replies'[j].mid
                  BY <1>1 DEF InOrder
            <3>5. \A i \in 1 .. Len(replies'), j \in 1 .. Len(requests') :
                    replies'[i].mid <= requests'[j].mid
                  <4> SUFFICES ASSUME NEW i \in 1 .. Len(replies), NEW j \in 1 .. Len(requests')
                               PROVE  replies[i].mid <= requests'[j].mid
                      BY <1>1
                  <4>1. CASE j \in 1 .. f
                        BY <2>1, <4>1 DEF InOrder, f
                  <4>2. CASE j = f + 1
                        <5>1. replies[i].mid \in {mid - 1, mid}
                              BY DEF InOrder
                        <5>. QED
                              BY <1>2, <2>1, <2>4, <4>2, <5>1
                  <4>. QED
                        BY <2>1, <2>2, <4>1, <4>2
            <3>. QED
                  BY <1>1, <3>1, <3>2, <3>3, <3>4, <3>5, InOrderNext
      <2>. QED
            BY <1>3, <2>5
<1>6. CASE Losing(mid) /\ requests' = requests
      <2>2. InOrder'
            BY <1>1, <1>6, InOrderNext DEF InOrder
      <2>. QED
            BY <1>3, <2>2
<1>. QED
      BY <1>5, <1>6 DEF Send

\* The oldest answer is taken; those behind it are of its request or a later one.
LEMMA TakenInOrder ==
    ASSUME Safe, InOrder, Len(replies) # 0, replies' = RemoveAt(replies, 1)
    PROVE  /\ 1 \in 1 .. Len(replies) /\ Len(replies') = Len(replies) - 1
           /\ \A k \in 1 .. Len(replies') : k + 1 \in 1 .. Len(replies) /\ replies'[k] = replies[k + 1]
           /\ \A k \in 1 .. Len(replies) : /\ replies[k].mid \in {mid - 1, mid}
                                           /\ replies[1].mid <= replies[k].mid
           /\ \A k \in 1 .. Len(requests) : /\ requests[k].mid \in {mid - 1, mid}
                                            /\ replies[1].mid <= requests[k].mid
           /\ replies[1] \in Empties \cup Answers /\ replies[1].mid \in Nat \ {0} /\ mid \in Nat \ {0}
           /\ replies[1].kind = "answer" => replies[1] = AnswerTo(replies[1].mid)
<1>1. /\ replies \in Seq(Empties \cup Answers) /\ mid \in Nat \ {0} /\ Len(replies) \in Nat
      BY DEF Safe, TypeOK
<1>2. 1 \in 1 .. Len(replies)
      BY <1>1
<1>3. /\ Len(replies') = Len(replies) - 1
      /\ \A k \in 1 .. Len(replies) - 1 :
            replies'[k] = IF k < 1 THEN replies[k] ELSE replies[k + 1]
      BY <1>1, <1>2, RemoveFacts
<1>4. \A k \in 1 .. Len(replies') : ~(k < 1) /\ k + 1 \in 1 .. Len(replies)
      BY <1>1, <1>3
<1>5. replies[1] \in Empties \cup Answers
      BY <1>1, <1>2, ElementOfSeq
<1>6. replies[1].mid \in Nat \ {0}
      BY <1>5 DEF Empties, Answers
<1>7. \A k \in 1 .. Len(replies) : replies[k].mid \in {mid - 1, mid} /\ replies[1].mid <= replies[k].mid
      <2> SUFFICES ASSUME NEW k \in 1 .. Len(replies)
                   PROVE  replies[k].mid \in {mid - 1, mid} /\ replies[1].mid <= replies[k].mid
          OBVIOUS
      <2>1. CASE k = 1
            BY <1>6, <2>1 DEF InOrder
      <2>2. CASE k # 1
            BY <1>2, <2>2 DEF InOrder
      <2>. QED
            BY <2>1, <2>2
<1>. QED
      BY <1>1, <1>2, <1>3, <1>4, <1>5, <1>6, <1>7 DEF InOrder

\* The exchange goes on: what is taken is no answer the current request waits for.
LEMMA TakenSteady ==
    ASSUME Safe, InOrder, InStep, Len(replies) # 0, replies' = RemoveAt(replies, 1),
           UNCHANGED <<device, requests, mid, asked, blocks>>
    PROVE  InOrder' /\ InStep'
<1>1. /\ 1 \in 1 .. Len(replies) /\ Len(replies') = Len(replies) - 1
      /\ \A k \in 1 .. Len(replies') : k + 1 \in 1 .. Len(replies) /\ replies'[k] = replies[k + 1]
      /\ Len(replies) \in Nat
      BY TakenInOrder DEF Safe, TypeOK
<1>2. InStep'
      BY InStepKept
<1>3. InOrder'
      <2>1. \A i \in 1 .. Len(replies') :
              /\ replies'[i].mid \in {mid' - 1, mid'}
              /\ replies'[i].kind = "answer" => replies'[i] = AnswerTo(replies'[i].mid)
            BY <1>1 DEF InOrder
      <2>2. \A i, j \in 1 .. Len(replies') : i < j => replies'[i].mid <= replies'[j].mid
            <3> SUFFICES ASSUME NEW i \in 1 .. Len(replies'), NEW j \in 1 .. Len(replies'), i < j
                         PROVE  replies'[i].mid <= replies'[j].mid
                OBVIOUS
            <3>1. i + 1 < j + 1 /\ i + 1 \in 1 .. Len(replies) /\ j + 1 \in 1 .. Len(replies)
                  BY <1>1
            <3>. QED
                  BY <1>1, <3>1 DEF InOrder
      <2>3. \A i \in 1 .. Len(replies'), j \in 1 .. Len(requests') : replies'[i].mid <= requests'[j].mid
            BY <1>1 DEF InOrder
      <2>. QED
            BY <2>1, <2>2, <2>3, InOrderNext DEF InOrder
<1>. QED
      BY <1>2, <1>3

\* What becomes of an answer: one to the request before repeats the last block;
\* one to the current request fits, but for the limits.
LEMMA Repeats ==
    ASSUME Safe, InStep, NEW r, r.mid = mid - 1, r.mid \in Nat \ {0}, r = AnswerTo(r.mid)
    PROVE  SameRepresentation(r) /\ Duplicate(r)
<1>1. mid > 1 /\ r.mid \in {mid - 1, mid} /\ mid \in Nat \ {0}
      BY DEF Safe, TypeOK
<1>2. /\ r.sig = <<Content, TagOf(version)>> /\ r.block = (IF blockwise THEN BlockOf(r.mid) ELSE None)
      /\ r.payload = (IF blockwise THEN PayloadOf(r.mid) ELSE Body(version))
      BY <1>1, AnswerFacts
<1>3. /\ blockwise /\ signature = <<Content, TagOf(version)>>
      /\ last = <<BlockOf(mid - 1), PayloadOf(mid - 1)>>
      BY <1>1 DEF InStep
<1>4. BlockOf(r.mid) # None
      BY <1>1, BlockFacts
<1>. QED
      BY <1>2, <1>3, <1>4 DEF SameRepresentation, Duplicate

LEMMA Fits ==
    ASSUME Safe, InStep, NEW r, r.mid = mid, r = AnswerTo(mid)
    PROVE  /\ ~Duplicate(r) /\ SameRepresentation(r)
           /\ IF r.block = None THEN count = 0 ELSE Contiguous(r)
           /\ Len(parts) + Len(r.payload) <= Length[version]
           /\ r.block = None <=> ~blockwise
           /\ r.block # None => r.block = BlockOf(mid) /\ r.payload = PayloadOf(mid)
           /\ r.sig = <<Content, TagOf(version)>>
<1>1. mid \in Nat \ {0} /\ mid \in {mid - 1, mid} /\ count = mid - 1 /\ Len(parts) = (mid - 1) * size
      BY DEF Safe, TypeOK, InStep
<1>2. /\ r.sig = <<Content, TagOf(version)>> /\ r.block = (IF blockwise THEN BlockOf(mid) ELSE None)
      /\ r.payload = (IF blockwise THEN PayloadOf(mid) ELSE Body(version))
      BY <1>1, AnswerFacts
<1>3. SameRepresentation(r)
      <2>1. CASE mid = 1
            BY <2>1 DEF InStep, SameRepresentation
      <2>2. CASE mid # 1
            BY <1>1, <1>2, <2>2 DEF InStep, SameRepresentation
      <2>. QED
            BY <2>1, <2>2
<1>4. CASE ~blockwise
      <2>1. mid = 1 /\ r.block = None /\ r.payload = Body(version) /\ size \in Nat \ {0}
            BY <1>1, <1>2, <1>4, SizesAssumption DEF InStep, Safe, TypeOK
      <2>2. count = 0 /\ Len(parts) = 0 /\ Len(r.payload) = Length[version]
            <3>1. version \in Versions
                  BY DEF Safe, TypeOK
            <3>2. Len(r.payload) = Length[version]
                  BY <2>1, <3>1, BodyFacts
            <3>3. count = 0 /\ Len(parts) = 0
                  BY <1>1, <2>1
            <3>. QED
                  BY <3>2, <3>3
      <2>3. Length[version] \in Nat
            BY BodyFacts DEF Safe, TypeOK
      <2>. QED
            BY <1>2, <1>3, <1>4, <2>1, <2>2, <2>3 DEF Duplicate
<1>5. CASE blockwise
      <2>1. r.block = BlockOf(mid) /\ r.payload = PayloadOf(mid)
            BY <1>2, <1>5
      <2>2. /\ size \in Nat \ {0} /\ Length[version] \in Nat
            /\ (mid - 1) * size \in Nat /\ (mid - 1) * size < Length[version]
            /\ mid * size = (mid - 1) * size + size /\ mid * size \in Nat
            /\ BlockOf(mid) \in Options /\ BlockOf(mid) # None
            /\ BlockOf(mid).num = mid - 1 /\ BlockOf(mid).size = size
            /\ BlockOf(mid).more <=> mid * size < Length[version]
            /\ End(version, BlockOf(mid)) = IF mid * size < Length[version] THEN mid * size ELSE Length[version]
            /\ PayloadOf(mid) \in Seq(Units)
            /\ Len(PayloadOf(mid)) = End(version, BlockOf(mid)) - (mid - 1) * size
            BY <1>1, BlockFacts
      <2>3. Contiguous(r)
            BY <1>1, <2>1, <2>2 DEF Contiguous
      <2>4. Len(parts) + Len(r.payload) <= Length[version]
            BY <1>1, <2>1, <2>2
      <2>5. ~Duplicate(r)
            <3>1. CASE mid = 1
                  <4>1. last = None
                        BY <3>1 DEF InStep
                  <4>2. <<r.block, r.payload>> \in Options \X Seq(Units)
                        BY <2>1, <2>2
                  <4>. QED
                        BY <4>1, <4>2, NoneAssumption DEF Duplicate
            <3>2. CASE mid # 1
                  <4>1. last = <<BlockOf(mid - 1), PayloadOf(mid - 1)>> /\ mid - 1 \in Nat \ {0}
                        BY <1>1, <3>2 DEF InStep
                  <4>2. BlockOf(mid - 1).num = mid - 2
                        BY <1>1 DEF BlockOf
                  <4>3. BlockOf(mid - 1) # BlockOf(mid)
                        BY <1>1, <2>2, <4>2
                  <4>. QED
                        BY <2>1, <4>1, <4>3 DEF Duplicate
            <3>. QED
                  BY <3>1, <3>2
      <2>. QED
            BY <1>2, <1>3, <1>5, <2>1, <2>2, <2>3, <2>4, <2>5
<1>. QED
      BY <1>4, <1>5

\* The answer to the current request is taken, and the next block is asked for.
LEMMA AskedSteady ==
    ASSUME Safe, InOrder, InStep, Len(replies) # 0, replies' = RemoveAt(replies, 1),
           UNCHANGED <<device, requests>>,
           NEW r, r = replies[1], r.mid = mid, r.kind = "answer", Acceptable(r),
           r.block # None, r.block.more,
           parts' = parts \o r.payload, count' = count + 1, signature' = r.sig,
           last' = <<r.block, r.payload>>, AskNext(r)
    PROVE  InOrder' /\ InStep'
<1>1. /\ 1 \in 1 .. Len(replies) /\ Len(replies') = Len(replies) - 1
      /\ \A k \in 1 .. Len(replies') : k + 1 \in 1 .. Len(replies) /\ replies'[k] = replies[k + 1]
      /\ mid \in Nat \ {0} /\ r = AnswerTo(mid)
      /\ \A k \in 1 .. Len(replies) : replies[k].mid = mid
      /\ \A k \in 1 .. Len(requests) : requests[k].mid = mid
      <2>1. /\ 1 \in 1 .. Len(replies) /\ Len(replies') = Len(replies) - 1
            /\ \A k \in 1 .. Len(replies') : k + 1 \in 1 .. Len(replies) /\ replies'[k] = replies[k + 1]
            /\ \A k \in 1 .. Len(replies) : /\ replies[k].mid \in {mid - 1, mid}
                                            /\ mid <= replies[k].mid
            /\ \A k \in 1 .. Len(requests) : /\ requests[k].mid \in {mid - 1, mid}
                                             /\ mid <= requests[k].mid
            /\ mid \in Nat \ {0} /\ r = AnswerTo(mid)
            BY TakenInOrder
      <2>. QED
            BY <2>1
<1>2. /\ r.block = BlockOf(mid) /\ r.payload = PayloadOf(mid) /\ r.sig = <<Content, TagOf(version)>>
      /\ blockwise
      BY <1>1, Fits
<1>3. /\ size \in Sizes /\ size \in Nat \ {0}
      /\ mid * size \in Nat /\ BlockOf(mid).num = mid - 1 /\ BlockOf(mid).size = size
      /\ BlockOf(mid).more <=> mid * size < Length[version]
      BY <1>1, BlockFacts
<1>4. Len(parts') = mid * size
      <2>1. r \in Answers /\ Genuine(r)
            <3>1. r \in Answers
                  <4>1. r \in Empties \cup Answers
                        BY TakenInOrder
                  <4>. QED
                        BY <4>1 DEF Empties
            <3>. QED
                  BY <1>1, <3>1 DEF Safe, AllGenuine
      <2>2. Len(parts') = (r.block.num + 1) * r.block.size
            BY <2>1, AnswerAccepted
      <2>3. r.block.num + 1 = mid /\ r.block.size = size
            BY <1>1, <1>2, <1>3
      <2>. QED
            BY <2>2, <2>3
<1>5. /\ mid' = mid + 1 /\ asked' = [num |-> mid, size |-> size]
      /\ sent' = 0 /\ acked' = FALSE /\ lost' = 0
      <2>1. Len(parts') \div size = mid
            <3>1. mid \in Nat
                  BY <1>1
            <3>2. (mid * size) \div size = mid
                  BY <1>3, <3>1, DivMultiple
            <3>. QED
                  BY <1>4, <3>2
      <2>. QED
            BY <1>2, <1>3, <2>1 DEF AskNext
<1>6. UNCHANGED <<version, size, blockwise, tagged, requests>>
      BY DEF device
<1>7. InStep'
      <2>1. mid' # 1 /\ mid' - 1 = mid /\ mid' > 1
            BY <1>1, <1>5
      <2>2. asked' = AskOf(mid)' /\ last' = <<BlockOf(mid - 1), PayloadOf(mid - 1)>>'
            <3>1. asked' = AskOf(mid)'
                  BY <1>5, <1>6, <2>1 DEF AskOf
            <3>2. BlockOf(mid - 1)' = BlockOf(mid)
                  BY <1>6, <2>1 DEF BlockOf
            <3>3. PayloadOf(mid - 1)' = PayloadOf(mid)
                  BY <1>6, <2>1 DEF PayloadOf, BlockOf, End, Body
            <3>. QED
                  BY <1>2, <3>1, <3>2, <3>3
      <2>3. /\ Len(parts') = (mid' - 1) * size' /\ count' = mid' - 1
            /\ (mid' - 1) * size' < Length[version']
            BY <1>1, <1>2, <1>3, <1>4, <1>6, <2>1 DEF InStep
      <2>. QED
            BY <1>2, <1>6, <2>1, <2>2, <2>3 DEF InStep, TagOf
<1>8. InOrder'
      <2>1. \A i \in 1 .. Len(requests') :
              /\ requests'[i].mid \in {mid' - 1, mid'}
              /\ requests'[i].asked = AskOf(requests'[i].mid)
            <3>1. \A i \in 1 .. Len(requests) :
                    requests[i].mid = mid /\ requests[i].asked = AskOf(requests[i].mid)
                  BY <1>1 DEF InOrder
            <3>2. requests' = requests /\ mid' - 1 = mid
                  BY <1>1, <1>5, <1>6
            <3>. QED
                  BY <3>1, <3>2
      <2>2. \A i \in 1 .. Len(replies') :
              /\ replies'[i].mid \in {mid' - 1, mid'}
              /\ replies'[i].kind = "answer" => replies'[i] = AnswerTo(replies'[i].mid)
            <3>1. ASSUME NEW i \in 1 .. Len(replies')
                  PROVE  /\ replies'[i].mid = mid
                         /\ replies'[i].kind = "answer" => replies'[i] = AnswerTo(replies'[i].mid)
                  <4>1. i + 1 \in 1 .. Len(replies) /\ replies'[i] = replies[i + 1]
                        BY <1>1
                  <4>2. replies[i + 1].mid = mid
                        BY <1>1, <4>1
                  <4>3. replies[i + 1].kind = "answer" => replies[i + 1] = AnswerTo(replies[i + 1].mid)
                        BY <4>1 DEF InOrder
                  <4>. QED
                        BY <4>1, <4>2, <4>3
            <3>2. mid' - 1 = mid
                  BY <1>1, <1>5
            <3>. QED
                  BY <3>1, <3>2
      <2>3. /\ \A i, j \in 1 .. Len(requests') : i < j => requests'[i].mid <= requests'[j].mid
            /\ \A i, j \in 1 .. Len(replies') : i < j => replies'[i].mid <= replies'[j].mid
            /\ \A i \in 1 .. Len(replies'), j \in 1 .. Len(requests') :
                  replies'[i].mid <= requests'[j].mid
            <3>1. /\ \A i \in 1 .. Len(requests') : requests'[i].mid = mid
                  /\ \A i \in 1 .. Len(replies') : replies'[i].mid = mid
                  BY <1>1, <1>6
            <3>2. mid <= mid
                  BY <1>1
            <3>. QED
                  BY <3>1, <3>2
      <2>. QED
            BY <2>1, <2>2, <2>3, InOrderNext
<1>. QED
      BY <1>7, <1>8

\* The oldest datagram and what becomes of it, while nothing is overtaken.
LEMMA ReceiveSteady ==
    ASSUME Safe, Quiet, InOrder, InStep, Receive, upsets' = 0
    PROVE  \/ Running' /\ InOrder' /\ InStep'
           \/ status' \in {"reset", "response"}
           \/ /\ status' = "incomplete_representation" /\ UNCHANGED <<device, blocks>>
              /\ Length[version] > MaxUnits \/ count = MaxBlocks
<1>1. /\ Len(replies) # 0 /\ replies' = RemoveAt(replies, 1)
      /\ IF replies[1].kind = "answer" THEN Answer(replies[1]) ELSE Empty(replies[1])
      <2>1. PICK i \in 1 .. Len(replies) :
              /\ replies' = RemoveAt(replies, i)
              /\ Overtakes(i)
              /\ IF replies[i].kind = "answer" THEN Answer(replies[i]) ELSE Empty(replies[i])
            BY DEF Receive
      <2>2. i = 1
            BY <2>1 DEF Overtakes, Quiet
      <2>3. Len(replies) # 0
            <3>1. Len(replies) \in Nat
                  BY DEF Safe, TypeOK
            <3>. QED
                  BY <2>1, <3>1
      <2>. QED
            BY <2>1, <2>2, <2>3
<1> DEFINE r == replies[1]
<1>2. /\ r \in Empties \cup Answers /\ r.mid \in {mid - 1, mid} /\ r.mid \in Nat \ {0}
      /\ r.kind = "answer" => r = AnswerTo(r.mid)
      /\ 1 \in 1 .. Len(replies)
      BY <1>1, TakenInOrder
<1>3. UNCHANGED <<device, requests>> /\ Running /\ status = "running"
      BY DEF Receive, Goes, Running
<1>4. CASE r.kind # "answer"
      <2>1. UNCHANGED <<mid, asked, blocks>>
            BY <1>1, <1>4 DEF Empty
      <2>2. CASE r.mid # mid
            <3>1. UNCHANGED <<status, acked>>
                  BY <1>1, <1>4, <2>2 DEF Empty
            <3>2. InOrder' /\ InStep'
                  BY <1>1, <1>3, <2>1, <2>2, <3>1, TakenSteady
            <3>. QED
                  BY <1>3, <3>1, <3>2 DEF Running
      <2>3. CASE r.mid = mid /\ r.kind = "reset"
            BY <1>1, <2>3 DEF Empty
      <2>4. CASE r.mid = mid /\ r.kind = "ack"
            <3>1. acked' = TRUE /\ status' = status
                  BY <1>1, <2>4 DEF Empty
            <3>2. InOrder' /\ InStep'
                  BY <1>1, <1>3, <2>1, <2>4, <3>1, TakenSteady
            <3>. QED
                  BY <1>3, <3>1, <3>2 DEF Running
      <2>5. r.kind \in {"reset", "ack"}
            BY <1>2, <1>4 DEF Empties, Answers
      <2>. QED
            BY <2>2, <2>3, <2>4, <2>5
<1>5. CASE r.kind = "answer" /\ r.mid # mid
      <2>1. r.mid = mid - 1 /\ r = AnswerTo(r.mid) /\ Answer(r)
            BY <1>1, <1>2, <1>5
      <2>2. SameRepresentation(r) /\ Duplicate(r)
            BY <1>2, <2>1, Repeats
      <2> HIDE DEF r
      <2>3. UNCHANGED <<blocks, exchange, complete, status, lost>>
            BY <2>1, <2>2 DEF Answer
      <2>4. UNCHANGED <<mid, asked>>
            BY <2>3 DEF exchange
      <2>5. InOrder' /\ InStep'
            BY <1>1, <1>3, <1>5, <2>3, <2>4, TakenSteady DEF r
      <2>. QED
            BY <1>3, <2>3, <2>5 DEF Running
<1>6. CASE r.kind = "answer" /\ r.mid = mid
      <2>1. r = AnswerTo(mid) /\ Answer(r)
            BY <1>1, <1>2, <1>6
      <2>2. /\ ~Duplicate(r) /\ SameRepresentation(r)
            /\ IF r.block = None THEN count = 0 ELSE Contiguous(r)
            /\ Len(parts) + Len(r.payload) <= Length[version]
            BY <1>6, <2>1, Fits
      <2>7. r.payload \in Seq(Units)
            BY <1>2, <1>6 DEF Empties, Answers
      <2>8. Len(r.payload) \in Nat
            BY <2>7
      <2>9. r.mid = mid /\ r.kind = "answer"
            BY <1>6
      <2>10. r = replies[1]
            OBVIOUS
      <2> HIDE DEF r
      <2>3. CASE Fails("incomplete_representation") /\ UNCHANGED blocks /\ ~Acceptable(r)
            <3>1. ~WithinBudget(r)
                  BY <2>2, <2>3 DEF Acceptable
            <3>2. Length[version] > MaxUnits \/ count = MaxBlocks
                  <4>1. /\ Length[version] \in Nat /\ MaxUnits \in Nat /\ MaxBlocks \in Nat
                        /\ count \in Nat /\ count <= MaxBlocks /\ Len(parts) \in Nat
                        BY BodyFacts, LimitAssumption DEF Safe, TypeOK, BoundedAndContiguous
                  <4>. QED
                        BY <2>2, <2>8, <3>1, <4>1 DEF WithinBudget
            <3>. QED
                  BY <1>3, <2>3, <3>2 DEF Fails
      <2>4. CASE /\ Acceptable(r)
                 /\ parts' = parts \o r.payload /\ count' = count + 1 /\ signature' = r.sig
                 /\ last' = IF r.block = None THEN last ELSE <<r.block, r.payload>>
                 /\ IF r.block # None /\ r.block.more
                    THEN AskNext(r) /\ UNCHANGED <<status, complete>>
                    ELSE /\ status' = "response" /\ complete' = TRUE
                         /\ UNCHANGED <<exchange, lost>>
            <3>1. CASE r.block # None /\ r.block.more
                  <4>1. last' = <<r.block, r.payload>> /\ AskNext(r) /\ status' = status
                        BY <2>4, <3>1
                  <4>2. InOrder' /\ InStep'
                        BY <1>1, <1>3, <2>4, <2>9, <2>10, <3>1, <4>1, AskedSteady
                  <4>. QED
                        BY <1>3, <4>1, <4>2 DEF Running
            <3>2. CASE ~(r.block # None /\ r.block.more)
                  BY <2>4, <3>2
            <3>. QED
                  BY <3>1, <3>2
      <2>. QED
            BY <2>1, <2>2, <2>3, <2>4 DEF Answer
<1>. QED
      BY <1>4, <1>5, <1>6

LEMMA SteadyInit == Init => Steady
<1> SUFFICES ASSUME Init PROVE InOrder /\ InStep
    BY DEF Steady
<1>1. /\ requests = <<>> /\ replies = <<>> /\ mid = 1 /\ asked = None /\ sent = 0 /\ acked = FALSE
      /\ parts = <<>> /\ count = 0 /\ signature = None /\ last = None /\ lost = 0
      BY DEF Init
<1>2. InOrder
      BY <1>1 DEF InOrder
<1>3. InStep
      <2>1. size \in Nat \ {0} /\ Length[version] \in Nat \ {0}
            BY SizesAssumption, BodyFacts DEF Init
      <2>2. (1 - 1) * size = 0 /\ Len(parts) = 0
            BY <1>1, <2>1
      <2>. QED
            BY <1>1, <2>1, <2>2 DEF InStep, AskOf
<1>. QED
      BY <1>2, <1>3

LEMMA SteadyStep == Safe /\ Steady /\ [Next]_vars => Steady'
<1> SUFFICES ASSUME Safe, Steady, [Next]_vars, Quiet'
             PROVE  InOrder' /\ InStep'
    BY DEF Steady
<1>1. CASE UNCHANGED <<requests, replies, device, mid, asked, blocks, status, upsets>>
      <2>1. UNCHANGED <<requests, replies, mid, asked, status, upsets, device, blocks>>
            BY <1>1
      <2>2. Quiet
            BY <2>1 DEF Quiet, Running
      <2>3. InStep'
            BY <2>1, <2>2, InStepKept DEF Steady
      <2>4. InOrder'
            BY <2>1, <2>2, InOrderNext DEF Steady, InOrder
      <2>. QED
            BY <2>3, <2>4
<1>2. CASE Serve \/ Receive \/ Send
      <2>1. Quiet /\ InOrder /\ InStep
            <3>1. Running /\ upsets = 0
                  <4>1. upsets' = 0 /\ upsets \in Nat
                        BY DEF Quiet, Safe, TypeOK
                  <4>2. Running
                        BY <1>2 DEF Serve, Receive, Send, Goes
                  <4>3. upsets' = upsets \/ upsets' = upsets + 1
                        BY <1>2 DEF Serve, Receive, Send, Overtakes
                  <4>. QED
                        BY <4>1, <4>2, <4>3
            <3>. QED
                  BY <3>1 DEF Quiet, Steady
      <2>2. upsets' = 0
            BY DEF Quiet
      <2>3. CASE Receive
            BY <2>1, <2>2, <2>3, ReceiveSteady DEF Quiet, Running
      <2>. QED
            BY <1>2, <2>1, <2>2, <2>3, ServeSteady, SendSteady
<1>3. CASE Change
      BY <1>3 DEF Change, Quiet, Safe, TypeOK
<1>4. CASE Stray \/ Tick
      BY <1>1, <1>4 DEF Stray, Tick, exchange
<1>5. CASE Budget \/ TimesOut \/ SocketError
      BY <1>5 DEF Budget, TimesOut, SocketError, Goes, Fails, Quiet, Running
<1>6. CASE UNCHANGED vars
      <2>1. UNCHANGED <<requests, replies, device, mid, asked, blocks, status, upsets>>
            BY <1>6 DEF vars, exchange
      <2>. QED
            BY <1>1, <2>1
<1>. QED
      BY <1>2, <1>3, <1>4, <1>5, <1>6 DEF Next

-----------------------------------------------------------------------------
(* Whatever upsets device and network                                      *)

\* An answer to the current request begins where the body ends.
LEMMA SliceBegins ==
    ASSUME Safe, Running, Current, NEW q \in Requests, q.asked = asked,
           NEW r \in {Whole(q), Slice(q)}
    PROVE  Begins(r)
<1>1. CASE r = Whole(q)
      <2>1. r.block = None
            BY <1>1 DEF Whole
      <2>. QED
            BY <2>1 DEF Begins
<1>2. CASE r = Slice(q)
      <2>1. r.block # None =>
               r.block.num * r.block.size = IF asked = None THEN 0 ELSE asked.num * asked.size
            BY <1>2, SliceGenuine DEF Safe
      <2>2. Len(parts) = IF asked = None THEN 0 ELSE asked.num * asked.size
            <3>1. asked = None => Len(parts) = 0
                  BY DEF Current
            <3>2. asked # None => asked.num * asked.size = Len(parts)
                  BY DEF Safe, BoundedAndContiguous
            <3>. QED
                  BY <3>1, <3>2
      <2>. QED
            BY <2>1, <2>2 DEF Begins
<1>. QED
      BY <1>1, <1>2

\* What is left of a sequence without one element is at the same place, or one
\* before.
LEMMA RemoveShifts ==
    ASSUME NEW S, NEW s \in Seq(S), NEW i \in 1 .. Len(s)
    PROVE  /\ Len(RemoveAt(s, i)) = Len(s) - 1
           /\ \A k \in 1 .. Len(RemoveAt(s, i)) :
                 \E j \in 1 .. Len(s) :
                    j # i /\ RemoveAt(s, i)[k] = s[j] /\ k = IF j < i THEN j ELSE j - 1
           /\ \A j \in 1 .. Len(s) : j # i =>
                 /\ (IF j < i THEN j ELSE j - 1) \in 1 .. Len(RemoveAt(s, i))
                 /\ RemoveAt(s, i)[IF j < i THEN j ELSE j - 1] = s[j]
<1> DEFINE t == RemoveAt(s, i)
<1>1. /\ Len(t) = Len(s) - 1 /\ Len(s) \in Nat
      /\ \A k \in 1 .. Len(s) - 1 : t[k] = IF k < i THEN s[k] ELSE s[k + 1]
      <2>1. /\ RemoveAt(s, i) \in Seq(S)
            /\ Len(RemoveAt(s, i)) = Len(s) - 1
            /\ \A k \in 1 .. Len(s) - 1 :
                  RemoveAt(s, i)[k] = IF k < i THEN s[k] ELSE s[k + 1]
            BY RemoveFacts, ZenonT(60)
      <2>. QED
            BY <2>1
<1> HIDE DEF t
<1>2. ASSUME NEW k \in 1 .. Len(t)
      PROVE  \E j \in 1 .. Len(s) : j # i /\ t[k] = s[j] /\ k = IF j < i THEN j ELSE j - 1
      <2>1. CASE k < i
            <3>1. k \in 1 .. Len(s) /\ k # i /\ t[k] = s[k] /\ k = IF k < i THEN k ELSE k - 1
                  BY <1>1, <2>1
            <3>. QED
                  BY <3>1
      <2>2. CASE ~(k < i)
            <3>1. k + 1 \in 1 .. Len(s) /\ k + 1 # i /\ t[k] = s[k + 1]
                  /\ k = IF k + 1 < i THEN k + 1 ELSE (k + 1) - 1
                  BY <1>1, <2>2
            <3>. QED
                  BY <3>1
      <2>. QED
            BY <2>1, <2>2
<1>3. ASSUME NEW j \in 1 .. Len(s), j # i
      PROVE  /\ (IF j < i THEN j ELSE j - 1) \in 1 .. Len(t)
             /\ t[IF j < i THEN j ELSE j - 1] = s[j]
      <2>1. CASE j < i
            <3>1. j \in 1 .. Len(t) /\ t[j] = s[j]
                  BY <1>1, <2>1
            <3>. QED
                  BY <2>1, <3>1
      <2>2. CASE ~(j < i)
            <3>1. j - 1 \in 1 .. Len(t) /\ ~(j - 1 < i) /\ (j - 1) + 1 = j
                  BY <1>1, <1>3, <2>2
            <3>2. t[j - 1] = s[j]
                  BY <1>1, <3>1
            <3>. QED
                  BY <2>2, <3>1, <3>2
      <2>. QED
            BY <2>1, <2>2
<1>. QED
      BY <1>1, <1>2, <1>3 DEF t

\* Places that are kept, one of them removed before, remain as many and as
\* different.
LEMMA PlacesKept ==
    ASSUME NEW n \in Nat, NEW A \in SUBSET (1 .. n), NEW B, NEW i \in 1 .. n,
           \A k \in A : k # i => (IF k < i THEN k ELSE k - 1) \in B
    PROVE  /\ (\E k \in A : k # i) => B # {}
           /\ i \notin A /\ (\E j, k \in A : j # k) => \E j, k \in B : j # k
<1>1. (\E k \in A : k # i) => B # {}
      OBVIOUS
<1>2. ASSUME i \notin A, NEW j \in A, NEW k \in A, j # k
      PROVE  \E x, y \in B : x # y
      <2> DEFINE x == IF j < i THEN j ELSE j - 1  y == IF k < i THEN k ELSE k - 1
      <2>1. x \in B /\ y \in B
            BY <1>2
      <2>2. x # y
            BY <1>2
      <2>. QED
            BY <2>1, <2>2
<1>. QED
      BY <1>1, <1>2

LEMMA ServeKept ==
    ASSUME Safe, Running, Current, Accounted, Serve
    PROVE  Current' /\ Accounted'
<1>1. PICK i \in 1 .. Len(requests) :
        LET q == requests[i]
            r == IF q.asked = None /\ ~blockwise THEN Whole(q) ELSE Slice(q)
            ack == [kind |-> "ack", mid |-> q.mid]
        IN
        /\ requests' = RemoveAt(requests, i)
        /\ Overtakes(i)
        /\ \/ /\ \E answer \in {<<r>>, <<ack, r>>, <<[kind |-> "reset", mid |-> q.mid]>>} :
                   replies' = replies \o answer
              /\ UNCHANGED lost
           \/ /\ \E answer \in {<<>>, <<ack>>} : replies' = replies \o answer
              /\ Losing(q.mid)
      BY DEF Serve
<1> DEFINE q == requests[i]
           r == IF q.asked = None /\ ~blockwise THEN Whole(q) ELSE Slice(q)
           ack == [kind |-> "ack", mid |-> q.mid]
           n == Len(replies)
<1>2. PICK answer \in {<<r>>, <<ack, r>>, <<[kind |-> "reset", mid |-> q.mid]>>, <<>>, <<ack>>} :
        /\ replies' = replies \o answer
        /\ \/ /\ answer \in {<<r>>, <<ack, r>>, <<[kind |-> "reset", mid |-> q.mid]>>}
              /\ lost' = lost
           \/ Losing(q.mid)
      BY <1>1
<1>3. /\ r \in {Whole(q), Slice(q)} /\ requests' = RemoveAt(requests, i)
      /\ q \in Requests /\ q = requests[i]
      BY <1>1, ElementOfSeq DEF Safe, TypeOK
<1> HIDE DEF q, r
<1>4. /\ \A k \in 1 .. Len(requests') :
            \E j \in 1 .. Len(requests) : j # i /\ requests'[k] = requests[j]
      /\ \A k \in Asking : k # i => (IF k < i THEN k ELSE k - 1) \in Asking'
      /\ Len(replies') = n + Len(answer)
      /\ \A k \in 1 .. n : k \in 1 .. Len(replies') /\ replies'[k] = replies[k]
      /\ \A k \in 1 .. Len(replies') :
            \/ k \in 1 .. n
            \/ /\ k > n /\ k - n \in 1 .. Len(answer) /\ replies'[k] = answer[k - n]
               /\ replies'[k].mid = q.mid /\ (replies'[k] \in Empties \/ replies'[k] = r)
      /\ Answering \subseteq Answering'
      <2>1. requests \in Seq(Requests) /\ replies \in Seq(Empties \cup Answers)
            BY DEF Safe, TypeOK
      <2>2. /\ Len(requests') = Len(requests) - 1
            /\ \A k \in 1 .. Len(requests') :
                  \E j \in 1 .. Len(requests) : j # i /\ requests'[k] = requests[j]
            /\ \A j \in 1 .. Len(requests) : j # i =>
                  /\ (IF j < i THEN j ELSE j - 1) \in 1 .. Len(requests')
                  /\ requests'[IF j < i THEN j ELSE j - 1] = requests[j]
            BY <1>3, <2>1, RemoveShifts
      <2>3. UNCHANGED mid
            BY DEF Serve, exchange
      <2>4. \A k \in Asking : k # i => (IF k < i THEN k ELSE k - 1) \in Asking'
            BY <2>2, <2>3 DEF Asking
      <2>5. /\ answer \in Seq(Empties \cup Answers)
            /\ \A k \in 1 .. Len(answer) : /\ answer[k].mid = q.mid
                                           /\ answer[k] \in Empties \/ answer[k] = r
            /\ r \in Answers /\ Genuine(r)
            BY <1>2, <1>3, ServedSequences, ZenonT(60) DEF Safe
      <2> DEFINE a == Len(answer)
      <2>6. /\ Len(replies') = n + a /\ n \in Nat /\ a \in Nat
            /\ \A k \in 1 .. n + a : replies'[k] = IF k <= n THEN replies[k] ELSE answer[k - n]
            BY <1>2, <2>1, <2>5, ConcatProperties
      <2> HIDE DEF n, a
      <2>7. \A k \in 1 .. n : k \in 1 .. Len(replies') /\ replies'[k] = replies[k]
            <3>1. ASSUME NEW k \in 1 .. n
                  PROVE  k \in 1 .. n + a /\ k <= n
                  BY <2>6
            <3>. QED
                  BY <2>6, <3>1
      <2>8. ASSUME NEW k \in 1 .. Len(replies'), k \notin 1 .. n
            PROVE  k > n /\ k - n \in 1 .. a /\ replies'[k] = answer[k - n]
            <3>1. k \in 1 .. n + a
                  BY <2>6
            <3>2. ~(k <= n) /\ k - n \in 1 .. a /\ k > n
                  BY <2>6, <2>8, <3>1
            <3>. QED
                  BY <2>6, <3>1, <3>2
      <2>9. \A k \in 1 .. Len(replies') :
               \/ k \in 1 .. n
               \/ /\ k > n /\ k - n \in 1 .. a /\ replies'[k] = answer[k - n]
                  /\ replies'[k].mid = q.mid /\ (replies'[k] \in Empties \/ replies'[k] = r)
            BY <2>5, <2>8 DEF a
      <2>10. Answering \subseteq Answering'
            BY <2>3, <2>7 DEF Answering, n
      <2>. QED
            BY <2>1, <2>2, <2>4, <2>6, <2>7, <2>9, <2>10 DEF n, a
<1> HIDE DEF n
<1>5. UNCHANGED <<mid, asked, sent, acked, parts, last>>
      BY DEF Serve, exchange, blocks
<1>6. /\ n \in Nat /\ Answering \subseteq 1 .. n /\ sent \in 0 .. 2 /\ lost \in Nat /\ Len(requests) \in Nat /\ mid \in Nat
      /\ i \in 1 .. Len(requests) /\ Asking \subseteq 1 .. Len(requests)
      BY DEF Safe, TypeOK, Asking, Answering, n
<1>7. q.mid <= mid /\ (q.mid = mid => q.asked = asked)
      BY <1>3 DEF Current
<1>8. /\ (\E k \in Asking : k # i) => Asking' # {}
      /\ i \notin Asking /\ (\E j, k \in Asking : j # k) => \E j, k \in Asking' : j # k
      BY <1>4, <1>6, PlacesKept
<1>9. Current'
      <2>1. \A k \in 1 .. Len(requests') :
               requests'[k].mid <= mid /\ (requests'[k].mid = mid => requests'[k].asked = asked)
            BY <1>4 DEF Current
      <2>2. ASSUME NEW k \in 1 .. Len(replies')
            PROVE  replies'[k].mid <= mid /\ (replies'[k].mid = mid => Begins(replies'[k]))
            <3>1. CASE k \in 1 .. n
                  BY <1>4, <3>1 DEF Current, n
            <3>2. CASE k \notin 1 .. n
                  <4>1. replies'[k].mid = q.mid /\ (replies'[k] \in Empties \/ replies'[k] = r)
                        BY <1>4, <3>2
                  <4>2. CASE replies'[k] \in Empties
                        BY <1>7, <4>1, <4>2 DEF Empties, Begins
                  <4>3. CASE replies'[k] = r
                        BY <1>3, <1>4, <1>7, <4>1, <4>3, SliceBegins
                  <4>. QED
                        BY <4>1, <4>2, <4>3
            <3>. QED
                  BY <3>1, <3>2
      <2>. QED
            BY <1>5, <2>1, <2>2 DEF Current, Begins
<1>10. CASE q.mid # mid
      <2>1. lost' = lost
            BY <1>2, <1>10 DEF Losing
      <2>2. i \notin Asking
            BY <1>3, <1>10 DEF Asking
      <2>3. Answering' = Answering
            <3>1. \A k \in Answering' : k \in Answering
                  BY <1>4, <1>5, <1>10 DEF Answering, n
            <3>. QED
                  BY <1>4, <3>1
      <2>4. Asking' = {} => Asking = {}
            BY <1>8, <2>2
      <2>5. Asking' # {} => Asking # {}
            <3>1. ASSUME NEW k \in Asking' PROVE Asking # {}
                  <4>1. k \in 1 .. Len(requests') /\ requests'[k].mid = mid
                        BY <1>5 DEF Asking
                  <4>2. PICK j \in 1 .. Len(requests) : requests'[k] = requests[j]
                        BY <1>4, <4>1
                  <4>. QED
                        BY <4>1, <4>2 DEF Asking
            <3>. QED
                  BY <3>1
      <2>6. (\E k \in 1 .. Len(replies') : replies'[k].mid = mid')
               => \E k \in 1 .. n : replies[k].mid = mid
            BY <1>4, <1>5, <1>10
      <2>7. (\E j, k \in Asking : j # k) => \E j, k \in Asking' : j # k
            BY <1>8, <2>2
      <2>8. Accounted'
            BY <1>5, <2>1, <2>3, <2>4, <2>5, <2>6, <2>7 DEF Accounted, n
      <2>. QED
            BY <1>9, <2>8
<1>11. CASE q.mid = mid
      <2>1. i \in Asking /\ sent >= 1
            <3>1. i \in Asking
                  BY <1>3, <1>11 DEF Asking
            <3>. QED
                  BY <3>1 DEF Accounted
      <2>2. CASE answer \in {<<r>>, <<ack, r>>, <<[kind |-> "reset", mid |-> q.mid]>>} /\ lost' = lost
            <3> DEFINE a == Len(answer)
            <3>1. a \in 1 .. a /\ answer[a].kind # "ack" /\ answer[a].mid = q.mid /\ a \in Nat
                  <4>1. r.kind = "answer" /\ r.mid = q.mid
                        <5>1. CASE r = Whole(q)
                              BY <5>1 DEF Whole
                        <5>2. CASE r = Slice(q)
                              <6>1. Slice(q) \in Answers /\ Slice(q).mid = q.mid
                                    BY <1>3, SliceGenuine DEF Safe
                              <6>. QED
                                    BY <5>2, <6>1 DEF Answers
                        <5>. QED
                              BY <1>3, <5>1, <5>2
                  <4>. QED
                        BY <2>2, <4>1, SMTT(60)
            <3> HIDE DEF a
            <3>2. n + a \in Answering' /\ n + a > n
                  <4>1. n + a \in 1 .. Len(replies') /\ n + a \notin 1 .. n /\ (n + a) - n = a
                        BY <1>4, <1>6, <3>1 DEF a
                  <4>2. replies'[n + a] = answer[a]
                        BY <1>4, <4>1
                  <4>. QED
                        BY <1>5, <1>6, <1>11, <3>1, <4>1, <4>2 DEF Answering
            <3>3. \/ lost' >= sent' - 1
                  \/ \E k, j \in Asking' : k # j
                  \/ \E k, j \in Answering' : k # j
                  \/ Asking' # {} /\ Answering' # {}
                  <4>1. CASE lost >= sent - 1
                        BY <1>5, <2>2, <4>1
                  <4>2. CASE \E k, j \in Asking : k # j
                        <5>1. \E k \in Asking : k # i
                              BY <4>2
                        <5>. QED
                              BY <1>8, <3>2, <5>1
                  <4>3. CASE \E k, j \in Answering : k # j
                        BY <1>4, <4>3
                  <4>4. CASE Answering # {}
                        <5>1. PICK k \in Answering : TRUE
                              BY <4>4
                        <5>2. k \in 1 .. n
                              BY <1>6, <5>1
                        <5>3. k # n + a /\ k \in Answering'
                              BY <1>4, <1>6, <3>2, <5>1, <5>2
                        <5>. QED
                              BY <3>2, <5>3
                  <4>. QED
                        BY <4>1, <4>2, <4>3, <4>4 DEF Accounted
            <3>4. Accounted'
                  BY <1>5, <2>1, <3>2, <3>3 DEF Accounted
            <3>. QED
                  BY <1>9, <3>4
      <2>3. CASE Losing(q.mid)
            <3>1. lost' = lost + 1
                  BY <1>11, <2>3 DEF Losing
            <3>2. lost' >= sent' - 1 /\ sent' >= 1
                  BY <1>5, <1>6, <2>1, <3>1
            <3>3. ASSUME Asking' = {}, Answering' = {} PROVE lost' >= sent'
                  <4>1. Answering = {}
                        BY <1>4, <3>3
                  <4>2. ~ \E k, j \in Asking : k # j
                        BY <1>8, <2>1, <3>3
                  <4>3. lost >= sent - 1
                        BY <4>1, <4>2 DEF Accounted
                  <4>. QED
                        BY <1>5, <1>6, <3>1, <4>3
            <3>4. Accounted'
                  BY <3>2, <3>3 DEF Accounted
            <3>. QED
                  BY <1>9, <3>4
      <2>. QED
            BY <1>2, <2>2, <2>3
<1>. QED
      BY <1>10, <1>11

LEMMA SendKept ==
    ASSUME Safe, Current, Accounted, Send
    PROVE  Current' /\ Accounted'
<1> DEFINE q == [mid |-> mid, asked |-> asked]
           f == Len(requests)
<1>1. /\ UNCHANGED <<replies, mid, asked, acked, parts, last>> /\ sent' = sent + 1 /\ sent < 2
      BY DEF Send, MustSend, blocks
<1>2. /\ requests \in Seq(Requests) /\ f \in Nat /\ q \in Requests /\ mid \in Nat \ {0}
      /\ sent \in 0 .. 2 /\ lost \in Nat
      BY DEF Safe, TypeOK, Requests
<1>3. Answering' = Answering /\ sent' >= 1
      BY <1>1, <1>2 DEF Answering
<1>4. CASE requests' = Append(requests, q) /\ lost' = lost
      <2>1. /\ Len(requests') = f + 1 /\ requests'[f + 1] = q
            /\ \A k \in 1 .. f : requests'[k] = requests[k]
            BY <1>2, <1>4, AppendProperties
      <2>2. \A k \in 1 .. f + 1 : k \in 1 .. f \/ k = f + 1
            BY <1>2
      <2>3. q.mid = mid /\ q.asked = asked
            OBVIOUS
      <2> HIDE DEF q
      <2>4. Current'
            <3>1. \A k \in 1 .. Len(requests') :
                     requests'[k].mid <= mid /\ (requests'[k].mid = mid => requests'[k].asked = asked)
                  BY <1>2, <2>1, <2>2, <2>3 DEF Current
            <3>. QED
                  BY <1>1, <3>1 DEF Current, Begins
      <2>5. f + 1 \in Asking' /\ Asking \subseteq Asking'
            <3>1. f + 1 \in Asking'
                  BY <1>1, <1>2, <2>1, <2>3 DEF Asking
            <3>2. \A k \in Asking : k \in Asking'
                  BY <1>1, <1>2, <2>1 DEF Asking
            <3>. QED
                  BY <3>1, <3>2
      <2>6. \/ lost' >= sent' - 1
            \/ \E i, j \in Asking' : i # j
            \/ Asking' # {} /\ Answering' # {}
            <3>1. CASE Asking = {} /\ Answering = {}
                  BY <1>1, <1>2, <1>4, <3>1 DEF Accounted
            <3>2. CASE Asking # {}
                  <4>1. PICK k \in Asking : TRUE
                        BY <3>2
                  <4>2. k # f + 1 /\ k \in Asking'
                        <5>1. k \in 1 .. f
                              BY <4>1 DEF Asking
                        <5> HIDE DEF f
                        <5>. QED
                              BY <1>2, <2>5, <4>1, <5>1
                  <4>. QED
                        BY <2>5, <4>2
            <3>3. CASE Answering # {}
                  BY <1>3, <2>5, <3>3
            <3>. QED
                  BY <3>1, <3>2, <3>3
      <2>7. Accounted'
            BY <1>3, <2>5, <2>6 DEF Accounted
      <2>. QED
            BY <2>4, <2>7
<1>5. CASE Losing(mid) /\ requests' = requests
      <2>1. lost' = lost + 1 /\ Asking' = Asking
            BY <1>1, <1>5 DEF Losing, Asking
      <2>2. /\ lost >= sent => lost' >= sent'
            /\ lost >= sent - 1 => lost' >= sent' - 1
            BY <1>1, <1>2, <2>1
      <2>3. Current'
            BY <1>1, <1>5 DEF Current, Begins
      <2>4. Accounted'
            BY <1>3, <2>1, <2>2 DEF Accounted
      <2>. QED
            BY <2>3, <2>4
<1>. QED
      BY <1>4, <1>5 DEF Send

\* The exchange goes on: what is taken is no answer to the current request.
LEMMA TakenKept ==
    ASSUME Safe, Current, Accounted, NEW i \in 1 .. Len(replies),
           replies' = RemoveAt(replies, i),
           UNCHANGED <<requests, mid, asked, sent, parts, last, lost>>,
           replies[i].mid = mid => replies[i].kind = "ack",
           (acked' = acked) \/ replies[i].mid = mid
    PROVE  Current' /\ Accounted'
<1> DEFINE n == Len(replies)
<1>1. replies \in Seq(Empties \cup Answers) /\ n \in Nat /\ Answering \subseteq 1 .. n
      BY DEF Safe, TypeOK, Answering
<1>2. /\ \A k \in 1 .. Len(replies') : \E j \in 1 .. n : replies'[k] = replies[j]
      /\ \A j \in 1 .. n : j # i =>
            /\ (IF j < i THEN j ELSE j - 1) \in 1 .. Len(replies')
            /\ replies'[IF j < i THEN j ELSE j - 1] = replies[j]
      BY <1>1, RemoveShifts
<1>3. Current'
      <2>1. \A k \in 1 .. Len(replies') :
               replies'[k].mid <= mid /\ (replies'[k].mid = mid => Begins(replies'[k]))
            BY <1>2 DEF Current
      <2>. QED
            BY <2>1 DEF Current, Begins
<1>4. Asking' = Asking
      BY DEF Asking
<1>5. i \notin Answering
      BY DEF Answering
<1>6. \A k \in Answering : k # i => (IF k < i THEN k ELSE k - 1) \in Answering'
      BY <1>2 DEF Answering
<1> HIDE DEF n
<1>7. /\ Answering # {} => Answering' # {}
      /\ (\E j, k \in Answering : j # k) => \E j, k \in Answering' : j # k
      <2>1. i \in 1 .. n
            BY DEF n
      <2> DEFINE A == Answering  B == Answering'
      <2>2. /\ A \in SUBSET (1 .. n) /\ i \notin A
            /\ \A k \in A : k # i => (IF k < i THEN k ELSE k - 1) \in B
            BY <1>1, <1>5, <1>6
      <2> HIDE DEF A, B
      <2>3. /\ A # {} => B # {}
            /\ (\E j, k \in A : j # k) => \E j, k \in B : j # k
            <3>1. /\ (\E k \in A : k # i) => B # {}
                  /\ (\E j, k \in A : j # k) => \E j, k \in B : j # k
                  BY <1>1, <2>1, <2>2, PlacesKept
            <3>. QED
                  BY <2>2, <3>1
      <2>. QED
            BY <2>3 DEF A, B
<1>8. acked' \/ (\E k \in 1 .. Len(replies') : replies'[k].mid = mid')
        => acked \/ (\E k \in 1 .. n : replies[k].mid = mid)
      <2>1. i \in 1 .. n
            BY DEF n
      <2>. QED
            BY <1>2, <2>1
<1>9. Accounted'
      BY <1>4, <1>7, <1>8 DEF Accounted, n
<1>. QED
      BY <1>3, <1>9

LEMMA TakenFrom ==
    ASSUME Safe, NEW i \in 1 .. Len(replies), replies' = RemoveAt(replies, i)
    PROVE  \A k \in 1 .. Len(replies') :
              \E j \in 1 .. Len(replies) : replies'[k] = replies[j]
<1>1. replies \in Seq(Empties \cup Answers)
      BY DEF Safe, TypeOK
<1>. QED
      BY <1>1, RemoveShifts

\* An answer is added, and the next block is asked for: nothing of the new
\* request is on its way.
LEMMA AskedKept ==
    ASSUME Safe, Current, NEW i \in 1 .. Len(replies), replies' = RemoveAt(replies, i),
           UNCHANGED requests,
           NEW r, r = replies[i], r.kind = "answer", Acceptable(r), r.block # None, r.block.more,
           parts' = parts \o r.payload, last' = <<r.block, r.payload>>, AskNext(r)
    PROVE  Current' /\ Accounted'
<1>1. replies \in Seq(Empties \cup Answers) /\ mid \in Nat \ {0}
      BY DEF Safe, TypeOK
<1>2. r \in Answers /\ Genuine(r)
      <2>1. r \in Empties \cup Answers
            BY <1>1, ElementOfSeq
      <2>2. r \in Answers
            BY <2>1 DEF Empties
      <2>. QED
            BY <2>2 DEF Safe, AllGenuine
<1>3. \A k \in 1 .. Len(replies') : \E j \in 1 .. Len(replies) : replies'[k] = replies[j]
      BY TakenFrom
<1>4. /\ mid' = mid + 1 /\ asked' \in [num : Nat, size : {r.block.size}]
      /\ sent' = 0 /\ acked' = FALSE /\ lost' = 0
      <2>1. Len(parts') \div r.block.size \in Nat
            <3>1. Len(parts') = (r.block.num + 1) * r.block.size
                  BY <1>2, AnswerAccepted
            <3>2. r.block.num + 1 \in Nat /\ r.block.size \in Nat \ {0}
                  <4>1. r.block \in Options
                        BY <1>2 DEF Answers
                  <4>2. r.block.num \in Nat /\ r.block.size \in Sizes
                        BY <4>1 DEF Options
                  <4> DEFINE b == r.block.num
                  <4>3. b \in Nat
                        BY <4>2
                  <4> HIDE DEF b
                  <4>4. b + 1 \in Nat
                        BY <4>3
                  <4>. QED
                        BY <4>2, <4>4, SizesAssumption DEF b
            <3>. QED
                  BY <3>1, <3>2, DivMultiple
      <2>. QED
            BY <2>1 DEF AskNext
<1>5. asked' # None
      <2>1. r.block.size \in Sizes
            BY <1>2 DEF Answers, Options
      <2>2. asked' \in Asks
            BY <1>4, <2>1 DEF Asks
      <2>. QED
            BY <2>2, NoneAssumption
<1>6. last'[1].num * last'[1].size < Len(parts')
      <2> DEFINE p == parts \o r.payload
      <2>1. Len(p) > r.block.num * r.block.size
            BY <1>2, AnswerAccepted
      <2>2. last'[1] = r.block /\ parts' = p
            OBVIOUS
      <2> HIDE DEF p
      <2>3. r.block.num * r.block.size < Len(p)
            BY <2>1
      <2>. QED
            BY <2>2, <2>3
<1>7. \A k \in 1 .. Len(requests) : requests[k].mid <= mid /\ requests[k].mid \in Nat
      <2>1. requests \in Seq(Requests)
            BY DEF Safe, TypeOK
      <2>2. \A k \in 1 .. Len(requests) : requests[k] \in Requests
            BY <2>1
      <2>. QED
            BY <2>2 DEF Current, Requests
<1>8. \A k \in 1 .. Len(replies) : replies[k].mid <= mid /\ replies[k].mid \in Nat
      <2>1. \A k \in 1 .. Len(replies) : replies[k] \in Empties \cup Answers
            BY <1>1
      <2>. QED
            BY <2>1 DEF Current, Empties, Answers
<1>9. /\ \A k \in 1 .. Len(requests') : requests'[k].mid <= mid' /\ requests'[k].mid # mid'
      /\ \A k \in 1 .. Len(replies') : replies'[k].mid <= mid' /\ replies'[k].mid # mid'
      <2>1. \A x : x \in Nat /\ x <= mid => x <= mid' /\ x # mid'
            BY <1>1, <1>4
      <2>2. ASSUME NEW k \in 1 .. Len(replies')
            PROVE  replies'[k].mid \in Nat /\ replies'[k].mid <= mid
            BY <1>3, <1>8
      <2>3. requests' = requests
            OBVIOUS
      <2>. QED
            BY <1>7, <2>1, <2>2, <2>3
<1>10. Current'
      BY <1>5, <1>6, <1>9 DEF Current
<1>11. Accounted'
      <2>1. Asking' = {} /\ Answering' = {}
            BY <1>9 DEF Asking, Answering
      <2>. QED
            BY <1>4, <1>9, <2>1 DEF Accounted
<1>. QED
      BY <1>10, <1>11

LEMMA ReceiveKept ==
    ASSUME Safe, Current, Accounted, Receive, Running'
    PROVE  Current' /\ Accounted'
<1>1. PICK i \in 1 .. Len(replies) :
        /\ replies' = RemoveAt(replies, i)
        /\ IF replies[i].kind = "answer" THEN Answer(replies[i]) ELSE Empty(replies[i])
      BY DEF Receive
<1> DEFINE r == replies[i]
<1>2. r \in Empties \cup Answers
      BY ElementOfSeq DEF Safe, TypeOK
<1>3. UNCHANGED requests /\ status' = "running"
      BY DEF Receive, Running
<1>4. CASE r.kind # "answer"
      <2>1. UNCHANGED <<mid, asked, sent, parts, last, lost>>
            BY <1>1, <1>4 DEF Empty, blocks
      <2>2. r.mid = mid => r.kind = "ack"
            BY <1>1, <1>2, <1>3, <1>4 DEF Empty, Empties, Answers
      <2>3. (acked' = acked) \/ r.mid = mid
            BY <1>1, <1>4 DEF Empty
      <2>. QED
            BY <1>1, <1>3, <2>1, <2>2, <2>3, TakenKept
<1>5. CASE r.kind = "answer"
      <2>1. Answer(r)
            BY <1>1, <1>5
      <2>2. CASE SameRepresentation(r) /\ Duplicate(r)
            <3>1. UNCHANGED <<blocks, exchange, lost>>
                  BY <2>1, <2>2 DEF Answer
            <3>2. r.mid # mid
                  <4>1. ASSUME r.mid = mid PROVE FALSE
                        <5>1. r.block # None /\ last = <<r.block, r.payload>>
                              BY <2>2 DEF Duplicate
                        <5>2. r.block.num * r.block.size = Len(parts)
                              BY <1>5, <4>1, <5>1 DEF Current, Begins
                        <5>3. last # None
                              <6>1. r \in Answers
                                    BY <1>2, <1>5 DEF Empties
                              <6>2. last \in Options \X Seq(Units)
                                    BY <5>1, <6>1 DEF Answers
                              <6>. QED
                                    BY <6>2, NoneAssumption
                        <5>4. r.block.num * r.block.size < Len(parts)
                              <6>1. last[1] = r.block
                                    BY <5>1
                              <6>. QED
                                    BY <5>3, <6>1 DEF Current
                        <5>5. Len(parts) \in Nat
                              BY DEF Safe, TypeOK
                        <5> HIDE DEF r
                        <5>. QED
                              BY <5>2, <5>4, <5>5
                  <4>. QED
                        BY <4>1
            <3>3. acked' = acked
                  BY <3>1 DEF exchange
            <3>4. UNCHANGED <<requests, mid, asked, sent, parts, last, lost>>
                  BY <1>3, <3>1 DEF exchange, blocks
            <3>. QED
                  BY <1>1, <3>2, <3>3, <3>4, TakenKept
      <2>3. CASE ~(SameRepresentation(r) /\ Duplicate(r))
            <3> HIDE DEF r
            <3>1. /\ Acceptable(r)
                  /\ parts' = parts \o r.payload
                  /\ last' = IF r.block = None THEN last ELSE <<r.block, r.payload>>
                  /\ r.block # None /\ r.block.more /\ AskNext(r)
                  BY <1>3, <2>1, <2>3 DEF Answer, Fails
            <3>. QED
                  BY <1>1, <1>3, <1>5, <3>1, AskedKept DEF r
      <2>. QED
            BY <2>2, <2>3
<1>. QED
      BY <1>4, <1>5

LEMMA KeptInit == Init => Kept
<1> SUFFICES ASSUME Init PROVE Current /\ Accounted
    BY DEF Kept
<1>1. /\ requests = <<>> /\ replies = <<>> /\ asked = None /\ sent = 0 /\ acked = FALSE
      /\ parts = <<>> /\ last = None /\ lost = 0
      BY DEF Init
<1>2. Current
      BY <1>1 DEF Current
<1>3. Asking = {} /\ Answering = {}
      BY <1>1 DEF Asking, Answering
<1>4. Accounted
      BY <1>1, <1>3 DEF Accounted
<1>. QED
      BY <1>2, <1>4

LEMMA KeptStep == Safe /\ Kept /\ [Next]_vars => Kept'
<1> SUFFICES ASSUME Safe, Kept, [Next]_vars, Running'
             PROVE  Current' /\ Accounted'
    BY DEF Kept
<1>1. CASE UNCHANGED <<requests, replies, mid, asked, sent, acked, parts, last, status, lost>>
      <2>1. Current /\ Accounted
            BY <1>1 DEF Kept, Running
      <2>2. Current'
            BY <1>1, <2>1 DEF Current, Begins
      <2>3. Asking' = Asking /\ Answering' = Answering
            BY <1>1 DEF Asking, Answering
      <2>4. Accounted'
            BY <1>1, <2>1, <2>3 DEF Accounted
      <2>. QED
            BY <2>2, <2>4
<1>2. CASE Serve \/ Receive \/ Send
      <2>1. Running /\ Current /\ Accounted
            BY <1>2 DEF Serve, Receive, Send, Goes, Kept
      <2>. QED
            BY <1>2, <2>1, ServeKept, ReceiveKept, SendKept
<1>3. CASE Change \/ Stray \/ Tick
      BY <1>1, <1>3 DEF Change, Stray, Tick, exchange, blocks
<1>4. CASE Budget \/ TimesOut \/ SocketError
      BY <1>4 DEF Budget, TimesOut, SocketError, Fails, Running
<1>5. CASE UNCHANGED vars
      BY <1>1, <1>5 DEF vars, exchange, blocks
<1>. QED
      BY <1>2, <1>3, <1>4, <1>5 DEF Next

\* The two kinds of failure: at the end of a block's time, and at an answer.
LEMMA TimesOutForAReason ==
    ASSUME Safe, Kept, TimesOut
    PROVE  \/ left = 0
           \/ /\ sent = 2 \/ acked
              /\ lost >= (IF acked THEN 1 ELSE 2) \/ Asking \cup Answering # {}
<1>1. /\ window = 0 /\ due \in 0 .. Timeout /\ left \in 0 .. Total /\ Window = 3 * Timeout
      /\ Timeout \in Nat \ {0} /\ Total \in Nat /\ sent \in 0 .. 2 /\ lost \in Nat /\ Running
      BY TimeAssumption DEF TimesOut, Safe, TypeOK, Window
<1>2. left = 0 \/ sent = 2 \/ acked
      BY <1>1 DEF Safe, Timed
<1>3. Asking = {} /\ Answering = {} => lost >= sent
      BY <1>1 DEF Kept, Accounted
<1>4. acked => sent >= 1
      BY <1>1 DEF Kept, Accounted
<1>. QED
      BY <1>1, <1>2, <1>3, <1>4

LEMMA FailsStep == Safe /\ Steady /\ Kept /\ FailsForAReason /\ [Next]_vars => FailsForAReason'
<1> SUFFICES ASSUME Safe, Steady, Kept, FailsForAReason, [Next]_vars
             PROVE  FailsForAReason'
    OBVIOUS
<1>1. CASE status' \notin {"timeout", "incomplete_representation"}
      BY <1>1 DEF FailsForAReason
<1>2. CASE UNCHANGED vars
      <2>1. UNCHANGED <<version, requests, replies, mid, sent, acked, left, count, status, lost,
                        upsets>>
            BY <1>2 DEF vars, device, exchange, blocks
      <2>2. UNCHANGED <<Asking, Answering>>
            BY <2>1 DEF Asking, Answering
      <2>. QED
            BY <2>1, <2>2 DEF FailsForAReason
<1>3. CASE Serve \/ Change \/ Send \/ Stray \/ Tick
      BY <1>1, <1>3 DEF Serve, Change, Send, Stray, Tick, Goes, Running
<1>4. CASE Budget \/ SocketError
      BY <1>1, <1>4 DEF Budget, SocketError, Fails
<1>5. CASE TimesOut
      <2>1. status' = "timeout" /\ UNCHANGED <<requests, replies, mid, sent, acked, left, lost>>
            BY <1>5 DEF TimesOut, Fails, exchange
      <2>2. UNCHANGED <<Asking, Answering>>
            BY <2>1 DEF Asking, Answering
      <2>3. \/ left = 0
            \/ /\ sent = 2 \/ acked
               /\ lost >= (IF acked THEN 1 ELSE 2) \/ Asking \cup Answering # {}
            BY <1>5, TimesOutForAReason
      <2>. QED
            BY <2>1, <2>2, <2>3 DEF FailsForAReason
<1>6. CASE Receive
      <2> SUFFICES ASSUME status' = "incomplete_representation", upsets' = 0
                   PROVE  Length[version'] > MaxUnits \/ count' = MaxBlocks
            <3>1. status' # "timeout"
                  <4>1. PICK i \in 1 .. Len(replies) :
                          IF replies[i].kind = "answer" THEN Answer(replies[i]) ELSE Empty(replies[i])
                        BY <1>6 DEF Receive
                  <4>2. status = "running"
                        BY <1>6 DEF Receive, Goes, Running
                  <4>. QED
                        BY <4>1, <4>2 DEF Answer, Empty, Fails
            <3>2. upsets' \in Nat
                  BY OnwardStep DEF Onward
            <3>. QED
                  BY <3>1, <3>2 DEF FailsForAReason
      <2>1. Running /\ upsets = 0
            BY <1>6 DEF Receive, Goes, Overtakes, Safe, TypeOK
      <2>2. Quiet /\ InOrder /\ InStep
            BY <2>1 DEF Steady, Quiet
      <2>3. CASE /\ UNCHANGED <<device, blocks>>
                 /\ Length[version] > MaxUnits \/ count = MaxBlocks
            BY <2>3 DEF device, blocks
      <2>. QED
            BY <1>6, <2>2, <2>3, ReceiveSteady DEF Running
<1>. QED
      BY <1>2, <1>3, <1>4, <1>5, <1>6 DEF Next

-----------------------------------------------------------------------------
(* The theorems                                                            *)

LEMMA TransferInv == Spec => []IndInv
<1>1. Init => IndInv
      <2>1. Init => FailsForAReason
            BY DEF Init, FailsForAReason
      <2>. QED
            BY <2>1, SafeInit, SteadyInit, KeptInit DEF IndInv, Safe
<1>2. IndInv /\ [Next]_vars => IndInv'
      BY SafeStep, SteadyStep, KeptStep, FailsStep DEF IndInv, Safe
<1>. QED
      BY <1>1, <1>2, PTL DEF Spec

\* A body reported complete is one representation from its first unit to its
\* last, or an error's empty body, though the device replaces the representation
\* and changes its block size while it is read, and the network loses, repeats
\* and reorders as it likes; only where the device does not tag what it shows may
\* it be a mixture, each unit in its place (352_plus_probe.py, Blocks.add).
THEOREM OneRepresentation == Spec => []WholeBody
<1>1. IndInv => WholeBody
      BY DEF IndInv
<1>. QED
      BY <1>1, TransferInv, PTL

\* The body stays within MAX_BYTES and its blocks within MAX_BLOCKS, and the block
\* asked for begins where the body ends, whatever sizes the device turns to
\* (352_plus_probe.py, Blocks.add and Client.request).
THEOREM AsksForWhatFollows == Spec => []BoundedAndContiguous
<1>1. IndInv => BoundedAndContiguous
      BY DEF IndInv
<1>. QED
      BY <1>1, TransferInv, PTL

\* With time left for the client and the request, a block times out only if both
\* of its transmissions, or what follows its acknowledgement, were lost or are
\* late, whatever the device and the network did before.  And while the device
\* keeps to its representation and its block size and nothing overtakes, a
\* transfer is given up as inconsistent only at a limit: one lost datagram and
\* the repeated answers to a retransmission do not end it (352_plus_probe.py,
\* Client.request and Blocks.add).
THEOREM NoFailureWithoutReason == Spec => []FailsForAReason
<1>1. IndInv => FailsForAReason
      BY DEF IndInv
<1>. QED
      BY <1>1, TransferInv, PTL
=============================================================================
