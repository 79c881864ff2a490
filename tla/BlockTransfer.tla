---------------------------- MODULE BlockTransfer ----------------------------
(***************************************************************************)
(* tools/352_plus_probe.py: Client.request reads one resource over CoAP,    *)
(* block by block, with one retransmission per block; Blocks assembles the  *)
(* body.  Sizes are counted in units of 16 bytes, the smallest block.       *)
(*                                                                         *)
(* The device serves whole representations or blocks of them, may begin to  *)
(* use smaller blocks, and may replace the representation between two       *)
(* blocks; a tag (ETag) tells representations apart, where the device gives  *)
(* one.  The network loses, delays and reorders in both directions.         *)
(* Time passes in ticks, in which the client, which polls its socket,       *)
(* misses no transmission that is due.                                     *)
(***************************************************************************)
EXTENDS Naturals, Sequences, SequencesExt

CONSTANTS Versions,    \* representations of the resource
          Length,      \* units of each
          Sizes,       \* block sizes in units
          MaxUnits,    \* MAX_BYTES, in units
          MaxBlocks,   \* MAX_BLOCKS
          MaxPackets,  \* MAX_PACKETS: what is left of it for this request
          Timeout,     \* TIMEOUT, in ticks
          Total,       \* the 30 s of a request, in ticks
          Upsets,      \* changes of the device and datagrams overtaking others: a bound
          None

ASSUME LengthAssumption == Length \in [Versions -> Nat \ {0}]
\* Powers of two in the protocol: a smaller size divides a larger one.
ASSUME SizesAssumption ==
  /\ Sizes \subseteq Nat \ {0}
  /\ \A s, t \in Sizes : s <= t => t % s = 0
ASSUME LimitAssumption == {MaxUnits, MaxBlocks, MaxPackets} \subseteq Nat \ {0}

\* What a block may take.
Window == 3 * Timeout

ASSUME TimeAssumption == Timeout \in Nat \ {0} /\ Total \in Nat /\ Window <= Total

\* What requests and answers carry: the block asked for, a Block2 option, the
\* code of an answer with its tag, a unit of a body.
Asks == [num : Nat, size : Sizes]
Options == [num : Nat, size : Sizes, more : BOOLEAN]
Signatures == {"2.05", "4.00"} \X (Versions \cup {None})
Units == Versions \X Nat

ASSUME NoneAssumption ==
  /\ None \notin Asks /\ None \notin Options /\ None \notin Signatures
  /\ None \notin Options \X Seq(Units)
  /\ None \notin Versions

VARIABLES
  version,   \* the device's representation
  size,      \* the largest block it uses
  blockwise, \* it serves blocks of that representation from the first answer on
  tagged,    \* the representations it tags
  requests,  \* requests on their way to it, oldest first
  replies,   \* its answers on their way back, oldest first
  mid,       \* requests made: the message identifier of the current one
  asked,     \* the block the current one asks for, or None
  sent,      \* its transmissions
  acked,     \* it has an empty acknowledgement
  due,       \* ticks until its next transmission
  window,    \* ticks until its end
  left,      \* ticks until the 180 s of the client or the 30 s of the request end
  parts,     \* the body so far, unit by unit
  count,     \* blocks in it
  signature, \* code and tag of the representation being read, or None
  last,      \* the last block added, or None
  received,  \* datagrams received
  status,    \* result["status"], "running" until it is set
  complete,  \* result["body_complete"]
  lost,      \* datagrams lost of the current request and its answers
  upsets     \* changes of the device and datagrams that overtook others

device == <<version, size, blockwise, tagged>>
exchange == <<mid, asked, sent, acked, due, window>>
blocks == <<parts, count, signature, last>>
vars == <<device, requests, replies, exchange, left, blocks, received, status, complete, lost,
          upsets>>

\* The end of a block is never beyond that of the request.
Within(t) == IF t < Window THEN t ELSE Window

Init ==
  /\ version \in Versions /\ size \in Sizes /\ blockwise \in BOOLEAN
  /\ tagged \in SUBSET Versions
  /\ requests = <<>> /\ replies = <<>>
  /\ mid = 1 /\ asked = None /\ sent = 0 /\ acked = FALSE
  /\ left \in 0 .. Total /\ window = Within(left) /\ due = 0
  /\ parts = <<>> /\ count = 0 /\ signature = None /\ last = None
  /\ received = 0 /\ status = "running" /\ complete = FALSE
  /\ lost = 0 /\ upsets = 0

Running == status = "running"

-----------------------------------------------------------------------------
(* The device and the network                                              *)

Body(v) == [u \in 1 .. Length[v] |-> <<v, u>>]

\* The code of an answer and the tag of what it shows, if it has one.
Content == "2.05"
TagOf(v) == IF v \in tagged THEN v ELSE None

\* The block that request q asks for, in the smaller of its size and the
\* device's; one beyond the end is answered with an error.
Slice(q) ==
  LET s == IF q.asked = None \/ size < q.asked.size THEN size ELSE q.asked.size
      from == IF q.asked = None THEN 0 ELSE q.asked.num * q.asked.size
      to == IF from + s < Length[version] THEN from + s ELSE Length[version]
  IN IF from >= Length[version]
     THEN [kind |-> "answer", mid |-> q.mid, sig |-> <<"4.00", None>>, block |-> None,
           payload |-> <<>>]
     ELSE [kind |-> "answer", mid |-> q.mid, sig |-> <<Content, TagOf(version)>>,
           block |-> [num |-> from \div s, size |-> s, more |-> to < Length[version]],
           payload |-> SubSeq(Body(version), from + 1, to)]

Whole(q) ==
  [kind |-> "answer", mid |-> q.mid, sig |-> <<Content, TagOf(version)>>, block |-> None,
   payload |-> Body(version)]

\* The i-th oldest datagram arrives first.
Overtakes(i) ==
  /\ i > 1 => upsets < Upsets
  /\ upsets' = IF i > 1 THEN upsets + 1 ELSE upsets

\* One more answer to the current request is lost.
Losing(m) == lost' = IF m = mid THEN lost + 1 ELSE lost

\* The device answers at once, or acknowledges first, or resets; the network
\* loses the acknowledgement, the answer or both.
Serve ==
  /\ Running
  /\ \E i \in 1 .. Len(requests) :
       LET q == requests[i]
           r == IF q.asked = None /\ ~blockwise THEN Whole(q) ELSE Slice(q)
           ack == [kind |-> "ack", mid |-> q.mid]
       IN
       /\ requests' = RemoveAt(requests, i)
       /\ Overtakes(i)
       /\ \/ /\ \E answer \in {<<r>>, <<ack, r>>, <<[kind |-> "reset", mid |-> q.mid]>>} :
                  replies' = replies \o answer
             /\ UNCHANGED lost
          \/ /\ \E answer \in {<<>>, <<ack>>} : replies' = replies \o answer
             /\ Losing(q.mid)
  /\ UNCHANGED <<device, exchange, left, blocks, received, status, complete>>

\* The representation is replaced, or the device turns to smaller blocks.
Change ==
  /\ Running /\ upsets < Upsets
  /\ version' \in Versions /\ size' \in {s \in Sizes : s <= size}
  /\ <<version', size'>> # <<version, size>>
  /\ upsets' = upsets + 1
  /\ UNCHANGED <<blockwise, tagged, requests, replies, exchange, left, blocks, received, status,
                 complete, lost>>

-----------------------------------------------------------------------------
(* Blocks.add                                                              *)

\* What the blocks, the exchange and the result become.
Fails(reason) == status' = reason /\ UNCHANGED <<complete, exchange, lost>>

\* Mutant: a repeated block is not recognised.
NoDuplicate(r) == FALSE

Duplicate(r) == r.block # None /\ last = <<r.block, r.payload>>

\* Mutant: only the code is compared, not the tag.
SameCode(r) == signature = None \/ signature[1] = r.sig[1]

SameRepresentation(r) == signature \in {None, r.sig}

Contiguous(r) ==
  /\ r.block.num * r.block.size = Len(parts)
  /\ Len(r.payload) <= r.block.size
  /\ r.block.more => Len(r.payload) = r.block.size

WithinBudget(r) ==
  /\ Len(parts) + Len(r.payload) <= MaxUnits
  /\ r.block # None => count < MaxBlocks

Acceptable(r) ==
  /\ SameRepresentation(r)
  /\ IF r.block = None THEN count = 0 ELSE Contiguous(r)
  /\ WithinBudget(r)

-----------------------------------------------------------------------------
(* Client.request                                                          *)

\* The loop goes on while time and packets are left.  The first transmission
\* follows at once, the second when the first has gone unanswered for a while;
\* the client sends what is due before it receives.
Goes == Running /\ received < MaxPackets /\ window > 0

MustSend == sent < 2 /\ ~acked /\ due = 0

Send ==
  /\ Goes /\ MustSend
  /\ sent' = sent + 1 /\ due' = Timeout
  /\ \/ requests' = Append(requests, [mid |-> mid, asked |-> asked]) /\ UNCHANGED lost
     \/ Losing(mid) /\ UNCHANGED requests
  /\ UNCHANGED <<device, replies, mid, asked, acked, window, left, blocks, received, status,
                 complete, upsets>>

\* Mutant: the blocks are counted, whatever their sizes.
AskByCount(r) ==
  /\ mid' = mid + 1
  /\ asked' = [num |-> count', size |-> r.block.size]
  /\ sent' = 0 /\ acked' = FALSE /\ lost' = 0
  /\ window' = Within(left) /\ due' = 0

\* The request for the block that follows the body so far; its timers start
\* afresh.
AskNext(r) ==
  /\ mid' = mid + 1
  /\ asked' = [num |-> Len(parts') \div r.block.size, size |-> r.block.size]
  /\ sent' = 0 /\ acked' = FALSE /\ lost' = 0
  /\ window' = Within(left) /\ due' = 0

\* An answer: it is refused, repeats the last block, or is added; then it is
\* the last one, or the next is asked for.
Answer(r) ==
  IF SameRepresentation(r) /\ Duplicate(r)
  THEN UNCHANGED <<blocks, exchange, complete, status, lost>>
  ELSE IF ~Acceptable(r)
  THEN Fails("incomplete_representation") /\ UNCHANGED blocks
  ELSE /\ parts' = parts \o r.payload
       /\ count' = count + 1
       /\ signature' = r.sig
       /\ last' = IF r.block = None THEN last ELSE <<r.block, r.payload>>
       /\ IF r.block # None /\ r.block.more
          THEN AskNext(r) /\ UNCHANGED <<status, complete>>
          ELSE /\ status' = "response" /\ complete' = TRUE
               /\ UNCHANGED <<exchange, lost>>

\* An empty message counts only for the current request.
Empty(r) ==
  /\ IF r.mid # mid THEN UNCHANGED <<status, acked>>
     ELSE IF r.kind = "reset" THEN status' = "reset" /\ UNCHANGED acked
     ELSE acked' = TRUE /\ UNCHANGED status
  /\ UNCHANGED <<mid, asked, sent, due, window, blocks, complete, lost>>

\* The last packet of the budget is handled, and then named the reason, even if
\* it has completed the body.
Receive ==
  /\ Goes /\ ~MustSend
  /\ \E i \in 1 .. Len(replies) :
       /\ replies' = RemoveAt(replies, i)
       /\ Overtakes(i)
       /\ IF replies[i].kind = "answer" THEN Answer(replies[i]) ELSE Empty(replies[i])
  /\ received' = received + 1
  /\ UNCHANGED <<device, requests, left>>

\* A datagram that does not decode, or belongs to no request of this call.
Stray ==
  /\ Goes /\ ~MustSend
  /\ received' = received + 1
  /\ UNCHANGED <<device, requests, replies, exchange, left, blocks, status, complete, lost,
                 upsets>>

Budget ==
  /\ received = MaxPackets /\ status # "packet_budget_exhausted"
  /\ status' = "packet_budget_exhausted"
  /\ UNCHANGED <<device, requests, replies, exchange, left, blocks, received, complete, lost,
                 upsets>>

\* A tick passes; nothing that is due waits for it.
Tick ==
  /\ Goes /\ ~MustSend
  /\ left' = left - 1 /\ window' = window - 1
  /\ due' = IF due = 0 THEN 0 ELSE due - 1
  /\ UNCHANGED <<device, requests, replies, mid, asked, sent, acked, blocks, received, status,
                 complete, lost, upsets>>

\* The time of the current request is over.
TimesOut ==
  /\ Running /\ received < MaxPackets /\ window = 0
  /\ Fails("timeout")
  /\ UNCHANGED <<device, requests, replies, left, blocks, received, upsets>>

\* send or recv raises.
SocketError ==
  /\ Goes
  /\ Fails("socket_error")
  /\ UNCHANGED <<device, requests, replies, left, blocks, received, upsets>>

Next ==
  \/ Serve \/ Change
  \/ Send \/ Receive \/ Stray \/ Budget \/ Tick \/ TimesOut \/ SocketError

Spec == Init /\ [][Next]_vars

-----------------------------------------------------------------------------
(* Properties                                                              *)

\* Units of untagged representations, each in its place, up to the end of v.
Mixed(v) ==
  /\ Len(parts) = Length[v]
  /\ \A u \in 1 .. Len(parts) : \E w \in Versions \ tagged : parts[u] = <<w, u>>

\* A body reported complete is one representation of the device, from its first
\* unit to its last, whatever was lost, repeated, overtaken or replaced while
\* it was read, or an error's empty body: "Bounded contiguous Block2 assembly,
\* with representation consistency checks" (352_plus_probe.py:376).  Where the
\* device tags nothing, the checks see no difference: a body replaced between
\* two blocks is then a mixture, but each of its units still in its place, and
\* none left out.
WholeBody ==
  complete =>
    \/ parts = <<>>
    \/ \E v \in Versions : parts = Body(v)
    \/ upsets > 0 /\ \E v \in Versions \ tagged : Mixed(v)

\* Neither the body nor the number of blocks outgrows its limit, and the next
\* request asks for the block that begins where the body ends, though the
\* device may change its block size.
BoundedAndContiguous ==
  /\ Len(parts) <= MaxUnits /\ count <= MaxBlocks
  /\ asked # None /\ Running => asked.num * asked.size = Len(parts)

\* Where the current request and what answers it are on their way.
Asking == {i \in 1 .. Len(requests) : requests[i].mid = mid}
Answering == {i \in 1 .. Len(replies) : replies[i].mid = mid /\ replies[i].kind # "ack"}

\* A transfer fails only for a reason.  It times out at the end of the client's
\* or the request's time; or, with time left, when both transmissions of a
\* block, or what follows its acknowledgement, were lost or are still on their
\* way: whatever came before, and however the device changed.  It is given up
\* as inconsistent at a limit, or when device or network changed what was being
\* read: one lost datagram and the repeated answers to a retransmission do not
\* end it.
FailsForAReason ==
  /\ status = "timeout" =>
       \/ left = 0
       \/ /\ sent = 2 \/ acked
          /\ lost >= (IF acked THEN 1 ELSE 2) \/ Asking \cup Answering # {}
  /\ status = "incomplete_representation" =>
       upsets > 0 \/ Length[version] > MaxUnits \/ count = MaxBlocks

-----------------------------------------------------------------------------
(* Inductive invariant, in parts                                           *)

Requests == [mid : Nat \ {0}, asked : Asks \cup {None}]
Empties == [kind : {"ack", "reset"}, mid : Nat \ {0}]
Answers == [kind : {"answer"}, mid : Nat \ {0}, sig : Signatures, block : Options \cup {None},
            payload : Seq(Units)]

TypeOK ==
  /\ version \in Versions /\ size \in Sizes /\ blockwise \in BOOLEAN
  /\ requests \in Seq(Requests) /\ replies \in Seq(Empties \cup Answers)
  /\ mid \in Nat \ {0} /\ asked \in Asks \cup {None} /\ sent \in 0 .. 2 /\ acked \in BOOLEAN
  /\ tagged \in SUBSET Versions
  /\ due \in 0 .. Timeout /\ window \in 0 .. Window /\ left \in 0 .. Total
  /\ parts \in Seq(Units) /\ count \in Nat
  /\ signature \in Signatures \cup {None} /\ last \in (Options \X Seq(Units)) \cup {None}
  /\ received \in 0 .. MaxPackets
  /\ status \in {"running", "response", "reset", "timeout", "socket_error",
                 "incomplete_representation", "packet_budget_exhausted"}
  /\ complete \in BOOLEAN /\ lost \in Nat /\ upsets \in Nat

\* Where a block of a representation ends.
End(v, b) == IF (b.num + 1) * b.size < Length[v] THEN (b.num + 1) * b.size ELSE Length[v]

\* What is shown is of one of the representations; while nothing upsets the
\* device, of the one it has.
Shown(v) == v \in Versions /\ (upsets = 0 => v = version)

\* An answer is an error, a whole representation, or a block of one.
Genuine(r) ==
  \/ r.sig = <<"4.00", None>> /\ r.block = None /\ r.payload = <<>>
  \/ \E v \in Versions :
       /\ Shown(v) /\ r.sig = <<Content, TagOf(v)>>
       /\ \/ r.block = None /\ r.payload = Body(v)
          \/ /\ r.block \in Options
             /\ r.block.num * r.block.size < Length[v]
             /\ r.block.more <=> (r.block.num + 1) * r.block.size < Length[v]
             /\ r.payload = SubSeq(Body(v), r.block.num * r.block.size + 1, End(v, r.block))

AllGenuine == \A i \in 1 .. Len(replies) : replies[i] \in Answers => Genuine(replies[i])

\* What has been read are the first units of representations with the tag that
\* was seen first.
Assembled ==
  /\ signature = None <=> count = 0
  /\ signature = None => parts = <<>>
  /\ signature # None /\ signature[1] # Content => parts = <<>>
  /\ signature # None => \A u \in 1 .. Len(parts) :
       \E w \in Versions : Shown(w) /\ TagOf(w) = signature[2] /\ parts[u] = <<w, u>>
  /\ complete => ~Running

\* While nothing upsets device and network, the m-th request asks for the m-th
\* block, which is what its answers carry.
AskOf(m) == IF m = 1 THEN None ELSE [num |-> m - 1, size |-> size]
BlockOf(m) == [num |-> m - 1, size |-> size, more |-> m * size < Length[version]]
PayloadOf(m) == SubSeq(Body(version), (m - 1) * size + 1, End(version, BlockOf(m)))
AnswerTo(m) ==
  IF blockwise
  THEN [kind |-> "answer", mid |-> m, sig |-> <<Content, TagOf(version)>>,
        block |-> BlockOf(m), payload |-> PayloadOf(m)]
  ELSE Whole([mid |-> m, asked |-> None])

Quiet == upsets = 0 /\ Running

\* The datagrams on their way belong to the current request or the one before,
\* in the order of the requests.
InOrder ==
  /\ \A i \in 1 .. Len(requests) :
       /\ requests[i].mid \in {mid - 1, mid}
       /\ requests[i].asked = AskOf(requests[i].mid)
  /\ \A i \in 1 .. Len(replies) :
       /\ replies[i].mid \in {mid - 1, mid}
       /\ replies[i].kind = "answer" => replies[i] = AnswerTo(replies[i].mid)
  /\ \A i, j \in 1 .. Len(requests) : i < j => requests[i].mid <= requests[j].mid
  /\ \A i, j \in 1 .. Len(replies) : i < j => replies[i].mid <= replies[j].mid
  /\ \A i \in 1 .. Len(replies), j \in 1 .. Len(requests) : replies[i].mid <= requests[j].mid

\* The body so far is the blocks before the current one.
InStep ==
  /\ asked = AskOf(mid)
  /\ Len(parts) = (mid - 1) * size /\ count = mid - 1
  /\ (mid - 1) * size < Length[version]
  /\ mid = 1 => signature = None /\ last = None
  /\ mid > 1 => /\ blockwise /\ signature = <<Content, TagOf(version)>>
                /\ last = <<BlockOf(mid - 1), PayloadOf(mid - 1)>>

\* Every transmission of the current request is on its way, answered by what is
\* on its way, or lost.
Accounted ==
  /\ Asking = {} /\ Answering = {} => lost >= sent
  /\ \/ lost >= sent - 1
     \/ \E i, j \in Asking : i # j
     \/ \E i, j \in Answering : i # j
     \/ Asking # {} /\ Answering # {}
  /\ acked \/ Asking # {} \/ (\E i \in 1 .. Len(replies) : replies[i].mid = mid) => sent >= 1

\* Whatever upset device and network: what answers the current request begins
\* where the body ends, so that it does not repeat the last block.
Begins(r) ==
  r.kind = "answer" /\ r.block # None => r.block.num * r.block.size = Len(parts)

Current ==
  /\ \A i \in 1 .. Len(requests) :
       requests[i].mid <= mid /\ (requests[i].mid = mid => requests[i].asked = asked)
  /\ \A i \in 1 .. Len(replies) :
       replies[i].mid <= mid /\ (replies[i].mid = mid => Begins(replies[i]))
  /\ asked = None => parts = <<>>
  /\ last # None => last[1].num * last[1].size < Len(parts)

Steady == Quiet => InOrder /\ InStep
Kept == Running => Current /\ Accounted

\* A block ends with the request, or it goes through its two transmissions.
Timed ==
  /\ window <= left
  /\ window < left =>
       \/ acked \/ sent = 2
       \/ sent = 0 /\ due = 0 /\ window = Window
       \/ sent = 1 /\ window = due + 2 * Timeout

IndInv ==
  /\ TypeOK /\ AllGenuine /\ Assembled /\ WholeBody /\ BoundedAndContiguous /\ Steady
  /\ Kept /\ Timed /\ FailsForAReason

=============================================================================
