---------------------- MODULE MemoryReplication_proofs ----------------------
(***************************************************************************)
(* MemoryReplication's safety properties hold for any sizes of batches and *)
(* of the channel, any number of updates and any clock.                    *)
(*                                                                         *)
(* The updates given an id are, in order, those applied, those in the      *)
(* channel, those with the poller, and at most the one being handed over   *)
(* (AppliedInOrder, OneInHand).  An activation names a ticket whose id was *)
(* returned, and that ticket's update is earlier among those sent          *)
(* (KnownTickets); being earlier there it is applied earlier.  While the   *)
(* clock was not set back, replTS and replCount are past every id given,   *)
(* and getReplId passes on to a later millisecond only (IdsBelow).         *)
(***************************************************************************)
EXTENDS MemoryReplication, SequenceTheorems, TLAPS

-----------------------------------------------------------------------------
\* The inductive invariant.

\* All that was given an id is handed over, but for the update at its send.
OneInHand ==
  /\ step = "idle" <=> batch = << >>
  /\ handed = IF step = "send" THEN Len(sent) - 1 ELSE Len(sent)

\* sent[j] is the update of a new ticket with this id, among the first n.
TicketAmong(id, n) ==
  \E j \in 1 .. n : sent[j].cmd = "ticket" /\ sent[j].key = id

\* The tickets to be activated are known, before they are sent and after.
KnownTickets ==
  /\ \A k \in 1 .. Len(sent) :
       /\ sent[k].cmd = "ticket" => sent[k].key = sent[k].id
       /\ sent[k].cmd = "activate" => TicketAmong(sent[k].key, k - 1)
  /\ \A i \in 1 .. Len(batch) :
       batch[i].cmd = "activate" => TicketAmong(batch[i].key, acked)

\* No id given is after that of replTS and replCount, unless the clock was set back.
IdsBelow ==
  setbacks = 0 =>
    /\ replTS <= now
    /\ step = "stamp" => replTS < now
    /\ \A k \in 1 .. Len(sent) :
         \/ sent[k].id.ms < replTS
         \/ sent[k].id.ms = replTS /\ sent[k].id.count <= replCount
    /\ IdsIncrease

IInv == TypeOK /\ OneInHand /\ AppliedInOrder /\ KnownTickets /\ IdsBelow

-----------------------------------------------------------------------------
\* Sequences.

\* The head of a sequence moved to the end of the one before it.
LEMMA MoveHead ==
  ASSUME NEW S, NEW s \in Seq(S), NEW t \in Seq(S), t # << >>
  PROVE  Append(s, Head(t)) \o Tail(t) = s \o t
<1> DEFINE h == <<Head(t)>>
<1>1. /\ Head(t) \in S /\ Head(t) = t[1] /\ h \in Seq(S) /\ Tail(t) \in Seq(S)
      /\ Len(t) \in Nat \ {0}
  BY HeadTailProperties, EmptySeq
<1>2. t = h \o Tail(t)
  <2>1. 1 \in 1 .. Len(t) /\ Len(t) \in 1 .. Len(t) /\ 1 + 1 = 2
    BY <1>1
  <2>2. SubSeq(t, 1, Len(t)) = <<t[1]>> \o SubSeq(t, 2, Len(t))
    BY <2>1, SubSeqRecursiveFirst
  <2>3. QED
    BY <1>1, <2>2, SubSeqFull, TailIsSubSeq
<1>3. Append(s, Head(t)) = s \o h
  BY <1>1, AppendIsConcat
<1> HIDE DEF h
<1>4. (s \o h) \o Tail(t) = s \o (h \o Tail(t))
  BY <1>1
<1>5. QED
  BY <1>2, <1>3, <1>4

\* What is appended to a sequence does not change its beginnings.
LEMMA PrefixOfAppend ==
  ASSUME NEW S, NEW s \in Seq(S), NEW e \in S, NEW n \in 0 .. Len(s)
  PROVE  SubSeq(Append(s, e), 1, n) = SubSeq(s, 1, n)
<1>1. /\ Append(s, e) \in Seq(S) /\ Len(Append(s, e)) = Len(s) + 1
      /\ \A i \in 1 .. Len(s) : Append(s, e)[i] = s[i]
      /\ Len(s) \in Nat
  BY AppendProperties
<1>2. \A i \in 1 .. n : Append(s, e)[i] \in S /\ s[i] \in S
  BY <1>1
<1>3. /\ SubSeq(Append(s, e), 1, n) \in Seq(S) /\ SubSeq(s, 1, n) \in Seq(S)
      /\ Len(SubSeq(Append(s, e), 1, n)) = n /\ Len(SubSeq(s, 1, n)) = n
      /\ \A i \in 1 .. n : /\ SubSeq(Append(s, e), 1, n)[i] = Append(s, e)[i]
                           /\ SubSeq(s, 1, n)[i] = s[i]
  BY <1>2
<1>4. QED
  BY <1>1, <1>3, SeqEqual

-----------------------------------------------------------------------------
\* Type correctness.

LEMMA TypeInit == Init => TypeOK
<1> SUFFICES ASSUME Init PROVE TypeOK
  OBVIOUS
<1>1. Len(<< >>) = 0
  OBVIOUS
<1>2. 1 \in 1 .. MaxTime /\ 0 \in 0 .. MaxSetbacks /\ 0 <= Threshold /\ 0 <= Capacity
  BY MemoryAssumption
<1>3. QED
  BY <1>1, <1>2 DEF Init, TypeOK

\* The update that is given an id becomes an entry.
LEMMA StampedType ==
  ASSUME TypeOK, batch # << >>, NEW id \in Id, Stamped(id)
  PROVE  /\ sent' \in Seq(Entry) /\ Len(sent') = Len(sent) + 1
         /\ \A k \in 1 .. Len(sent) : sent'[k] = sent[k]
         /\ sent'[Len(sent) + 1].id = id
         /\ sent'[Len(sent) + 1].cmd = batch[1].cmd
         /\ sent'[Len(sent) + 1].key =
              IF batch[1].cmd = "ticket" THEN id ELSE batch[1].key
         /\ step' = "send"
<1> DEFINE e == [cmd |-> batch[1].cmd, id |-> id,
                 key |-> IF batch[1].cmd = "ticket" THEN id ELSE batch[1].key]
<1>1. batch[1] \in Update /\ Head(batch) = batch[1]
  BY DEF TypeOK
<1>2. e \in Entry
  BY <1>1 DEF Entry, Update
<1>3. sent' = Append(sent, e) /\ step' = "send"
  BY <1>1 DEF Stamped
<1>4. sent \in Seq(Entry)
  BY DEF TypeOK
<1>5. /\ sent' \in Seq(Entry) /\ Len(sent') = Len(sent) + 1
      /\ \A k \in 1 .. Len(sent) : sent'[k] = sent[k]
      /\ sent'[Len(sent) + 1] = e
  <2> HIDE DEF e
  <2>1. QED
    BY <1>2, <1>3, <1>4, AppendProperties
<1>6. QED
  BY <1>3, <1>5

LEMMA RequestsType == TypeOK => Requests \subseteq Update
<1> SUFFICES ASSUME TypeOK PROVE Requests \subseteq Update
  OBVIOUS
<1>1. NoId \in Id
  BY DEF NoId, Id
<1>2. ASSUME NEW j \in 1 .. acked PROVE sent[j].id \in Id
  <2>1. j \in 1 .. Len(sent)
    BY DEF TypeOK
  <2>2. sent[j] \in Entry
    BY <2>1, ElementOfSeq DEF TypeOK
  <2>3. QED
    BY <2>2 DEF Entry
<1>3. KnownIds \subseteq Id
  BY <1>2 DEF KnownIds
<1>4. QED
  BY <1>1, <1>3 DEF Requests, Update

LEMMA TypeStep == TypeOK /\ OneInHand /\ [Next]_vars => TypeOK'
<1> SUFFICES ASSUME TypeOK, OneInHand, [Next]_vars PROVE TypeOK'
  OBVIOUS
<1> USE MemoryAssumption DEF clockVars, sendVars, pollVars
<1>1. CASE Tick
  BY <1>1 DEF Tick, TypeOK
<1>2. CASE SetBack
  BY <1>2 DEF SetBack, TypeOK
<1>3. CASE StartBatch
  <2>1. PICK size \in 1 .. Threshold : batch' \in [1 .. size -> Requests]
    BY <1>3 DEF StartBatch
  <2>2. batch' \in Seq(Update) /\ Len(batch') <= Threshold
    BY <2>1, RequestsType
  <2>3. QED
    BY <1>3, <2>2 DEF StartBatch, TypeOK
<1>4. CASE Compare
  <2>1. batch # << >>
    BY <1>4 DEF Compare, OneInHand
  <2>2. CASE now = replTS
    <3>1. [ms |-> replTS, count |-> replCount'] \in Id /\ replCount' \in Nat
      BY <1>4, <2>2 DEF Compare, TypeOK, Id
    <3>2. sent' \in Seq(Entry) /\ Len(sent') = Len(sent) + 1 /\ step' = "send"
      BY <1>4, <2>1, <2>2, <3>1, StampedType DEF Compare
    <3>3. handed \in 0 .. Len(sent') /\ acked \in 0 .. handed
      BY <3>2 DEF TypeOK
    <3>4. QED
      BY <1>4, <3>1, <3>2, <3>3 DEF Compare, TypeOK
  <2>3. CASE now # replTS
    BY <1>4, <2>3 DEF Compare, TypeOK
  <2>4. QED
    BY <2>2, <2>3
<1>5. CASE Stamp
  <2>1. batch # << >>
    BY <1>5 DEF Stamp, OneInHand
  <2>2. [ms |-> now, count |-> 0] \in Id
    BY DEF TypeOK, Id
  <2>3. sent' \in Seq(Entry) /\ Len(sent') = Len(sent) + 1 /\ step' = "send"
    BY <1>5, <2>1, <2>2, StampedType DEF Stamp
  <2>4. handed \in 0 .. Len(sent') /\ acked \in 0 .. handed
    BY <2>3 DEF TypeOK
  <2>5. QED
    BY <1>5, <2>3, <2>4 DEF Stamp, TypeOK
<1>6. CASE HandOver
  <2>1. batch # << >> /\ handed = Len(sent) - 1 /\ Len(sent) \in Nat
    BY <1>6 DEF HandOver, OneInHand, TypeOK
  <2>2. sent[Len(sent)] \in Entry
    BY <2>1, ElementOfSeq DEF TypeOK
  <2>3. polled' \in Seq(Entry)
    BY <1>6, <2>2 DEF HandOver, TypeOK
  <2>4. batch' \in Seq(Update) /\ Len(batch') <= Threshold
    <3>1. Len(Tail(batch)) = Len(batch) - 1 /\ Tail(batch) \in Seq(Update)
      BY <2>1, HeadTailProperties DEF TypeOK
    <3>2. QED
      BY <1>6, <3>1 DEF HandOver, TypeOK
  <2>5. handed' \in 0 .. Len(sent) /\ acked' \in 0 .. handed'
    BY <1>6, <2>1 DEF HandOver, AckAfter, TypeOK
  <2>6. QED
    BY <1>6, <2>3, <2>4, <2>5 DEF HandOver, TypeOK
<1>7. CASE PollTimeout
  BY <1>7 DEF PollTimeout, TypeOK
<1>8. CASE Queue
  <2>1. Head(polled) \in Entry /\ polled' \in Seq(Entry)
    BY <1>8, HeadTailProperties DEF Queue, TypeOK
  <2>2. replStream' \in Seq(Entry) /\ Len(replStream') = Len(replStream) + 1
    BY <1>8, <2>1, AppendProperties DEF Queue, TypeOK
  <2>3. Len(replStream') <= Capacity
    BY <1>8, <2>2 DEF Queue, TypeOK
  <2>4. QED
    BY <1>8, <2>1, <2>2, <2>3 DEF Queue, TypeOK
<1>9. CASE PollAgain
  BY <1>9 DEF PollAgain, TypeOK
<1>10. CASE Apply
  <2>1. /\ Head(replStream) \in Entry /\ replStream' \in Seq(Entry)
        /\ Len(replStream') = Len(replStream) - 1
    BY <1>10, HeadTailProperties DEF Apply, TypeOK
  <2>2. applied' \in Seq(Entry)
    BY <1>10, <2>1 DEF Apply, TypeOK
  <2>3. Len(replStream') <= Capacity
    BY <2>1 DEF TypeOK
  <2>4. QED
    BY <1>10, <2>1, <2>2, <2>3 DEF Apply, TypeOK
<1>11. CASE UNCHANGED vars
  BY <1>11 DEF vars, TypeOK
<1>12. QED
  BY <1>1, <1>2, <1>3, <1>4, <1>5, <1>6, <1>7, <1>8, <1>9, <1>10, <1>11
     DEF Next, Send

-----------------------------------------------------------------------------
\* Order.

LEMMA InHandStep == TypeOK /\ OneInHand /\ [Next]_vars => OneInHand'
<1> SUFFICES ASSUME TypeOK, OneInHand, [Next]_vars PROVE OneInHand'
  OBVIOUS
<1> USE DEF clockVars, sendVars, pollVars
<1>1. CASE StartBatch
  <2>1. PICK size \in 1 .. Threshold : batch' \in [1 .. size -> Requests]
    BY <1>1 DEF StartBatch
  <2>2. batch' # << >>
    BY <2>1, MemoryAssumption
  <2>3. QED
    BY <1>1, <2>2 DEF StartBatch, OneInHand
<1>2. CASE Compare
  <2>1. batch # << >>
    BY <1>2 DEF Compare, OneInHand
  <2>2. CASE now = replTS
    <3>1. [ms |-> replTS, count |-> replCount'] \in Id
      BY <1>2, <2>2 DEF Compare, TypeOK, Id
    <3>2. Len(sent') = Len(sent) + 1 /\ step' = "send" /\ Len(sent) \in Nat
      BY <1>2, <2>1, <2>2, <3>1, StampedType DEF Compare, TypeOK
    <3>3. QED
      BY <1>2, <2>1, <3>2 DEF Compare, OneInHand
  <2>3. CASE now # replTS
    BY <1>2, <2>1, <2>3 DEF Compare, OneInHand
  <2>4. QED
    BY <2>2, <2>3
<1>3. CASE Stamp
  <2>1. batch # << >>
    BY <1>3 DEF Stamp, OneInHand
  <2>2. [ms |-> now, count |-> 0] \in Id
    BY DEF TypeOK, Id
  <2>3. Len(sent') = Len(sent) + 1 /\ step' = "send" /\ Len(sent) \in Nat
    BY <1>3, <2>1, <2>2, StampedType DEF Stamp, TypeOK
  <2>4. QED
    BY <1>3, <2>1, <2>3 DEF Stamp, OneInHand
<1>4. CASE HandOver
  <2>1. batch # << >> /\ batch \in Seq(Update) /\ handed = Len(sent) - 1
    BY <1>4 DEF HandOver, OneInHand, TypeOK
  <2>2. Len(batch) \in Nat /\ Len(batch') = Len(batch) - 1 /\ batch' \in Seq(Update)
    BY <1>4, <2>1, HeadTailProperties DEF HandOver
  <2>3. batch' = << >> <=> Len(batch) = 1
    <3>1. batch' # << >> => Len(batch') \in Nat \ {0}
      BY <2>2, EmptySeq
    <3>2. batch' = << >> => Len(batch') = 0
      OBVIOUS
    <3>3. QED
      BY <2>2, <3>1, <3>2
  <2>4. /\ step' = IF Len(batch) = 1 THEN "idle" ELSE "compare"
        /\ handed' = handed + 1 /\ sent' = sent /\ Len(sent) \in Nat
    BY <1>4 DEF HandOver, TypeOK
  <2>5. QED
    BY <2>1, <2>3, <2>4 DEF OneInHand
<1>5. CASE \/ Tick \/ SetBack \/ PollTimeout \/ Queue \/ PollAgain \/ Apply
           \/ UNCHANGED vars
  BY <1>5 DEF Tick, SetBack, PollTimeout, Queue, PollAgain, Apply, vars, OneInHand
<1>6. QED
  BY <1>1, <1>2, <1>3, <1>4, <1>5 DEF Next, Send

\* An update given an id does not change what was handed over.
LEMMA StampedKeepsHanded ==
  ASSUME TypeOK, batch # << >>, NEW id \in Id, Stamped(id)
  PROVE  SubSeq(sent', 1, handed) = SubSeq(sent, 1, handed)
<1>1. batch[1] \in Update /\ Head(batch) = batch[1]
  BY DEF TypeOK
<1>2. PICK e \in Entry : sent' = Append(sent, e)
  BY <1>1 DEF Stamped, Entry, Update
<1>3. QED
  BY <1>2, PrefixOfAppend DEF TypeOK

LEMMA OrderStep == TypeOK /\ OneInHand /\ AppliedInOrder /\ [Next]_vars => AppliedInOrder'
<1> SUFFICES ASSUME TypeOK, OneInHand, AppliedInOrder, [Next]_vars
             PROVE  AppliedInOrder'
  OBVIOUS
<1> USE DEF AppliedInOrder, clockVars, sendVars, pollVars
<1>1. CASE Compare
  <2>1. batch # << >>
    BY <1>1 DEF Compare, OneInHand
  <2>2. CASE now = replTS
    <3>1. [ms |-> replTS, count |-> replCount'] \in Id
      BY <1>1, <2>2 DEF Compare, TypeOK, Id
    <3>2. SubSeq(sent', 1, handed) = SubSeq(sent, 1, handed)
      BY <1>1, <2>1, <2>2, <3>1, StampedKeepsHanded DEF Compare
    <3>3. QED
      BY <1>1, <3>2 DEF Compare
  <2>3. CASE now # replTS
    BY <1>1, <2>3 DEF Compare
  <2>4. QED
    BY <2>2, <2>3
<1>2. CASE Stamp
  <2>1. batch # << >> /\ [ms |-> now, count |-> 0] \in Id
    BY <1>2 DEF Stamp, OneInHand, TypeOK, Id
  <2>2. SubSeq(sent', 1, handed) = SubSeq(sent, 1, handed)
    BY <1>2, <2>1, StampedKeepsHanded DEF Stamp
  <2>3. QED
    BY <1>2, <2>2 DEF Stamp
<1>3. CASE HandOver
  <2> DEFINE before == applied \o replStream
             last == sent[Len(sent)]
  <2>1. /\ sent \in Seq(Entry) /\ Len(sent) \in Nat /\ Len(sent) >= 1
        /\ handed + 1 = Len(sent) /\ handed \in Nat
        /\ polled \in Seq(Entry) /\ before \in Seq(Entry)
    BY <1>3 DEF HandOver, OneInHand, TypeOK
  <2>2. last \in Entry /\ <<last>> \in Seq(Entry)
    BY <2>1
  <2>3. before \o Append(polled, last) = (before \o polled) \o <<last>>
    <3> HIDE DEF before, last
    <3>1. Append(polled, last) = polled \o <<last>>
      BY <2>1, <2>2, AppendIsConcat
    <3>2. (before \o polled) \o <<last>> = before \o (polled \o <<last>>)
      BY <2>1, <2>2
    <3>3. QED
      BY <3>1, <3>2
  <2>4. SubSeq(sent, 1, Len(sent)) = SubSeq(sent, 1, Len(sent) - 1) \o <<last>>
    <3>1. 1 \in 1 .. Len(sent) /\ Len(sent) \in 1 .. Len(sent)
      BY <2>1
    <3>2. QED
      BY <2>1, <3>1, SubSeqRecursiveSecond
  <2>5. Len(sent) - 1 = handed
    BY <2>1
  <2>6. before \o polled = SubSeq(sent, 1, handed)
    OBVIOUS
  <2>7. /\ applied' = applied /\ replStream' = replStream /\ sent' = sent
        /\ polled' = Append(polled, last) /\ handed' = Len(sent)
    BY <1>3, <2>1 DEF HandOver
  <2>8. before \o Append(polled, last) = SubSeq(sent, 1, Len(sent))
    <3> HIDE DEF before, last
    <3>1. QED
      BY <2>3, <2>4, <2>5, <2>6
  <2>9. QED
    BY <2>7, <2>8
<1>4. CASE Queue
  <2> DEFINE queued == Append(replStream, Head(polled))
             rest == Tail(polled)
  <2>1. /\ applied \in Seq(Entry) /\ replStream \in Seq(Entry) /\ polled \in Seq(Entry)
        /\ queued \in Seq(Entry) /\ rest \in Seq(Entry)
    BY <1>4 DEF Queue, TypeOK
  <2>2. queued \o rest = replStream \o polled
    BY <1>4, <2>1, MoveHead DEF Queue
  <2>3. /\ applied' = applied /\ replStream' = queued /\ polled' = rest
        /\ sent' = sent /\ handed' = handed
    BY <1>4 DEF Queue
  <2> HIDE DEF queued, rest
  <2>4. (applied \o queued) \o rest = applied \o (queued \o rest)
    BY ONLY <2>1
  <2>5. (applied \o replStream) \o polled = applied \o (replStream \o polled)
    BY ONLY <2>1
  <2>6. QED
    BY <2>2, <2>3, <2>4, <2>5
<1>5. CASE Apply
  <2>1. Append(applied, Head(replStream)) \o Tail(replStream) = applied \o replStream
    BY <1>5, MoveHead DEF Apply, TypeOK
  <2>2. QED
    BY <1>5, <2>1 DEF Apply
<1>6. CASE \/ Tick \/ SetBack \/ StartBatch \/ PollTimeout \/ PollAgain
           \/ UNCHANGED vars
  BY <1>6 DEF Tick, SetBack, StartBatch, PollTimeout, PollAgain, vars
<1>7. QED
  BY <1>1, <1>2, <1>3, <1>4, <1>5, <1>6 DEF Next, Send

-----------------------------------------------------------------------------
\* Activations.

\* Entries given an id before are still there.
LEMMA TicketAmongStays ==
  ASSUME TypeOK, NEW m \in 0 .. Len(sent), NEW n \in Int, m <= n, NEW id,
         \A k \in 1 .. Len(sent) : sent'[k] = sent[k],
         TicketAmong(id, m)
  PROVE  \E j \in 1 .. n : sent'[j].cmd = "ticket" /\ sent'[j].key = id
<1>1. PICK j \in 1 .. m : sent[j].cmd = "ticket" /\ sent[j].key = id
  BY DEF TicketAmong
<1>2. j \in 1 .. Len(sent) /\ j \in 1 .. n
  BY DEF TypeOK
<1>3. QED
  BY <1>1, <1>2

LEMMA StampedKnown ==
  ASSUME TypeOK, KnownTickets, batch # << >>, NEW id \in Id, Stamped(id),
         batch' = batch, acked' = acked
  PROVE  KnownTickets'
<1>1. /\ Len(sent) \in Nat /\ Len(sent') = Len(sent) + 1
      /\ \A k \in 1 .. Len(sent) : sent'[k] = sent[k]
      /\ sent'[Len(sent) + 1].id = id
      /\ sent'[Len(sent) + 1].cmd = batch[1].cmd
      /\ sent'[Len(sent) + 1].key = IF batch[1].cmd = "ticket" THEN id ELSE batch[1].key
  BY StampedType DEF TypeOK
<1>2. acked \in 0 .. Len(sent) /\ Len(batch) \in Nat /\ Len(batch) >= 1
  BY DEF TypeOK
<1> DEFINE Kept == \A k \in 1 .. Len(sent) : sent'[k] = sent[k]
<1>2a. Kept
  BY <1>1
<1>3. ASSUME NEW k \in 1 .. Len(sent')
      PROVE  /\ sent'[k].cmd = "ticket" => sent'[k].key = sent'[k].id
             /\ sent'[k].cmd = "activate" => TicketAmong(sent[k].key, k - 1)'
  <2>1. CASE k \in 1 .. Len(sent)
    <3>1. k - 1 \in 0 .. Len(sent) /\ k - 1 \in Int /\ k - 1 <= k - 1
      BY <1>1, <2>1
    <3>2. sent'[k] = sent[k]
      BY <1>1, <2>1
    <3>3. ASSUME sent[k].cmd = "activate" PROVE TicketAmong(sent[k].key, k - 1)'
      <4>1. TicketAmong(sent[k].key, k - 1)
        BY <2>1, <3>3 DEF KnownTickets
      <4>2. \E j \in 1 .. k - 1 : sent'[j].cmd = "ticket" /\ sent'[j].key = sent[k].key
        BY <1>2a, <3>1, <4>1, TicketAmongStays
      <4>3. QED
        BY <3>2, <4>2 DEF TicketAmong
    <3>4. QED
      BY <2>1, <3>2, <3>3 DEF KnownTickets
  <2>2. CASE k = Len(sent) + 1
    <3>1. ASSUME sent'[k].cmd = "activate" PROVE TicketAmong(sent[k].key, k - 1)'
      <4>1. batch[1].cmd = "activate" /\ sent'[k].key = batch[1].key
        BY <1>1, <2>2, <3>1
      <4>2. TicketAmong(batch[1].key, acked)
        BY <1>2, <4>1 DEF KnownTickets
      <4>3. k - 1 \in Int /\ acked <= k - 1
        BY <1>1, <1>2, <2>2
      <4>4. \E j \in 1 .. k - 1 : sent'[j].cmd = "ticket" /\ sent'[j].key = batch[1].key
        <5> DEFINE n == k - 1
        <5>1. n \in Int /\ acked <= n /\ acked \in 0 .. Len(sent)
          BY <1>2, <4>3
        <5> HIDE DEF n
        <5>2. \E j \in 1 .. n : sent'[j].cmd = "ticket" /\ sent'[j].key = batch[1].key
          BY <1>2a, <4>2, <5>1, TicketAmongStays
        <5>3. QED
          BY <5>2 DEF n
      <4>5. QED
        BY <4>1, <4>4 DEF TicketAmong
    <3>2. sent'[k].cmd = "ticket" => sent'[k].key = sent'[k].id
      BY <1>1, <2>2
    <3>3. QED
      BY <3>1, <3>2
  <2>3. QED
    BY <1>1, <2>1, <2>2
<1>4. ASSUME NEW i \in 1 .. Len(batch), batch[i].cmd = "activate"
      PROVE  TicketAmong(batch[i].key, acked)'
  <2>1. TicketAmong(batch[i].key, acked)
    BY <1>4 DEF KnownTickets
  <2>2. acked \in Int /\ acked <= acked
    BY <1>2
  <2>3. \E j \in 1 .. acked : sent'[j].cmd = "ticket" /\ sent'[j].key = batch[i].key
    BY <1>1, <1>2, <2>1, <2>2, TicketAmongStays
  <2>4. QED
    BY <2>3 DEF TicketAmong
<1>5. QED
  BY <1>3, <1>4 DEF KnownTickets

LEMMA KnownStep == TypeOK /\ OneInHand /\ KnownTickets /\ [Next]_vars => KnownTickets'
<1> SUFFICES ASSUME TypeOK, OneInHand, KnownTickets, [Next]_vars
             PROVE  KnownTickets'
  OBVIOUS
<1> USE DEF clockVars, sendVars, pollVars
<1>1. CASE StartBatch
  <2>1. PICK size \in 1 .. Threshold : batch' \in [1 .. size -> Requests]
    BY <1>1 DEF StartBatch
  <2>2. Len(batch') = size /\ size \in Nat
    BY <2>1, MemoryAssumption
  <2>3. ASSUME NEW i \in 1 .. Len(batch'), batch'[i].cmd = "activate"
        PROVE  TicketAmong(batch'[i].key, acked)
    <3>1. batch'[i] \in Requests
      BY <2>1, <2>2
    <3>2. batch'[i].key \in KnownIds
      BY <2>3, <3>1 DEF Requests
    <3>3. PICK j \in 1 .. acked : sent[j].cmd = "ticket" /\ sent[j].id = batch'[i].key
      BY <3>2 DEF KnownIds
    <3>4. j \in 1 .. Len(sent)
      BY DEF TypeOK
    <3>5. sent[j].key = sent[j].id
      BY <3>3, <3>4 DEF KnownTickets
    <3>6. QED
      BY <3>3, <3>5 DEF TicketAmong
  <2>4. QED
    BY <1>1, <2>3 DEF StartBatch, KnownTickets, TicketAmong
<1>2. CASE Compare
  <2>1. batch # << >>
    BY <1>2 DEF Compare, OneInHand
  <2>2. CASE now = replTS
    <3>1. [ms |-> replTS, count |-> replCount'] \in Id
      BY <1>2, <2>2 DEF Compare, TypeOK, Id
    <3>2. QED
      BY <1>2, <2>1, <2>2, <3>1, StampedKnown DEF Compare
  <2>3. CASE now # replTS
    BY <1>2, <2>3 DEF Compare, KnownTickets, TicketAmong
  <2>4. QED
    BY <2>2, <2>3
<1>3. CASE Stamp
  <2>1. batch # << >> /\ [ms |-> now, count |-> 0] \in Id
    BY <1>3 DEF Stamp, OneInHand, TypeOK, Id
  <2>2. QED
    BY <1>3, <2>1, StampedKnown DEF Stamp
<1>4. CASE HandOver
  <2>1. batch # << >> /\ batch \in Seq(Update) /\ Len(batch) \in Nat /\ sent' = sent
    BY <1>4 DEF HandOver, OneInHand, TypeOK
  <2>2. /\ batch' = Tail(batch) /\ Len(batch') = Len(batch) - 1
        /\ \A i \in 1 .. Len(batch') : batch'[i] = batch[i + 1]
    BY <1>4, <2>1, HeadTailProperties DEF HandOver
  <2>3. acked' \in Nat /\ acked <= acked'
    BY <1>4 DEF HandOver, AckAfter, TypeOK
  <2>4. ASSUME NEW i \in 1 .. Len(batch'), batch'[i].cmd = "activate"
        PROVE  TicketAmong(batch'[i].key, acked')
    <3>1. i + 1 \in 1 .. Len(batch) /\ batch'[i] = batch[i + 1]
      BY <2>1, <2>2
    <3>2. TicketAmong(batch'[i].key, acked)
      BY <2>4, <3>1 DEF KnownTickets
    <3>3. 1 .. acked \subseteq 1 .. acked'
      BY <2>3 DEF TypeOK
    <3>4. QED
      BY <3>2, <3>3 DEF TicketAmong
  <2>5. QED
    BY <2>1, <2>4 DEF KnownTickets, TicketAmong
<1>5. CASE \/ Tick \/ SetBack \/ PollTimeout \/ Queue \/ PollAgain \/ Apply
           \/ UNCHANGED vars
  BY <1>5 DEF Tick, SetBack, PollTimeout, Queue, PollAgain, Apply, vars,
              KnownTickets, TicketAmong
<1>6. QED
  BY <1>1, <1>2, <1>3, <1>4, <1>5 DEF Next, Send

-----------------------------------------------------------------------------
\* Ids.

\* An id after all that were given keeps them in order.
LEMMA StampedAfter ==
  ASSUME TypeOK, IdsIncrease, setbacks = 0, setbacks' = 0, batch # << >>,
         NEW id \in Id, Stamped(id), \A k \in 1 .. Len(sent) : Before(sent[k].id, id)
  PROVE  /\ IdsIncrease'
         /\ \A k \in 1 .. Len(sent') :
              sent'[k].id = id \/ (k \in 1 .. Len(sent) /\ sent'[k].id = sent[k].id)
<1>1. /\ Len(sent) \in Nat /\ Len(sent') = Len(sent) + 1
      /\ DOMAIN sent = 1 .. Len(sent) /\ DOMAIN sent' = 1 .. Len(sent) + 1
      /\ \A k \in 1 .. Len(sent) : sent'[k] = sent[k]
      /\ sent'[Len(sent) + 1].id = id
  BY StampedType DEF TypeOK
<1>2. ASSUME NEW j \in DOMAIN sent', NEW k \in DOMAIN sent', j < k
      PROVE  Before(sent'[j].id, sent'[k].id)
  <2>1. j \in 1 .. Len(sent)
    BY <1>1, <1>2
  <2>2. CASE k \in 1 .. Len(sent)
    <3>1. Before(sent[j].id, sent[k].id)
      BY <1>1, <1>2, <2>1, <2>2 DEF IdsIncrease
    <3>2. QED
      BY <1>1, <2>1, <2>2, <3>1
  <2>3. CASE k = Len(sent) + 1
    BY <1>1, <2>1, <2>3
  <2>4. QED
    BY <1>1, <2>2, <2>3
<1>3. ASSUME NEW k \in 1 .. Len(sent')
      PROVE  sent'[k].id = id \/ (k \in 1 .. Len(sent) /\ sent'[k].id = sent[k].id)
  BY <1>1
<1>4. QED
  BY <1>2, <1>3 DEF IdsIncrease

LEMMA IdsStep == TypeOK /\ OneInHand /\ IdsBelow /\ [Next]_vars => IdsBelow'
<1> SUFFICES ASSUME TypeOK, OneInHand, IdsBelow, [Next]_vars, setbacks' = 0
             PROVE  /\ replTS' <= now'
                    /\ step' = "stamp" => replTS' < now'
                    /\ \A k \in 1 .. Len(sent') :
                         \/ sent'[k].id.ms < replTS'
                         \/ sent'[k].id.ms = replTS' /\ sent'[k].id.count <= replCount'
                    /\ IdsIncrease'
  BY DEF IdsBelow
<1> USE DEF clockVars, sendVars, pollVars
<1>1. setbacks = 0
  BY DEF Next, Send, Tick, SetBack, StartBatch, Compare, Stamp, HandOver, PollTimeout,
         Queue, PollAgain, Apply, vars, TypeOK
<1>2. /\ replTS <= now /\ replTS \in Nat /\ now \in Nat /\ replCount \in Nat
      /\ step = "stamp" => replTS < now
      /\ \A k \in 1 .. Len(sent) :
           \/ sent[k].id.ms < replTS
           \/ sent[k].id.ms = replTS /\ sent[k].id.count <= replCount
      /\ IdsIncrease
  BY <1>1 DEF IdsBelow, TypeOK
<1>3. \A k \in 1 .. Len(sent) : sent[k].id.ms \in Nat /\ sent[k].id.count \in Nat
  <2>1. \A k \in 1 .. Len(sent) : sent[k] \in Entry
    BY ElementOfSeq DEF TypeOK
  <2>2. QED
    BY <2>1 DEF Entry, Id
<1>4. CASE Compare
  <2>1. batch # << >>
    BY <1>4 DEF Compare, OneInHand
  <2>2. CASE now = replTS
    <3> DEFINE id == [ms |-> replTS, count |-> replCount + 1]
    <3>1. id \in Id /\ replCount' = replCount + 1 /\ Stamped(id) /\ step' = "send"
      BY <1>2, <1>4, <2>2 DEF Compare, Id, Stamped
    <3>2. \A k \in 1 .. Len(sent) : Before(sent[k].id, id)
      BY <1>2, <1>3 DEF Before
    <3>3. /\ IdsIncrease'
          /\ \A k \in 1 .. Len(sent') :
               sent'[k].id = id \/ (k \in 1 .. Len(sent) /\ sent'[k].id = sent[k].id)
      <4> HIDE DEF id
      <4>1. QED
        BY <1>1, <1>2, <2>1, <3>1, <3>2, StampedAfter
    <3>4. ASSUME NEW k \in 1 .. Len(sent')
          PROVE  \/ sent'[k].id.ms < replTS
                 \/ sent'[k].id.ms = replTS /\ sent'[k].id.count <= replCount + 1
      <4>1. CASE sent'[k].id = id
        BY <1>2, <4>1
      <4>2. CASE k \in 1 .. Len(sent) /\ sent'[k].id = sent[k].id
        BY <1>2, <1>3, <4>2
      <4>3. QED
        BY <3>3, <4>1, <4>2
    <3>5. replTS' = replTS /\ now' = now
      BY <1>4 DEF Compare
    <3>6. QED
      BY <1>2, <3>1, <3>3, <3>4, <3>5
  <2>3. CASE now # replTS
    BY <1>2, <1>4, <2>3 DEF Compare, IdsIncrease
  <2>4. QED
    BY <2>2, <2>3
<1>5. CASE Stamp
  <2> DEFINE id == [ms |-> now, count |-> 0]
  <2>1. /\ batch # << >> /\ id \in Id /\ Stamped(id) /\ replTS < now /\ step' = "send"
        /\ replTS' = now /\ now' = now /\ replCount' = 0
    BY <1>2, <1>5 DEF Stamp, OneInHand, Id, Stamped
  <2>2. \A k \in 1 .. Len(sent) : Before(sent[k].id, id)
    BY <1>2, <1>3, <2>1 DEF Before
  <2>3. /\ IdsIncrease'
        /\ \A k \in 1 .. Len(sent') :
             sent'[k].id = id \/ (k \in 1 .. Len(sent) /\ sent'[k].id = sent[k].id)
    <3> HIDE DEF id
    <3>1. QED
      BY <1>1, <1>2, <2>1, <2>2, StampedAfter
  <2>4. ASSUME NEW k \in 1 .. Len(sent')
        PROVE  \/ sent'[k].id.ms < now
               \/ sent'[k].id.ms = now /\ sent'[k].id.count <= 0
    <3>1. CASE sent'[k].id = id
      BY <3>1
    <3>2. CASE k \in 1 .. Len(sent) /\ sent'[k].id = sent[k].id
      BY <1>2, <1>3, <2>1, <3>2
    <3>3. QED
      BY <2>3, <3>1, <3>2
  <2>5. QED
    BY <1>2, <2>1, <2>3, <2>4
<1>6. CASE Tick
  BY <1>2, <1>6 DEF Tick, IdsIncrease
<1>7. CASE SetBack
  BY <1>1, <1>7 DEF SetBack
<1>8. CASE \/ StartBatch \/ HandOver \/ PollTimeout \/ Queue \/ PollAgain \/ Apply
           \/ UNCHANGED vars
  <2>1. \/ UNCHANGED <<now, setbacks, replTS, replCount, sent>> /\ step' # "stamp"
        \/ UNCHANGED <<now, setbacks, replTS, replCount, sent, step>>
    BY <1>8 DEF StartBatch, HandOver, PollTimeout, Queue, PollAgain, Apply, vars
  <2>2. QED
    BY <1>2, <2>1 DEF IdsIncrease
<1>9. QED
  BY <1>4, <1>5, <1>6, <1>7, <1>8 DEF Next, Send

-----------------------------------------------------------------------------
\* The clock, ids, the batch, the poller, the channel and the cache keep their types;
\* in particular the channel never holds more than it has room for.
THEOREM MemoryTypeCorrect == Spec => []TypeOK
<1>1. Init => TypeOK /\ OneInHand
  BY TypeInit DEF Init, OneInHand
<1>2. TypeOK /\ OneInHand /\ [Next]_vars => (TypeOK /\ OneInHand)'
  BY TypeStep, InHandStep
<1>3. QED
  BY <1>1, <1>2, PTL DEF Spec

LEMMA InductiveInvariant == Spec => []IInv
<1>1. Init => IInv
  <2> SUFFICES ASSUME Init PROVE IInv
    OBVIOUS
  <2>1. sent = << >> /\ batch = << >> /\ Len(<< >>) = 0 /\ DOMAIN << >> = {}
    BY DEF Init
  <2>2. AppliedInOrder
    <3>1. << >> \o << >> = << >> /\ SubSeq(<< >>, 1, 0) = << >>
      OBVIOUS
    <3>2. QED
      BY <3>1 DEF Init, AppliedInOrder
  <2>3. OneInHand /\ KnownTickets /\ IdsBelow
    BY <2>1 DEF Init, OneInHand, KnownTickets, IdsBelow, IdsIncrease
  <2>4. QED
    BY <2>2, <2>3, TypeInit DEF IInv
<1>2. IInv /\ [Next]_vars => IInv'
  BY TypeStep, InHandStep, OrderStep, KnownStep, IdsStep DEF IInv
<1>3. QED
  BY <1>1, <1>2, PTL DEF Spec

\* Each update that GetUpdates received is applied once, in the order of the ids,
\* whatever waits for the channel.
THEOREM UpdatesAppliedInOrder == Spec => []AppliedInOrder
<1>1. IInv => AppliedInOrder
  BY DEF IInv
<1>2. QED
  BY <1>1, InductiveInvariant, PTL

\* The updates applied are the first of those given an id.
LEMMA AppliedIsPrefix ==
  ASSUME TypeOK, AppliedInOrder
  PROVE  /\ DOMAIN applied = 1 .. Len(applied) /\ Len(applied) <= Len(sent)
         /\ Len(applied) \in Nat
         /\ \A k \in 1 .. Len(applied) : applied[k] = sent[k]
<1>1. /\ applied \in Seq(Entry) /\ replStream \in Seq(Entry) /\ polled \in Seq(Entry)
      /\ sent \in Seq(Entry) /\ handed \in 0 .. Len(sent) /\ Len(sent) \in Nat
      /\ Len(applied) \in Nat /\ Len(replStream) \in Nat /\ Len(polled) \in Nat
  BY DEF TypeOK
<1> DEFINE all == (applied \o replStream) \o polled
<1>2. /\ Len(all) = Len(applied) + Len(replStream) + Len(polled)
      /\ \A k \in 1 .. Len(applied) : all[k] = applied[k]
  BY <1>1
<1>3. \A i \in 1 .. handed : sent[i] \in Entry
  BY <1>1
<1>4. /\ Len(SubSeq(sent, 1, handed)) = handed
      /\ \A k \in 1 .. handed : SubSeq(sent, 1, handed)[k] = sent[k]
  BY <1>1, <1>3
<1>5. all = SubSeq(sent, 1, handed)
  BY DEF AppliedInOrder
<1> HIDE DEF all
<1>6. Len(applied) <= handed
  BY <1>1, <1>2, <1>4, <1>5
<1>7. \A k \in 1 .. Len(applied) : k \in 1 .. handed
  BY <1>1, <1>6
<1>8. DOMAIN applied = 1 .. Len(applied) /\ Len(applied) <= Len(sent)
  BY <1>1, <1>6
<1>9. ASSUME NEW k \in 1 .. Len(applied) PROVE applied[k] = sent[k]
  <2>1. all[k] = applied[k] /\ SubSeq(sent, 1, handed)[k] = sent[k]
    BY <1>2, <1>4, <1>7
  <2>2. QED
    BY <1>5, <2>1
<1>10. QED
  BY <1>1, <1>8, <1>9

\* No activation overtakes the ticket it activates.
THEOREM TicketsBeforeActivations == Spec => []TicketBeforeActivation
<1>1. IInv => TicketBeforeActivation
  <2> SUFFICES ASSUME IInv, NEW k \in DOMAIN applied, applied[k].cmd = "activate"
               PROVE  \E j \in 1 .. k - 1 : /\ applied[j].cmd = "ticket"
                                            /\ applied[j].key = applied[k].key
    BY DEF TicketBeforeActivation
  <2>1. /\ k \in 1 .. Len(applied) /\ Len(applied) <= Len(sent) /\ Len(applied) \in Nat
        /\ \A i \in 1 .. Len(applied) : applied[i] = sent[i]
    BY AppliedIsPrefix DEF IInv
  <2>2. k \in 1 .. Len(sent)
    BY <2>1 DEF IInv, TypeOK
  <2>3. TicketAmong(sent[k].key, k - 1)
    BY <2>1, <2>2 DEF IInv, KnownTickets
  <2>4. PICK j \in 1 .. k - 1 : sent[j].cmd = "ticket" /\ sent[j].key = sent[k].key
    BY <2>3 DEF TicketAmong
  <2>5. j \in 1 .. Len(applied)
    BY <2>1
  <2>6. QED
    BY <2>1, <2>4, <2>5
<1>2. QED
  BY <1>1, InductiveInvariant, PTL

\* Without a clock that is set back, ids are unique and increase, as Redis gives them.
THEOREM IdsAreIncreasing == Spec => []IdsIncrease
<1>1. IInv => IdsIncrease
  BY DEF IInv, IdsBelow, IdsIncrease
<1>2. QED
  BY <1>1, InductiveInvariant, PTL

=============================================================================
