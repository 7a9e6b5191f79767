--------------------- MODULE OutgoingReplication_proofs ---------------------
(***************************************************************************)
(* OutgoingReplication's safety properties hold for any calls and requests,*)
(* any batch threshold and any faults.                                     *)
(*                                                                         *)
(* Owed is what the collecting goroutine has still to deliver: the batch,  *)
(* or, while results are delivered, the updates of those pending.  For     *)
(* each call it holds, in increasing order, exactly the updates between    *)
(* those whose results are in the call's channel or with its handler and   *)
(* those not sent yet (OwedOK).  So the next result of a call is always    *)
(* the one its handler counts on, and a handler that has as many results   *)
(* as it sent updates is owed nothing: it may close its channel.           *)
(*                                                                         *)
(* An update is spent when it is written or adrift.  What is spent left    *)
(* the batch for good (StreamOK), so, when a batch is written, whatever of *)
(* its calls is spent was answered before (SpentBefore).  With OwedOK this *)
(* is the contract of UpdateStore.                                         *)
(***************************************************************************)
EXTENDS OutgoingReplication, FiniteSetTheorems, SequenceTheorems,
        WellFoundedInduction, TLAPS

-----------------------------------------------------------------------------
\* The inductive invariant.

\* The updates whose results are still to be delivered.
Owed ==
  IF pending = << >> THEN batch ELSE [k \in 1 .. Len(pending) |-> pending[k].update]

OwedOK ==
  /\ pending # << >> => batch = << >>
  /\ \A c \in Call : Done(c) <= sent[c]
  /\ \A j, k \in 1 .. Len(Owed) :
       j < k /\ Owed[j].call = Owed[k].call => Owed[j].n < Owed[k].n
  /\ \A c \in Call, n \in Nat :
       (\E k \in 1 .. Len(Owed) : Owed[k] = [call |-> c, n |-> n])
         <=> n \in Done(c) + 1 .. sent[c]

\* Each result is where the handler looks for it.
PlacedOK(c) ==
  /\ \A n \in 1 .. Len(received[c]) : received[c][n].update = [call |-> c, n |-> n]
  /\ \A n \in 1 .. Len(rChan[c]) :
       rChan[c][n].update = [call |-> c, n |-> Len(received[c]) + n]

\* A handler that returned has all its results, and its outcome is made of them.
PhaseOK(c) ==
  /\ phase[c] = "start" => sent[c] = 0
  /\ phase[c] = "await" => sent[c] = Len(Updates(c))
  /\ phase[c] = "returned" => Len(received[c]) = sent[c]
  /\ closed[c] => phase[c] = "returned"
  /\ phase[c] # "returned" => outcome[c] = "none"
  /\ outcome[c] \in {"ok", "panic"} =>
       Len(received[c]) = Len(Updates(c)) /\ outcome[c] = Response(c)

\* What a result says is true of the stream, and of what can go wrong.
ResultOK(r) ==
  /\ r.clean /\ ~ r.err => r.id \in 1 .. Len(stream) /\ stream[r.id] = r.update
  /\ ~ ValidUpdate(r.update) => r.err
  /\ r.err /\ ValidUpdate(r.update) => Fault \cap {"xadd", "xtrim"} # {}

ResultsOK ==
  /\ \A c \in Call : /\ \A n \in 1 .. Len(received[c]) : ResultOK(received[c][n])
                     /\ \A n \in 1 .. Len(rChan[c]) : ResultOK(rChan[c][n])
  /\ \A k \in 1 .. Len(pending) : ResultOK(pending[k])

\* Update u was taken from a batch to be written: it is in the stream, or adrift.
Spent(u) == u \in Adrift \/ \E m \in 1 .. Len(stream) : u = stream[m]

\* What is adrift is there once, and is not written yet.
AdriftOK ==
  /\ \A s, t \in adrift : \A j \in 1 .. Len(s), k \in 1 .. Len(t) :
       s[j] = t[k] => s = t /\ j = k
  /\ \A m \in 1 .. Len(stream) : stream[m] \notin Adrift

\* What is spent was sent, and is in the batch no more; none is written twice.
StreamOK ==
  /\ \A u : Spent(u) => /\ u.n <= sent[u.call]
                        /\ \A k \in 1 .. Len(batch) : u # batch[k]
  /\ \A m, n \in 1 .. Len(stream) : m # n => stream[m] # stream[n]
  /\ AdriftOK

\* r is on its way from the collecting goroutine to a handler, or there.
Held(r) ==
  \/ \E c \in Call : \/ \E n \in 1 .. Len(received[c]) : r = received[c][n]
                     \/ \E n \in 1 .. Len(rChan[c]) : r = rChan[c][n]
  \/ \E k \in 1 .. Len(pending) : r = pending[k]

\* An id that is reported is that of an entry, and reported for one update.
IdsOK ==
  /\ \A r : Held(r) => r.id \in 0 .. Len(stream)
  /\ \A r, q : Held(r) /\ Held(q) /\ r.id = q.id /\ r.id # 0 => r.update = q.update

IInv ==
  /\ TypeOK
  /\ OwedOK
  /\ \A c \in Call : PlacedOK(c) /\ PhaseOK(c)
  /\ ResultsOK
  /\ IdsOK
  /\ StreamOK

-----------------------------------------------------------------------------
\* The elements of a sequence at a set of positions.

\* The order of the naturals, in which every set has a least element.
Less == {p \in Nat \X Nat : p[1] < p[2]}

LEMMA LessWellFounded == IsWellFoundedOn(Less, Nat)
  BY NatLessThanWellFounded DEF OpToRel, Less

\* The positions of S up to k.
Upto(S, k) == {j \in S : j <= k}

LEMMA UptoFinite ==
  ASSUME NEW L \in Nat, NEW S \in SUBSET (1 .. L), NEW k
  PROVE  /\ IsFiniteSet(S) /\ Cardinality(S) \in Nat
         /\ IsFiniteSet(Upto(S, k)) /\ Cardinality(Upto(S, k)) \in Nat
         /\ Cardinality(Upto(S, k)) <= Cardinality(S)
<1>1. IsFiniteSet(1 .. L)
  BY FS_Interval
<1>2. IsFiniteSet(S)
  BY <1>1, FS_Subset
<1>3. Upto(S, k) \in SUBSET S
  BY DEF Upto
<1>4. IsFiniteSet(Upto(S, k)) /\ Cardinality(Upto(S, k)) <= Cardinality(S)
  BY <1>2, <1>3, FS_Subset
<1>5. QED
  BY <1>2, <1>4, FS_CardinalityType

\* S has an m-th position for each m up to its size: the first one up to which there
\* are m of them.
LEMMA NthExists ==
  ASSUME NEW L \in Nat, NEW S \in SUBSET (1 .. L), NEW m \in 1 .. Cardinality(S)
  PROVE  Nth(S, m) \in S /\ Cardinality(Upto(S, Nth(S, m))) = m
<1> DEFINE Enough == {k \in Nat : Cardinality(Upto(S, k)) >= m}
<1>0. \A j \in S : j \in Nat /\ 1 <= j /\ j <= L
  OBVIOUS
<1>1. Cardinality(S) \in Nat /\ m \in Nat /\ m >= 1
  <2>1. Cardinality(S) \in Nat
    BY UptoFinite
  <2>2. QED
    BY <2>1
<1>2. \A k \in Nat : IsFiniteSet(Upto(S, k)) /\ Cardinality(Upto(S, k)) \in Nat
  BY UptoFinite
<1>3. L \in Enough
  <2>1. Upto(S, L) = S
    BY <1>0 DEF Upto
  <2>2. QED
    BY <1>1, <2>1
<1>4. PICK k \in Enough : \A j \in Enough : ~ (<<j, k>> \in Less)
  <2>1. Enough # {} /\ Enough \subseteq Nat
    BY <1>3
  <2> HIDE DEF Enough, Less
  <2>2. QED
    BY <2>1, LessWellFounded, WFMin
<1>5. k # 0
  <2>1. Upto(S, 0) = {}
    <3>1. \A j \in S : ~ (j <= 0)
      BY <1>0
    <3>2. QED
      BY <3>1 DEF Upto
  <2>2. Cardinality({}) = 0
    BY FS_EmptySet
  <2>3. QED
    BY <1>1, <2>1, <2>2
<1>6. k - 1 \in Nat /\ k \in Nat
  BY <1>5
<1>7. Cardinality(Upto(S, k - 1)) < m
  <2>1. \A j \in Enough : j \in Nat /\ ~ (<<j, k>> \in Less)
    BY <1>4
  <2>2. \A j \in Enough : ~ (j < k)
    <3> HIDE DEF Enough
    <3>1. QED
      BY <1>6, <2>1 DEF Less
  <2>3. k - 1 \notin Enough
    <3> HIDE DEF Enough
    <3>1. QED
      BY <1>6, <2>2
  <2>4. QED
    BY <1>1, <1>2, <1>6, <2>3
<1>8. Upto(S, k) = IF k \in S THEN Upto(S, k - 1) \cup {k} ELSE Upto(S, k - 1)
  <2>1. \A j \in S : j <= k <=> j <= k - 1 \/ j = k
    BY <1>0, <1>6
  <2>2. ~ (k <= k - 1)
    BY <1>6
  <2> HIDE DEF Enough
  <2>3. QED
    BY <2>1, <2>2 DEF Upto
<1>9. Cardinality(Upto(S, k)) >= m
  OBVIOUS
<1>10. k \in S
  <2> HIDE DEF Enough
  <2>1. QED
    BY <1>1, <1>2, <1>6, <1>7, <1>8, <1>9
<1>11. Cardinality(Upto(S, k)) = m
  <2>1. k \notin Upto(S, k - 1)
    BY <1>6 DEF Upto
  <2>2. Cardinality(Upto(S, k - 1) \cup {k}) = Cardinality(Upto(S, k - 1)) + 1
    BY <1>2, <1>6, <2>1, FS_AddElement
  <2>3. Cardinality(Upto(S, k)) = Cardinality(Upto(S, k - 1)) + 1
    BY <1>8, <1>10, <2>2
  <2> HIDE DEF Enough
  <2>4. QED
    BY <1>1, <1>2, <1>6, <1>7, <1>9, <2>3
<1>12. QED
  BY <1>10, <1>11 DEF Nth, Upto

\* Two positions of S that have as many before them are the same.
LEMMA UptoInjective ==
  ASSUME NEW L \in Nat, NEW S \in SUBSET (1 .. L), NEW j \in S, NEW k \in S,
         Cardinality(Upto(S, j)) = Cardinality(Upto(S, k))
  PROVE  j = k
<1>1. j \in Nat /\ k \in Nat
  OBVIOUS
<1>2. ASSUME NEW a \in S, NEW b \in S, a < b,
             Cardinality(Upto(S, a)) = Cardinality(Upto(S, b))
      PROVE  FALSE
  <2>1. a \in Nat /\ b \in Nat
    OBVIOUS
  <2>2. Upto(S, a) \in SUBSET Upto(S, b) /\ b \in Upto(S, b) /\ b \notin Upto(S, a)
    <3>1. \A i \in S : i \in Nat
      OBVIOUS
    <3>2. \A i \in S : i <= a => i <= b
      BY <1>2, <2>1, <3>1
    <3>3. b <= b /\ ~ (b <= a)
      BY <1>2, <2>1
    <3>4. QED
      BY <3>2, <3>3 DEF Upto
  <2>3. Upto(S, a) = Upto(S, b)
    <3>1. IsFiniteSet(Upto(S, b))
      BY UptoFinite
    <3>2. QED
      BY <1>2, <2>2, <3>1, FS_Subset
  <2>4. QED
    BY <2>2, <2>3
<1>3. ~ (j < k) /\ ~ (k < j)
  BY <1>2
<1>4. QED
  BY <1>1, <1>3

\* A position is the one that its number among them says.
LEMMA NthOf ==
  ASSUME NEW L \in Nat, NEW S \in SUBSET (1 .. L), NEW k \in S
  PROVE  /\ Cardinality(Upto(S, k)) \in 1 .. Cardinality(S)
         /\ Nth(S, Cardinality(Upto(S, k))) = k
<1> DEFINE m == Cardinality(Upto(S, k))
<1>1. /\ IsFiniteSet(Upto(S, k)) /\ m \in Nat /\ m <= Cardinality(S)
      /\ Cardinality(S) \in Nat
  BY UptoFinite
<1>2. m # 0
  <2>1. k \in Nat
    OBVIOUS
  <2>2. k \in Upto(S, k)
    BY <2>1 DEF Upto
  <2>3. QED
    BY <1>1, <2>2, FS_EmptySet
<1>3. m \in 1 .. Cardinality(S)
  BY <1>1, <1>2
<1> HIDE DEF m
<1>4. Nth(S, m) \in S /\ Cardinality(Upto(S, Nth(S, m))) = m
  BY <1>3, NthExists
<1>5. Nth(S, m) = k
  BY <1>4, UptoInjective DEF m
<1>6. QED
  BY <1>3, <1>5 DEF m

\* Picking elements yields a sequence of them.
LEMMA PickType ==
  ASSUME NEW T, NEW s \in Seq(T), NEW S \in SUBSET (1 .. Len(s))
  PROVE  /\ Pick(s, S) \in Seq(T)
         /\ Len(Pick(s, S)) = Cardinality(S) /\ Cardinality(S) \in Nat
         /\ Cardinality(S) <= Len(s)
         /\ \A m \in 1 .. Cardinality(S) :
              Nth(S, m) \in S /\ Pick(s, S)[m] = s[Nth(S, m)]
<1>1. Len(s) \in Nat
  OBVIOUS
<1>2. Cardinality(S) \in Nat
  BY <1>1, UptoFinite
<1>3. \A m \in 1 .. Cardinality(S) : Nth(S, m) \in S
  BY <1>1, NthExists
<1>4. \A m \in 1 .. Cardinality(S) : s[Nth(S, m)] \in T
  <2>1. \A k \in S : s[k] \in T
    OBVIOUS
  <2>2. QED
    BY <1>3, <2>1
<1>5. Pick(s, S) \in [1 .. Cardinality(S) -> T]
  BY <1>4 DEF Pick
<1>6. Cardinality(S) <= Len(s)
  <2>1. IsFiniteSet(1 .. Len(s)) /\ Cardinality(1 .. Len(s)) = Len(s)
    <3>1. 1 \in Int /\ Len(s) \in Int /\ (1 > Len(s) => Len(s) = 0)
      BY <1>1
    <3>2. QED
      BY <1>1, <3>1, FS_Interval
  <2>2. QED
    BY <2>1, FS_Subset
<1>7. QED
  BY <1>2, <1>3, <1>5, <1>6 DEF Pick

\* It picks none twice.
LEMMA PickInjective ==
  ASSUME NEW T, NEW s \in Seq(T), NEW S \in SUBSET (1 .. Len(s)),
         \A j, k \in 1 .. Len(s) : j # k => s[j] # s[k],
         NEW m \in 1 .. Len(Pick(s, S)), NEW n \in 1 .. Len(Pick(s, S)), m # n
  PROVE  Pick(s, S)[m] # Pick(s, S)[n]
<1>1. Len(s) \in Nat /\ m \in 1 .. Cardinality(S) /\ n \in 1 .. Cardinality(S)
  BY PickType
<1>2. /\ Nth(S, m) \in S /\ Cardinality(Upto(S, Nth(S, m))) = m
      /\ Nth(S, n) \in S /\ Cardinality(Upto(S, Nth(S, n))) = n
  BY <1>1, NthExists
<1>3. Nth(S, m) # Nth(S, n)
  BY <1>2
<1>4. Pick(s, S)[m] = s[Nth(S, m)] /\ Pick(s, S)[n] = s[Nth(S, n)]
  BY <1>1, PickType
<1>5. Nth(S, m) \in 1 .. Len(s) /\ Nth(S, n) \in 1 .. Len(s)
  BY <1>2
<1>6. QED
  BY <1>3, <1>4, <1>5

\* It keeps their order.
LEMMA PickOrdered ==
  ASSUME NEW T, NEW s \in Seq(T), NEW S \in SUBSET (1 .. Len(s)),
         NEW m \in 1 .. Len(Pick(s, S)), NEW n \in 1 .. Len(Pick(s, S)), m < n
  PROVE  \E j, k \in 1 .. Len(s) : j < k /\ Pick(s, S)[m] = s[j] /\ Pick(s, S)[n] = s[k]
<1>1. /\ Len(s) \in Nat /\ Cardinality(S) \in Nat
      /\ m \in 1 .. Cardinality(S) /\ n \in 1 .. Cardinality(S)
  BY PickType
<1>2. PICK j \in S, k \in S : j = Nth(S, m) /\ k = Nth(S, n)
  BY <1>1, NthExists
<1>3. Cardinality(Upto(S, j)) = m /\ Cardinality(Upto(S, k)) = n
  BY <1>1, <1>2, NthExists
<1>4. j \in 1 .. Len(s) /\ k \in 1 .. Len(s) /\ j \in Nat /\ k \in Nat
  BY <1>1
<1>5. ~ (k <= j)
  <2>1. SUFFICES ASSUME k <= j PROVE FALSE
    OBVIOUS
  <2>2. \A i \in S : i \in Nat
    BY <1>1
  <2>3. \A i \in S : i <= k => i <= j
    BY <1>4, <2>1, <2>2
  <2>4. Upto(S, k) \in SUBSET Upto(S, j)
    BY <2>3 DEF Upto
  <2>5. IsFiniteSet(Upto(S, j))
    BY <1>1, UptoFinite
  <2>6. Cardinality(Upto(S, k)) <= Cardinality(Upto(S, j))
    BY <2>4, <2>5, FS_Subset
  <2>7. QED
    BY <1>1, <1>3, <2>6
<1>6. Pick(s, S)[m] = s[j] /\ Pick(s, S)[n] = s[k]
  BY <1>1, <1>2, PickType
<1>7. QED
  BY <1>4, <1>5, <1>6

-----------------------------------------------------------------------------
\* Requests and their updates.

\* Updates are numbered, and a channel's room is a number.
LEMMA RequestType ==
  ASSUME TypeOK, NEW c \in Call
  PROVE  /\ request[c] \in Request /\ request[c].rpc \in Rpc
         /\ Ids(c) \in Seq(IdForm) /\ Len(Ids(c)) \in Nat
         /\ Cardinality(IsGood(c)) \in Nat /\ Cardinality(NotEmpty(c)) \in Nat
         /\ Len(Updates(c)) \in Nat /\ RoomFor(c) \in Nat
<1>1. request[c] \in Request
  BY DEF TypeOK
<1>2. request[c].rpc \in Rpc /\ Ids(c) \in Seq(IdForm)
  BY <1>1, OutgoingAssumption DEF Ids
<1>3. Len(Ids(c)) \in Nat /\ DOMAIN Ids(c) = 1 .. Len(Ids(c))
  BY <1>2
<1>4. IsGood(c) \in SUBSET (1 .. Len(Ids(c))) /\ NotEmpty(c) \in SUBSET (1 .. Len(Ids(c)))
  BY <1>3 DEF IsGood, NotEmpty
<1>5. Cardinality(IsGood(c)) \in Nat /\ Cardinality(NotEmpty(c)) \in Nat
  BY <1>3, <1>4, UptoFinite
<1>6. Len(Updates(c)) \in Nat
  BY <1>2, <1>3, <1>5 DEF Updates, OneEach, Rpc
<1>7. RoomFor(c) \in Nat
  BY <1>2, <1>3, <1>6 DEF RoomFor, Rpc
<1>8. QED
  BY <1>1, <1>2, <1>3, <1>5, <1>6, <1>7

\* Requests do not change, and what depends on them only does not either.
LEMMA RequestsStay ==
  ASSUME UNCHANGED request
  PROVE  \A c \in Call : Updates(c)' = Updates(c) /\ RoomFor(c)' = RoomFor(c)
  BY DEF Updates, RoomFor, OneEach, IsGood, NotEmpty, Ids

-----------------------------------------------------------------------------
\* SendUpdates.

LEMMA CommandsType ==
  ASSUME TypeOK
  PROVE  /\ Commands \in Seq(Update) /\ Len(Commands) \in Nat
         /\ Len(Commands) <= Len(batch)
         /\ \A m \in 1 .. Len(Commands) : \E k \in 1 .. Len(batch) : Commands[m] = batch[k]
<1> DEFINE V == {n \in DOMAIN batch : ValidUpdate(batch[n])}
<1>1. batch \in Seq(Update) /\ V \in SUBSET (1 .. Len(batch))
  BY DEF TypeOK
<1>2. Commands = Pick(batch, V)
  BY DEF Commands
<1> HIDE DEF V
<1>3. /\ Commands \in Seq(Update)
      /\ Len(Commands) = Cardinality(V) /\ Cardinality(V) \in Nat
      /\ Cardinality(V) <= Len(batch)
      /\ \A m \in 1 .. Cardinality(V) : Nth(V, m) \in V /\ Commands[m] = batch[Nth(V, m)]
  BY <1>1, <1>2, PickType
<1>4. QED
  BY <1>1, <1>3

LEMMA WrittenType ==
  ASSUME TypeOK, NEW refused
  PROVE  /\ Written(refused) \in Seq(Update) /\ Len(Written(refused)) \in Nat
         /\ \A m \in 1 .. Len(Written(refused)) :
              \E k \in 1 .. Len(batch) : Written(refused)[m] = batch[k]
<1> DEFINE K == DOMAIN Commands \ refused
<1>1. /\ Commands \in Seq(Update)
      /\ \A m \in 1 .. Len(Commands) : \E k \in 1 .. Len(batch) : Commands[m] = batch[k]
  BY CommandsType
<1>2. K \in SUBSET (1 .. Len(Commands))
  BY <1>1
<1>3. Written(refused) = Pick(Commands, K)
  BY DEF Written
<1> HIDE DEF K
<1>4. /\ Written(refused) \in Seq(Update)
      /\ Len(Written(refused)) = Cardinality(K) /\ Cardinality(K) \in Nat
      /\ \A m \in 1 .. Cardinality(K) :
           Nth(K, m) \in K /\ Written(refused)[m] = Commands[Nth(K, m)]
  BY <1>1, <1>2, <1>3, PickType
<1>5. \A m \in 1 .. Cardinality(K) : Nth(K, m) \in 1 .. Len(Commands)
  BY <1>2, <1>4
<1>6. QED
  BY <1>1, <1>4, <1>5

\* The beginning of a sequence.
LEMMA PrefixType ==
  ASSUME NEW T, NEW s \in Seq(T), NEW m \in 0 .. Len(s)
  PROVE  /\ SubSeq(s, 1, m) \in Seq(T) /\ Len(SubSeq(s, 1, m)) = m
         /\ \A k \in 1 .. m : k \in 1 .. Len(s) /\ SubSeq(s, 1, m)[k] = s[k]
<1>1. Len(s) \in Nat /\ m \in Nat /\ m <= Len(s)
  OBVIOUS
<1>2. \A k \in 1 .. m : k \in 1 .. Len(s)
  BY <1>1
<1>3. \A k \in 1 .. m : s[k] \in T
  BY <1>2
<1>4. QED
  BY <1>1, <1>2, <1>3, SubSeqProperties

LEMMA ResultType ==
  ASSUME TypeOK, NEW n \in 1 .. Len(batch), NEW refused, NEW trimFailed \in BOOLEAN
  PROVE  /\ Result(n, refused, trimFailed) \in Results
         /\ Result(n, refused, trimFailed).update = batch[n]
<1>1. batch[n] \in Update /\ Len(stream) \in Nat /\ Len(batch) \in Nat
  BY DEF TypeOK
<1>2. Reply(n, refused) \in Nat
  <2>1. n \in Nat
    BY <1>1
  <2>2. (1 .. n) \ refused \in SUBSET (1 .. n)
    OBVIOUS
  <2>3. Cardinality((1 .. n) \ refused) \in Nat
    BY <2>1, <2>2, UptoFinite
  <2>4. QED
    BY <1>1, <2>3 DEF Reply
<1>3. QED
  BY <1>1, <1>2 DEF Result, Results

LEMMA LostResultType ==
  ASSUME TypeOK, NEW n \in 1 .. Len(batch)
  PROVE  LostResult(n) \in Results /\ LostResult(n).update = batch[n]
<1>1. batch[n] \in Update
  BY DEF TypeOK
<1>2. QED
  BY <1>1 DEF LostResult, Results

-----------------------------------------------------------------------------
\* Type correctness.

LEMMA TypeInit == Init => TypeOK
<1> SUFFICES ASSUME Init PROVE TypeOK
  OBVIOUS
<1>1. /\ request \in [Call -> Request] /\ sent \in [Call -> Nat]
      /\ rChan \in [Call -> Seq(Results)] /\ received \in [Call -> Seq(Results)]
      /\ closed \in [Call -> BOOLEAN]
      /\ phase \in [Call -> {"start", "submit", "await", "returned"}]
      /\ outcome \in [Call -> {"none", "ok", "error", "panic"}]
  BY DEF Init
<1>2. ASSUME NEW c \in Call PROVE sent[c] <= Len(Updates(c)) /\ Len(rChan[c]) <= RoomFor(c)
  <2>1. request[c].rpc \in Rpc /\ Ids(c) \in Seq(IdForm)
    BY <1>1, OutgoingAssumption DEF Ids
  <2>2. Len(Ids(c)) \in Nat /\ DOMAIN Ids(c) = 1 .. Len(Ids(c))
    BY <2>1
  <2>3. IsGood(c) \in SUBSET (1 .. Len(Ids(c))) /\ NotEmpty(c) \in SUBSET (1 .. Len(Ids(c)))
    BY <2>2 DEF IsGood, NotEmpty
  <2>4. Cardinality(IsGood(c)) \in Nat /\ Cardinality(NotEmpty(c)) \in Nat
    BY <2>2, <2>3, UptoFinite
  <2>5. Len(Updates(c)) \in Nat
    BY <2>1, <2>2, <2>4 DEF Updates, OneEach, Rpc
  <2>6. RoomFor(c) \in Nat
    BY <2>1, <2>2, <2>5 DEF RoomFor, Rpc
  <2>7. sent[c] = 0 /\ Len(rChan[c]) = 0
    BY DEF Init
  <2>8. QED
    BY <2>5, <2>6, <2>7
<1>3. /\ batch \in Seq(Update) /\ Len(batch) <= Threshold
      /\ pending \in Seq(Results) /\ stream \in Seq(Update)
      /\ adrift \subseteq Seq(Update) \ {<< >>}
  BY OutgoingAssumption DEF Init
<1>4. QED
  BY <1>1, <1>2, <1>3 DEF TypeOK

\* A step that makes no update and no result.
LEMMA HandlerType ==
  ASSUME TypeOK, NEW c \in Call, Begin(c) \/ AllSent(c) \/ Return(c)
  PROVE  TypeOK'
<1>1. UNCHANGED <<request, sent, rChan, received, batch, pending, stream, adrift>>
  BY DEF Begin, AllSent, Return
<1>2. /\ phase' \in [Call -> {"start", "submit", "await", "returned"}]
      /\ closed' \in [Call -> BOOLEAN]
      /\ outcome' \in [Call -> {"none", "ok", "error", "panic"}]
  <2>1. /\ phase \in [Call -> {"start", "submit", "await", "returned"}]
        /\ closed \in [Call -> BOOLEAN]
        /\ outcome \in [Call -> {"none", "ok", "error", "panic"}]
    BY DEF TypeOK
  <2>2. CASE Begin(c)
    BY <2>1, <2>2 DEF Begin
  <2>3. CASE AllSent(c)
    BY <2>1, <2>3 DEF AllSent
  <2>4. CASE Return(c)
    <3>1. Response(c) \in {"none", "ok", "error", "panic"}
      BY DEF Response
    <3>2. ClosesChannel(c) \in BOOLEAN
      BY DEF ClosesChannel
    <3>3. /\ phase' = [phase EXCEPT ![c] = "returned"]
          /\ closed' = [closed EXCEPT ![c] = ClosesChannel(c)]
          /\ outcome' = [outcome EXCEPT ![c] = Response(c)]
      BY <2>4 DEF Return
    <3>4. phase' \in [Call -> {"start", "submit", "await", "returned"}]
      BY <2>1, <3>3
    <3>5. closed' \in [Call -> BOOLEAN]
      <4>1. closed' = [closed EXCEPT ![c] = TRUE] \/ closed' = [closed EXCEPT ![c] = FALSE]
        BY <3>2, <3>3
      <4>2. QED
        BY <2>1, <4>1
    <3>6. outcome' \in [Call -> {"none", "ok", "error", "panic"}]
      BY <2>1, <3>1, <3>3
    <3>7. QED
      BY <3>4, <3>5, <3>6
  <2>5. QED
    BY <2>2, <2>3, <2>4
<1>3. \A d \in Call : Updates(d)' = Updates(d) /\ RoomFor(d)' = RoomFor(d)
  BY <1>1, RequestsStay
<1>4. QED
  BY <1>1, <1>2, <1>3 DEF TypeOK

LEMMA TypeStep == TypeOK /\ [Next]_vars => TypeOK'
<1> SUFFICES ASSUME TypeOK, [Next]_vars PROVE TypeOK'
  OBVIOUS
<1>1. UNCHANGED request
  BY DEF Next, Queue, Handler, Flush, FlushBroken, RunLate, Deliver, Begin, Submit,
         AllSent, Receive, Return, vars, callVars
<1>2. \A d \in Call : Updates(d)' = Updates(d) /\ RoomFor(d)' = RoomFor(d)
  BY <1>1, RequestsStay
<1>3. ASSUME NEW c \in Call, Begin(c) \/ AllSent(c) \/ Return(c) PROVE TypeOK'
  BY <1>3, HandlerType
<1>4. ASSUME NEW c \in Call, Submit(c) PROVE TypeOK'
  <2>1. [call |-> c, n |-> sent[c] + 1] \in Update
    BY DEF TypeOK, Update
  <2>2. batch' \in Seq(Update) /\ Len(batch') <= Threshold
    BY <1>4, <2>1, OutgoingAssumption DEF Submit, TypeOK
  <2>3. sent' \in [Call -> Nat] /\ \A d \in Call : sent'[d] <= Len(Updates(d))
    <3>1. Len(Updates(c)) \in Nat
      BY RequestType
    <3>2. QED
      BY <1>4, <3>1 DEF Submit, TypeOK
  <2>4. QED
    BY <1>2, <1>4, <2>2, <2>3 DEF Submit, TypeOK
<1>5. ASSUME NEW c \in Call, Receive(c) PROVE TypeOK'
  <2>1. /\ rChan[c] \in Seq(Results) /\ rChan[c] # << >> /\ Len(rChan[c]) \in Nat
        /\ received[c] \in Seq(Results)
    BY <1>5 DEF Receive, TypeOK
  <2>2. /\ Head(rChan[c]) \in Results /\ Tail(rChan[c]) \in Seq(Results)
        /\ Len(Tail(rChan[c])) = Len(rChan[c]) - 1
    BY <2>1, HeadTailProperties
  <2>3. Append(received[c], Head(rChan[c])) \in Seq(Results)
    BY <2>1, <2>2
  <2>4. rChan' \in [Call -> Seq(Results)] /\ received' \in [Call -> Seq(Results)]
    BY <1>5, <2>2, <2>3 DEF Receive, TypeOK
  <2>5. \A d \in Call : Len(rChan'[d]) <= RoomFor(d)
    <3>1. RoomFor(c) \in Nat /\ Len(rChan[c]) <= RoomFor(c)
      BY RequestType DEF TypeOK
    <3>2. rChan' = [rChan EXCEPT ![c] = Tail(rChan[c])]
      BY <1>5 DEF Receive
    <3>3. Len(rChan'[c]) <= RoomFor(c)
      BY <2>1, <2>2, <3>1, <3>2 DEF TypeOK
    <3>4. QED
      BY <3>2, <3>3 DEF TypeOK
  <2>6. QED
    BY <1>2, <1>5, <2>4, <2>5 DEF Receive, TypeOK
<1>6. CASE Flush
  <2>1. PICK refused \in Refusable, trimFailed \in {FALSE, "xtrim" \in Fault} :
          /\ stream' = stream \o Written(refused)
          /\ pending' = [n \in DOMAIN batch |-> Result(n, refused, trimFailed)]
    BY <1>6 DEF Flush
  <2>2. trimFailed \in BOOLEAN
    <3>1. ("xtrim" \in Fault) \in BOOLEAN
      OBVIOUS
    <3>2. trimFailed = FALSE \/ trimFailed = ("xtrim" \in Fault)
      OBVIOUS
    <3>3. QED
      BY ONLY <3>1, <3>2, Zenon
  <2>3. stream' \in Seq(Update)
    BY <2>1, WrittenType DEF TypeOK
  <2>4. pending' \in Seq(Results)
    <3>1. \A n \in 1 .. Len(batch) : Result(n, refused, trimFailed) \in Results
      BY <2>2, ResultType
    <3>2. DOMAIN batch = 1 .. Len(batch) /\ Len(batch) \in Nat
      BY DEF TypeOK
    <3>3. pending' \in [1 .. Len(batch) -> Results]
      BY <2>1, <3>1, <3>2
    <3>4. QED
      BY <3>2, <3>3
  <2>5. batch' \in Seq(Update) /\ Len(batch') <= Threshold
    BY <1>6, OutgoingAssumption DEF Flush
  <2>6. QED
    BY <1>2, <1>6, <2>3, <2>4, <2>5 DEF Flush, callVars, TypeOK
<1>7. CASE FlushBroken
  <2>1. PICK refused \in Refusable : \E m \in 0 .. Len(Written(refused)) :
          adrift' = adrift \cup ({SubSeq(Written(refused), 1, m)} \ {<< >>})
    BY <1>7 DEF FlushBroken
  <2>2. adrift' \subseteq Seq(Update) \ {<< >>}
    <3>1. PICK m \in 0 .. Len(Written(refused)) :
            adrift' = adrift \cup ({SubSeq(Written(refused), 1, m)} \ {<< >>})
      BY <2>1
    <3>2. SubSeq(Written(refused), 1, m) \in Seq(Update)
      BY WrittenType, PrefixType
    <3>3. QED
      BY <3>1, <3>2 DEF TypeOK
  <2>3. pending' \in Seq(Results)
    <3>1. \A n \in 1 .. Len(batch) : LostResult(n) \in Results
      BY LostResultType
    <3>2. DOMAIN batch = 1 .. Len(batch) /\ Len(batch) \in Nat
      BY DEF TypeOK
    <3>3. pending' \in [1 .. Len(batch) -> Results]
      BY <1>7, <3>1, <3>2 DEF FlushBroken
    <3>4. QED
      BY <3>2, <3>3
  <2>4. batch' \in Seq(Update) /\ Len(batch') <= Threshold
    BY <1>7, OutgoingAssumption DEF FlushBroken
  <2>5. QED
    BY <1>2, <1>7, <2>2, <2>3, <2>4 DEF FlushBroken, callVars, TypeOK
<1>8. CASE Deliver
  <2> DEFINE r == Head(pending)
             c == r.update.call
  <2>1. r \in Results /\ c \in Call /\ Tail(pending) \in Seq(Results)
    <3>1. pending \in Seq(Results) /\ pending # << >>
      BY <1>8 DEF Deliver, TypeOK
    <3>2. r \in Results /\ Tail(pending) \in Seq(Results)
      BY <3>1, HeadTailProperties
    <3> HIDE DEF r
    <3>3. c \in Call
      BY <3>2 DEF Results, Update
    <3>4. QED
      BY <3>2, <3>3
  <2>2. pending' = Tail(pending)
    BY <1>8 DEF Deliver
  <2>3. CASE /\ Len(rChan[c]) < RoomFor(c)
             /\ rChan' = [rChan EXCEPT ![c] = Append(@, r)]
             /\ UNCHANGED received
    <3> HIDE DEF r, c
    <3>1. /\ Append(rChan[c], r) \in Seq(Results)
          /\ Len(Append(rChan[c], r)) = Len(rChan[c]) + 1
          /\ Len(rChan[c]) \in Nat /\ RoomFor(c) \in Nat
      BY <2>1, RequestType DEF TypeOK
    <3>2. /\ rChan' \in [Call -> Seq(Results)]
          /\ \A d \in Call : Len(rChan'[d]) <= RoomFor(d)
      BY <2>1, <2>3, <3>1 DEF TypeOK
    <3>3. UNCHANGED <<request, phase, sent, closed, outcome, batch, stream, adrift>>
      BY <1>8 DEF Deliver
    <3>4. QED
      BY <1>2, <2>1, <2>2, <2>3, <3>2, <3>3 DEF TypeOK
  <2>4. CASE /\ received' = [received EXCEPT ![c] = Append(@, r)]
             /\ UNCHANGED rChan
    <3> HIDE DEF r, c
    <3>1. received' \in [Call -> Seq(Results)]
      BY <2>1, <2>4 DEF TypeOK
    <3>2. UNCHANGED <<request, phase, sent, closed, outcome, batch, stream, adrift>>
      BY <1>8 DEF Deliver
    <3>3. QED
      BY <1>2, <2>1, <2>2, <2>4, <3>1, <3>2 DEF TypeOK
  <2>5. QED
    BY <1>8, <2>3, <2>4 DEF Deliver
<1>9. CASE RunLate
  <2>1. PICK s \in adrift :
          /\ stream' = Append(stream, Head(s))
          /\ adrift' = (adrift \ {s}) \cup ({Tail(s)} \ {<< >>})
          /\ UNCHANGED <<callVars, batch, pending>>
    BY <1>9 DEF RunLate
  <2>2. Head(s) \in Update /\ Tail(s) \in Seq(Update)
    <3>1. s \in Seq(Update) /\ s # << >>
      BY DEF TypeOK
    <3>2. QED
      BY <3>1, HeadTailProperties
  <2>3. stream' \in Seq(Update) /\ adrift' \subseteq Seq(Update) \ {<< >>}
    <3>1. stream \in Seq(Update) /\ adrift \subseteq Seq(Update) \ {<< >>}
      BY DEF TypeOK
    <3>2. stream' \in Seq(Update)
      BY <2>1, <2>2, <3>1
    <3>3. QED
      BY <2>1, <2>2, <3>1, <3>2
  <2>4. QED
    BY <1>2, <2>1, <2>3 DEF callVars, TypeOK
<1>10. CASE UNCHANGED vars
  BY <1>2, <1>10 DEF vars, callVars, TypeOK
<1>11. QED
  BY <1>3, <1>4, <1>5, <1>6, <1>7, <1>8, <1>9, <1>10 DEF Next, Queue, Handler

-----------------------------------------------------------------------------
\* What is owed.

LEMMA CountsType ==
  ASSUME TypeOK, NEW c \in Call
  PROVE  /\ sent[c] \in Nat /\ Len(received[c]) \in Nat /\ Len(rChan[c]) \in Nat
         /\ Done(c) \in Nat
         /\ received[c] \in Seq(Results) /\ rChan[c] \in Seq(Results)
<1>1. /\ sent[c] \in Nat
      /\ received[c] \in Seq(Results) /\ rChan[c] \in Seq(Results)
  BY DEF TypeOK
<1>2. Len(received[c]) \in Nat /\ Len(rChan[c]) \in Nat
  BY <1>1
<1>3. Done(c) \in Nat
  <2>1. \A a, b \in Nat : a + b \in Nat
    OBVIOUS
  <2>2. QED
    BY <1>2, <2>1, Zenon DEF Done
<1>4. QED
  BY <1>1, <1>2, <1>3

LEMMA OwedType ==
  ASSUME TypeOK
  PROVE  /\ Len(Owed) \in Nat
         /\ \A k \in 1 .. Len(Owed) :
              /\ Owed[k].call \in Call /\ Owed[k].n \in Nat
              /\ Owed[k] = [call |-> Owed[k].call, n |-> Owed[k].n]
<1>1. CASE pending = << >>
  <2>1. Owed = batch /\ batch \in Seq(Update)
    BY <1>1 DEF Owed, TypeOK
  <2>2. \A k \in 1 .. Len(Owed) : Owed[k] \in Update
    BY <2>1
  <2>3. QED
    BY <2>1, <2>2 DEF Update
<1>2. CASE pending # << >>
  <2>1. pending \in Seq(Results) /\ Len(pending) \in Nat
    BY DEF TypeOK
  <2>2. \A k \in 1 .. Len(pending) : pending[k].update \in Update
    <3>1. \A k \in 1 .. Len(pending) : pending[k] \in Results
      BY <2>1
    <3>2. QED
      BY <3>1 DEF Results
  <2>3. Owed = [k \in 1 .. Len(pending) |-> pending[k].update]
    BY <1>2 DEF Owed
  <2>4. Len(Owed) = Len(pending) /\ \A k \in 1 .. Len(pending) : Owed[k] = pending[k].update
    BY <2>1, <2>3
  <2>5. QED
    BY <2>1, <2>2, <2>4 DEF Update
<1>3. QED
  BY <1>1, <1>2

\* No update is twice in the batch, and those in it were sent.
LEMMA BatchOnce ==
  ASSUME TypeOK, OwedOK, pending = << >>
  PROVE  /\ \A j, k \in 1 .. Len(batch) : j # k => batch[j] # batch[k]
         /\ \A k \in 1 .. Len(batch) : batch[k].n <= sent[batch[k].call]
<1>1. Owed = batch /\ Len(batch) \in Nat
  BY DEF Owed, TypeOK
<1>2. \A k \in 1 .. Len(batch) :
        /\ batch[k].call \in Call /\ batch[k].n \in Nat
        /\ batch[k] = [call |-> batch[k].call, n |-> batch[k].n]
  BY <1>1, OwedType
<1>3. \A j, k \in 1 .. Len(batch) : j < k => batch[j] # batch[k]
  <2> SUFFICES ASSUME NEW j \in 1 .. Len(batch), NEW k \in 1 .. Len(batch), j < k,
                      batch[j] = batch[k]
               PROVE  FALSE
    OBVIOUS
  <2>1. batch[j].n < batch[k].n
    BY <1>1 DEF OwedOK
  <2>2. batch[j].n = batch[k].n
    OBVIOUS
  <2>3. batch[j].n \in Nat
    BY <1>2
  <2>4. QED
    BY <2>1, <2>2, <2>3
<1>4. ASSUME NEW k \in 1 .. Len(batch) PROVE batch[k].n <= sent[batch[k].call]
  <2>1. batch[k].n \in Done(batch[k].call) + 1 .. sent[batch[k].call]
    BY <1>1, <1>2 DEF OwedOK
  <2>2. QED
    BY <1>2, <2>1, CountsType
<1>5. QED
  BY <1>1, <1>3, <1>4

\* The next result to deliver is the one its call waits for.
LEMMA HeadIsNext ==
  ASSUME TypeOK, OwedOK, pending # << >>,
         NEW c, c = Head(pending).update.call
  PROVE  /\ c \in Call /\ Done(c) < sent[c]
         /\ Head(pending) \in Results
         /\ Head(pending).update = [call |-> c, n |-> Done(c) + 1]
<1>1. /\ pending \in Seq(Results) /\ Len(pending) \in Nat /\ Len(pending) >= 1
      /\ Head(pending) = pending[1] /\ pending[1] \in Results
  <2>1. pending \in Seq(Results)
    BY DEF TypeOK
  <2>2. QED
    BY <2>1, HeadTailProperties
<1>2. Len(Owed) = Len(pending) /\ Owed[1] = Head(pending).update
  BY <1>1 DEF Owed
<1>3. /\ Owed[1].call = c /\ c \in Call /\ Owed[1].n \in Nat
      /\ Owed[1] = [call |-> c, n |-> Owed[1].n]
  BY <1>1, <1>2, OwedType
<1>4. Done(c) \in Nat /\ sent[c] \in Nat
  BY <1>3, CountsType
<1>5. Owed[1].n \in Done(c) + 1 .. sent[c]
  BY <1>1, <1>2, <1>3 DEF OwedOK
<1>6. PICK k \in 1 .. Len(Owed) : Owed[k] = [call |-> c, n |-> Done(c) + 1]
  <2>1. Done(c) + 1 \in Nat /\ Done(c) + 1 \in Done(c) + 1 .. sent[c]
    BY <1>3, <1>4, <1>5
  <2>2. QED
    BY <1>3, <2>1 DEF OwedOK
<1>7. Owed[k].call = c /\ Owed[k].n = Done(c) + 1
  BY <1>6
<1>8. k = 1
  <2>1. ~ (1 < k)
    <3>1. 1 < k => Owed[1].n < Owed[k].n
      BY <1>1, <1>2, <1>3, <1>7 DEF OwedOK
    <3>2. QED
      BY <1>3, <1>4, <1>5, <1>7, <3>1
  <2>2. QED
    BY <1>1, <1>2, <2>1
<1>9. QED
  BY <1>1, <1>2, <1>3, <1>4, <1>5, <1>6, <1>8

LEMMA OwedSame ==
  ASSUME OwedOK, Owed' = Owed, UNCHANGED sent,
         \A c \in Call : Done(c)' = Done(c),
         (pending # << >> => batch = << >>)'
  PROVE  OwedOK'
  BY DEF OwedOK

LEMMA OwedSubmit ==
  ASSUME TypeOK, OwedOK, NEW c \in Call, Submit(c)
  PROVE  OwedOK'
<1> DEFINE u == [call |-> c, n |-> sent[c] + 1]
<1>1. /\ pending = << >> /\ pending' = << >> /\ batch' = Append(batch, u)
      /\ sent' = [sent EXCEPT ![c] = sent[c] + 1]
      /\ UNCHANGED <<rChan, received>>
  BY DEF Submit
<1>2. Owed = batch /\ Owed' = batch'
  BY <1>1 DEF Owed
<1>3. /\ Len(batch) \in Nat /\ Len(batch') = Len(batch) + 1
      /\ \A k \in 1 .. Len(batch) : batch'[k] = batch[k]
      /\ batch'[Len(batch) + 1] = u
  <2>1. batch \in Seq(Update)
    BY DEF TypeOK
  <2>2. QED
    BY <1>1, <2>1
<1>4. \A d \in Call : Done(d)' = Done(d) /\ Done(d) \in Nat /\ sent[d] \in Nat
  BY <1>1, CountsType DEF Done
<1>5. /\ sent'[c] = sent[c] + 1 /\ Done(c) <= sent[c]
      /\ \A d \in Call : d # c => sent'[d] = sent[d]
  BY <1>1 DEF TypeOK, OwedOK
<1>6. \A k \in 1 .. Len(batch) :
        /\ batch[k].call \in Call /\ batch[k].n \in Nat
        /\ batch[k] = [call |-> batch[k].call, n |-> batch[k].n]
        /\ batch[k].call = c => batch[k].n <= sent[c]
  BY <1>1, <1>2, OwedType, BatchOnce
<1>7. \A j, k \in 1 .. Len(batch') :
        j < k /\ batch'[j].call = batch'[k].call => batch'[j].n < batch'[k].n
  <2> SUFFICES ASSUME NEW j \in 1 .. Len(batch'), NEW k \in 1 .. Len(batch'),
                      j < k, batch'[j].call = batch'[k].call
               PROVE  batch'[j].n < batch'[k].n
    OBVIOUS
  <2>1. j \in 1 .. Len(batch) /\ batch'[j] = batch[j]
    BY <1>3
  <2>2. CASE k \in 1 .. Len(batch)
    BY <1>2, <1>3, <2>1, <2>2 DEF OwedOK
  <2>3. CASE k = Len(batch) + 1
    <3>1. batch'[k].call = c /\ batch'[k].n = sent[c] + 1
      BY <1>3, <2>3
    <3>2. batch[j].n \in Nat /\ batch[j].n <= sent[c]
      BY <1>6, <2>1, <3>1
    <3>3. QED
      BY <1>4, <2>1, <3>1, <3>2
  <2>4. QED
    BY <1>3, <2>2, <2>3
<1>8. ASSUME NEW d \in Call, NEW n \in Nat
      PROVE  (\E k \in 1 .. Len(batch') : batch'[k] = [call |-> d, n |-> n])
               <=> n \in Done(d) + 1 .. sent'[d]
  <2>1. (\E k \in 1 .. Len(batch') : batch'[k] = [call |-> d, n |-> n])
          <=> \/ \E k \in 1 .. Len(batch) : batch[k] = [call |-> d, n |-> n]
              \/ u = [call |-> d, n |-> n]
    <3> HIDE DEF u
    <3>1. QED
      BY <1>3
  <2>2. (\E k \in 1 .. Len(batch) : batch[k] = [call |-> d, n |-> n])
          <=> n \in Done(d) + 1 .. sent[d]
    BY <1>2 DEF OwedOK
  <2>3. u = [call |-> d, n |-> n] <=> d = c /\ n = sent[c] + 1
    OBVIOUS
  <2>4. n \in Done(d) + 1 .. sent'[d]
          <=> \/ n \in Done(d) + 1 .. sent[d]
              \/ d = c /\ n = sent[c] + 1
    BY <1>4, <1>5
  <2>5. QED
    BY <2>1, <2>2, <2>3, <2>4
<1>9. \A d \in Call : Done(d)' <= sent'[d]
  BY <1>4, <1>5 DEF OwedOK
<1>10. \A d \in Call, n \in Nat :
         (\E k \in 1 .. Len(Owed') : Owed'[k] = [call |-> d, n |-> n])
           <=> n \in Done(d)' + 1 .. sent'[d]
  BY ONLY <1>2, <1>4, <1>8
<1>11. \A j, k \in 1 .. Len(Owed') :
         j < k /\ Owed'[j].call = Owed'[k].call => Owed'[j].n < Owed'[k].n
  BY ONLY <1>2, <1>7
<1>12. QED
  BY ONLY <1>1, <1>9, <1>10, <1>11 DEF OwedOK

LEMMA OwedFlush ==
  ASSUME TypeOK, OwedOK, Flush \/ FlushBroken
  PROVE  OwedOK'
<1>1. batch \in Seq(Update) /\ batch # << >> /\ pending = << >>
  BY DEF Flush, FlushBroken, TypeOK
<1>2. \E f \in [1 .. Len(batch) -> Results] :
        pending' = f /\ \A k \in 1 .. Len(batch) : f[k].update = batch[k]
  <2>1. DOMAIN batch = 1 .. Len(batch)
    BY <1>1
  <2>2. CASE Flush
    <3>1. PICK refused \in Refusable, trimFailed \in {FALSE, "xtrim" \in Fault} :
            pending' = [n \in DOMAIN batch |-> Result(n, refused, trimFailed)]
      BY <2>2 DEF Flush
    <3>2. trimFailed \in BOOLEAN
      <4>1. ("xtrim" \in Fault) \in BOOLEAN
        OBVIOUS
      <4>2. trimFailed = FALSE \/ trimFailed = ("xtrim" \in Fault)
        OBVIOUS
      <4>3. QED
        BY ONLY <4>1, <4>2, Zenon
    <3>3. \A n \in 1 .. Len(batch) :
            /\ Result(n, refused, trimFailed) \in Results
            /\ Result(n, refused, trimFailed).update = batch[n]
      BY <3>2, ResultType
    <3>4. QED
      BY <2>1, <3>1, <3>3
  <2>3. CASE FlushBroken
    <3>1. pending' = [n \in DOMAIN batch |-> LostResult(n)]
      BY <2>3 DEF FlushBroken
    <3>2. \A n \in 1 .. Len(batch) :
            LostResult(n) \in Results /\ LostResult(n).update = batch[n]
      BY LostResultType
    <3>3. QED
      BY <2>1, <3>1, <3>2
  <2>4. QED
    BY <2>2, <2>3
<1>3. Len(pending') = Len(batch) /\ pending' # << >>
  <2>1. Len(batch) \in Nat /\ Len(batch) # 0
    BY <1>1
  <2>2. Len(pending') = Len(batch)
    BY <1>2, <2>1
  <2>3. QED
    BY <2>1, <2>2
<1>4. Owed' = [k \in 1 .. Len(batch) |-> batch[k]]
  <2>1. Owed' = [k \in 1 .. Len(pending') |-> pending'[k].update]
    BY <1>3 DEF Owed
  <2>2. QED
    BY <1>2, <1>3, <2>1
<1>5. Owed = batch
  BY <1>1 DEF Owed
<1>6. Owed' = Owed
  BY <1>1, <1>4, <1>5
<1>7. UNCHANGED <<sent, rChan, received>> /\ batch' = << >>
  BY DEF Flush, FlushBroken, callVars
<1>8. QED
  BY <1>6, <1>7, OwedSame DEF Done

\* What a step of Deliver does to the results of its call.
LEMMA DeliverMoves ==
  ASSUME TypeOK, OwedOK, Deliver,
         NEW c, c = Head(pending).update.call
  PROVE  /\ c \in Call
         /\ \/ /\ rChan' = [rChan EXCEPT ![c] = Append(rChan[c], Head(pending))]
               /\ Len(rChan'[c]) = Len(rChan[c]) + 1
               /\ UNCHANGED received
            \/ /\ received' = [received EXCEPT ![c] = Append(received[c], Head(pending))]
               /\ Len(received'[c]) = Len(received[c]) + 1
               /\ Len(rChan[c]) = 0 /\ phase[c] = "await"
               /\ UNCHANGED rChan
         /\ \A d \in Call : d # c => rChan'[d] = rChan[d] /\ received'[d] = received[d]
<1>1. pending # << >>
  BY DEF Deliver
<1>2. c \in Call /\ Head(pending) \in Results
  BY <1>1, HeadIsNext
<1>3. /\ rChan[c] \in Seq(Results) /\ received[c] \in Seq(Results)
      /\ Len(rChan[c]) \in Nat /\ RoomFor(c) \in Nat /\ Len(rChan[c]) <= RoomFor(c)
  <2>1. Len(rChan[c]) <= RoomFor(c)
    BY <1>2 DEF TypeOK
  <2>2. QED
    BY <1>2, <2>1, CountsType, RequestType
<1>4. /\ Len(Append(rChan[c], Head(pending))) = Len(rChan[c]) + 1
      /\ Len(Append(received[c], Head(pending))) = Len(received[c]) + 1
  BY <1>2, <1>3
<1>5. rChan \in [Call -> Seq(Results)] /\ received \in [Call -> Seq(Results)]
  BY DEF TypeOK
<1>6. \/ /\ rChan' = [rChan EXCEPT ![c] = Append(rChan[c], Head(pending))]
         /\ UNCHANGED received
      \/ /\ received' = [received EXCEPT ![c] = Append(received[c], Head(pending))]
         /\ RoomFor(c) = 0 /\ phase[c] = "await"
         /\ UNCHANGED rChan
  BY DEF Deliver
<1>7. CASE /\ rChan' = [rChan EXCEPT ![c] = Append(rChan[c], Head(pending))]
           /\ UNCHANGED received
  <2>1. /\ rChan'[c] = Append(rChan[c], Head(pending))
        /\ \A d \in Call : d # c => rChan'[d] = rChan[d]
    BY <1>2, <1>5, <1>7
  <2>2. QED
    BY <1>2, <1>4, <1>7, <2>1
<1>8. CASE /\ received' = [received EXCEPT ![c] = Append(received[c], Head(pending))]
           /\ RoomFor(c) = 0 /\ phase[c] = "await"
           /\ UNCHANGED rChan
  <2>1. /\ received'[c] = Append(received[c], Head(pending))
        /\ \A d \in Call : d # c => received'[d] = received[d]
    BY <1>2, <1>5, <1>8
  <2>2. Len(rChan[c]) = 0
    BY <1>3, <1>8
  <2>3. QED
    BY <1>2, <1>4, <1>8, <2>1, <2>2
<1>9. QED
  BY <1>6, <1>7, <1>8

LEMMA OwedDeliver ==
  ASSUME TypeOK, OwedOK, Deliver
  PROVE  OwedOK'
<1>0. PICK c : c = Head(pending).update.call
  OBVIOUS
<1>1. pending # << >> /\ pending' = Tail(pending) /\ UNCHANGED <<batch, sent>>
  BY DEF Deliver
<1>2. /\ c \in Call /\ Done(c) < sent[c]
      /\ Head(pending).update = [call |-> c, n |-> Done(c) + 1]
  BY <1>0, <1>1, HeadIsNext
<1>3. /\ pending \in Seq(Results) /\ Len(pending) \in Nat /\ Len(pending) >= 1
      /\ Head(pending) = pending[1]
      /\ pending' \in Seq(Results) /\ Len(pending') = Len(pending) - 1
      /\ \A k \in 1 .. Len(pending') : pending'[k] = pending[k + 1]
  <2>1. pending \in Seq(Results)
    BY DEF TypeOK
  <2>2. QED
    BY <1>1, <2>1, HeadTailProperties
<1>4. /\ Len(Owed) = Len(pending) /\ Owed[1] = Head(pending).update
      /\ \A k \in 1 .. Len(pending) : Owed[k] = pending[k].update
  BY <1>1, <1>3 DEF Owed
<1>5. /\ Len(Owed') = Len(Owed) - 1
      /\ \A k \in 1 .. Len(Owed') : Owed'[k] = Owed[k + 1]
  <2>1. CASE pending' = << >>
    <3>1. Len(pending') = 0 /\ Owed' = << >>
      BY <1>1, <2>1 DEF Owed, OwedOK
    <3>2. QED
      BY <1>3, <1>4, <3>1
  <2>2. CASE pending' # << >>
    <3>1. Owed' = [k \in 1 .. Len(pending') |-> pending'[k].update]
      BY <2>2 DEF Owed
    <3>2. Len(Owed') = Len(pending')
      BY <1>3, <3>1
    <3>3. \A k \in 1 .. Len(pending') : k + 1 \in 1 .. Len(pending)
      BY <1>3
    <3>4. \A k \in 1 .. Len(pending') : Owed'[k] = pending[k + 1].update
      BY <1>3, <3>1
    <3>5. QED
      BY <1>3, <1>4, <3>2, <3>3, <3>4
  <2>3. QED
    BY <2>1, <2>2
<1>6. /\ \A d \in Call : Done(d) \in Nat /\ sent[d] \in Nat
      /\ Done(c)' = Done(c) + 1
      /\ \A d \in Call : d # c => Done(d)' = Done(d)
  <2>1. \A d \in Call : /\ Done(d) \in Nat /\ sent[d] \in Nat
                        /\ Len(rChan[d]) \in Nat /\ Len(received[d]) \in Nat
    BY CountsType
  <2>2. /\ \/ /\ Len(rChan'[c]) = Len(rChan[c]) + 1
              /\ UNCHANGED received
           \/ /\ Len(received'[c]) = Len(received[c]) + 1
              /\ UNCHANGED rChan
        /\ \A d \in Call : d # c => rChan'[d] = rChan[d] /\ received'[d] = received[d]
    BY <1>0, DeliverMoves
  <2>3. Done(c)' = Done(c) + 1
    <3>1. \A a, b \in Nat : a + (b + 1) = (a + b) + 1 /\ (a + 1) + b = (a + b) + 1
      OBVIOUS
    <3>2. Len(rChan[c]) \in Nat /\ Len(received[c]) \in Nat
      BY <1>2, <2>1
    <3>3. QED
      BY <2>2, <3>1, <3>2 DEF Done
  <2>4. \A d \in Call : d # c => Done(d)' = Done(d)
    BY <2>2, Zenon DEF Done
  <2>5. QED
    BY <2>1, <2>3, <2>4
<1>7. Len(Owed) \in Nat /\ Len(Owed) >= 1
  BY <1>3, <1>4
<1>8. \A j, k \in 1 .. Len(Owed') :
        j < k /\ Owed'[j].call = Owed'[k].call => Owed'[j].n < Owed'[k].n
  <2> SUFFICES ASSUME NEW j \in 1 .. Len(Owed'), NEW k \in 1 .. Len(Owed'),
                      j < k, Owed'[j].call = Owed'[k].call
               PROVE  Owed'[j].n < Owed'[k].n
    OBVIOUS
  <2>1. /\ j + 1 \in 1 .. Len(Owed) /\ k + 1 \in 1 .. Len(Owed) /\ j + 1 < k + 1
        /\ Owed'[j] = Owed[j + 1] /\ Owed'[k] = Owed[k + 1]
    BY <1>5, <1>7
  <2>2. Owed[j + 1].call = Owed[k + 1].call
    BY <2>1
  <2>3. Owed[j + 1].n < Owed[k + 1].n
    BY <2>1, <2>2 DEF OwedOK
  <2>4. QED
    BY <2>1, <2>3
<1>9. ASSUME NEW d \in Call, NEW n \in Nat
      PROVE  (\E k \in 1 .. Len(Owed') : Owed'[k] = [call |-> d, n |-> n])
               <=> n \in Done(d)' + 1 .. sent[d]
  <2>1. (\E k \in 1 .. Len(Owed) : Owed[k] = [call |-> d, n |-> n])
          <=> n \in Done(d) + 1 .. sent[d]
    BY DEF OwedOK
  <2>2. Owed[1] = [call |-> d, n |-> n] <=> d = c /\ n = Done(c) + 1
    BY <1>2, <1>4
  <2>3. n \in Done(d)' + 1 .. sent[d]
          <=> n \in Done(d) + 1 .. sent[d] /\ ~ (d = c /\ n = Done(c) + 1)
    <3>1. CASE d = c
      <4>1. \A a, b \in Nat : n \in (a + 1) + 1 .. b <=> n \in a + 1 .. b /\ n # a + 1
        OBVIOUS
      <4>2. Done(d) \in Nat /\ sent[d] \in Nat /\ Done(d)' = Done(d) + 1
        BY <1>6, <3>1
      <4>3. n \in (Done(d) + 1) + 1 .. sent[d]
              <=> n \in Done(d) + 1 .. sent[d] /\ n # Done(d) + 1
        BY <4>1, <4>2
      <4>4. QED
        BY <3>1, <4>2, <4>3
    <3>2. CASE d # c
      BY <1>6, <3>2, Zenon
    <3>3. QED
      BY <3>1, <3>2
  <2>4. ASSUME NEW k \in 1 .. Len(Owed'), Owed'[k] = [call |-> d, n |-> n]
        PROVE  /\ \E j \in 1 .. Len(Owed) : Owed[j] = [call |-> d, n |-> n]
               /\ ~ (d = c /\ n = Done(c) + 1)
    <3>1. k + 1 \in 1 .. Len(Owed) /\ 1 \in 1 .. Len(Owed) /\ 1 < k + 1
          /\ Owed[k + 1] = [call |-> d, n |-> n]
      BY <1>5, <1>7, <2>4
    <3>2. ASSUME d = c, n = Done(c) + 1 PROVE FALSE
      <4>1. Owed[1] = [call |-> d, n |-> n]
        BY <2>2, <3>2
      <4>2. Owed[1].call = Owed[k + 1].call /\ Owed[1].n = n /\ Owed[k + 1].n = n
        BY <3>1, <4>1
      <4>3. Owed[1].n < Owed[k + 1].n
        BY <3>1, <4>2 DEF OwedOK
      <4>4. QED
        BY <4>2, <4>3
    <3>3. QED
      BY <3>1, <3>2
  <2>5. ASSUME NEW k \in 1 .. Len(Owed), Owed[k] = [call |-> d, n |-> n],
               ~ (d = c /\ n = Done(c) + 1)
        PROVE  \E j \in 1 .. Len(Owed') : Owed'[j] = [call |-> d, n |-> n]
    <3>1. k # 1
      BY <2>2, <2>5
    <3>2. k - 1 \in 1 .. Len(Owed') /\ (k - 1) + 1 = k
      BY <1>5, <1>7, <3>1
    <3>3. Owed'[k - 1] = Owed[k]
      BY <1>5, <3>2
    <3>4. QED
      BY <2>5, <3>2, <3>3
  <2>6. QED
    BY <2>1, <2>3, <2>4, <2>5
<1>10. ASSUME NEW d \in Call PROVE Done(d)' <= sent[d]
  <2>1. CASE d = c
    <3>1. \A a, b \in Nat : a < b => a + 1 <= b
      OBVIOUS
    <3>2. Done(c) + 1 <= sent[c]
      BY <1>2, <1>6, <3>1
    <3>3. QED
      BY <1>6, <2>1, <3>2
  <2>2. CASE d # c
    BY <1>6, <2>2, Zenon DEF OwedOK
  <2>3. QED
    BY <2>1, <2>2
<1>11. pending' # << >> => batch' = << >>
  BY <1>1 DEF OwedOK
<1>12. UNCHANGED sent
  BY <1>1
<1>13. QED
  BY ONLY <1>8, <1>9, <1>10, <1>11, <1>12 DEF OwedOK

\* What a step of Receive does to the results of its call.
LEMMA ReceiveMoves ==
  ASSUME TypeOK, NEW c \in Call, Receive(c)
  PROVE  /\ received'[c] = Append(received[c], rChan[c][1])
         /\ Len(received'[c]) = Len(received[c]) + 1
         /\ Len(rChan[c]) >= 1 /\ Len(rChan'[c]) = Len(rChan[c]) - 1
         /\ \A n \in 1 .. Len(rChan'[c]) : rChan'[c][n] = rChan[c][n + 1]
         /\ \A d \in Call : d # c => rChan'[d] = rChan[d] /\ received'[d] = received[d]
<1>1. rChan[c] \in Seq(Results) /\ received[c] \in Seq(Results) /\ rChan[c] # << >>
  BY CountsType DEF Receive
<1>2. /\ Head(rChan[c]) = rChan[c][1] /\ Head(rChan[c]) \in Results
      /\ Len(rChan[c]) \in Nat /\ Len(rChan[c]) >= 1
      /\ Len(Tail(rChan[c])) = Len(rChan[c]) - 1
      /\ \A n \in 1 .. Len(Tail(rChan[c])) : Tail(rChan[c])[n] = rChan[c][n + 1]
  BY <1>1, HeadTailProperties
<1>3. Len(Append(received[c], Head(rChan[c]))) = Len(received[c]) + 1
  BY <1>1, <1>2
<1>4. /\ received' = [received EXCEPT ![c] = Append(received[c], Head(rChan[c]))]
      /\ rChan' = [rChan EXCEPT ![c] = Tail(rChan[c])]
  BY DEF Receive
<1>5. rChan \in [Call -> Seq(Results)] /\ received \in [Call -> Seq(Results)]
  BY DEF TypeOK
<1>6. /\ received'[c] = Append(received[c], Head(rChan[c]))
      /\ rChan'[c] = Tail(rChan[c])
      /\ \A d \in Call : d # c => rChan'[d] = rChan[d] /\ received'[d] = received[d]
  BY <1>4, <1>5
<1>7. QED
  BY <1>2, <1>3, <1>6

LEMMA OwedStep == TypeOK /\ OwedOK /\ [Next]_vars => OwedOK'
<1> SUFFICES ASSUME TypeOK, OwedOK, [Next]_vars PROVE OwedOK'
  OBVIOUS
<1>1. ASSUME NEW c \in Call, Submit(c) PROVE OwedOK'
  BY <1>1, OwedSubmit
<1>2. CASE Flush \/ FlushBroken
  BY <1>2, OwedFlush
<1>3. CASE Deliver
  BY <1>3, OwedDeliver
<1>4. ASSUME NEW c \in Call, Receive(c) PROVE OwedOK'
  <2>1. UNCHANGED <<batch, pending, sent>>
    BY <1>4 DEF Receive
  <2>2. ASSUME NEW d \in Call PROVE Done(d)' = Done(d)
    <3>1. CASE d = c
      <4>1. /\ Len(received'[d]) = Len(received[d]) + 1
            /\ Len(rChan'[d]) = Len(rChan[d]) - 1
            /\ Len(received[d]) \in Nat /\ Len(rChan[d]) \in Nat
        BY <1>4, <3>1, ReceiveMoves, CountsType
      <4>2. \A a, b \in Nat : (a + 1) + (b - 1) = a + b
        OBVIOUS
      <4>3. QED
        BY <4>1, <4>2, Zenon DEF Done
    <3>2. CASE d # c
      <4>1. rChan'[d] = rChan[d] /\ received'[d] = received[d]
        BY <1>4, <3>2, ReceiveMoves
      <4>2. QED
        BY <4>1 DEF Done
    <3>3. QED
      BY <3>1, <3>2
  <2>3. Owed' = Owed
    BY <2>1 DEF Owed
  <2>4. (pending # << >> => batch = << >>)'
    BY <2>1 DEF OwedOK
  <2>5. QED
    BY <2>1, <2>2, <2>3, <2>4, OwedSame
<1>5. ASSUME \/ \E c \in Call : Begin(c) \/ AllSent(c) \/ Return(c)
             \/ RunLate
             \/ UNCHANGED vars
      PROVE  OwedOK'
  <2>1. UNCHANGED <<batch, pending, sent, rChan, received>>
    BY <1>5 DEF Begin, AllSent, Return, RunLate, vars, callVars
  <2>2. Owed' = Owed
    BY <2>1 DEF Owed
  <2>3. \A d \in Call : Done(d)' = Done(d)
    BY <2>1, Zenon DEF Done
  <2>4. (pending # << >> => batch = << >>)'
    BY <2>1 DEF OwedOK
  <2>5. QED
    BY <2>1, <2>2, <2>3, <2>4, OwedSame
<1>6. QED
  BY <1>1, <1>2, <1>3, <1>4, <1>5 DEF Next, Queue, Handler

-----------------------------------------------------------------------------
\* The order of a call's results.

LEMMA PlacedStep ==
  ASSUME TypeOK, OwedOK, [Next]_vars, NEW d \in Call, PlacedOK(d)
  PROVE  PlacedOK(d)'
<1>1. /\ received[d] \in Seq(Results) /\ rChan[d] \in Seq(Results)
      /\ Len(received[d]) \in Nat /\ Len(rChan[d]) \in Nat
  BY CountsType
<1>2. CASE received'[d] = received[d] /\ rChan'[d] = rChan[d]
  BY <1>2 DEF PlacedOK
<1>3. ASSUME NEW c \in Call, Receive(c) PROVE PlacedOK(d)'
  <2>1. CASE c # d
    BY <1>2, <1>3, <2>1, ReceiveMoves
  <2>2. CASE c = d
    <3>1. /\ received'[d] = Append(received[d], rChan[d][1])
          /\ Len(received'[d]) = Len(received[d]) + 1
          /\ Len(rChan[d]) >= 1 /\ Len(rChan'[d]) = Len(rChan[d]) - 1
          /\ \A n \in 1 .. Len(rChan'[d]) : rChan'[d][n] = rChan[d][n + 1]
      BY <1>3, <2>2, ReceiveMoves
    <3>2. rChan[d][1].update = [call |-> d, n |-> Len(received[d]) + 1]
      BY <1>1, <3>1 DEF PlacedOK
    <3>3. ASSUME NEW n \in 1 .. Len(received'[d])
          PROVE  received'[d][n].update = [call |-> d, n |-> n]
      <4>1. CASE n \in 1 .. Len(received[d])
        BY <1>1, <3>1, <4>1 DEF PlacedOK
      <4>2. CASE n = Len(received[d]) + 1
        BY <1>1, <3>1, <3>2, <4>2
      <4>3. QED
        BY <1>1, <3>1, <4>1, <4>2
    <3>4. ASSUME NEW n \in 1 .. Len(rChan'[d])
          PROVE  rChan'[d][n].update = [call |-> d, n |-> Len(received'[d]) + n]
      <4>1. n + 1 \in 1 .. Len(rChan[d]) /\ rChan'[d][n] = rChan[d][n + 1]
        BY <1>1, <3>1
      <4>2. rChan[d][n + 1].update = [call |-> d, n |-> Len(received[d]) + (n + 1)]
        BY <4>1 DEF PlacedOK
      <4>3. Len(received[d]) + (n + 1) = Len(received'[d]) + n
        <5>1. \A a, b \in Nat : a + (b + 1) = (a + 1) + b
          OBVIOUS
        <5>2. n \in Nat
          BY <1>1, <3>1
        <5>3. QED
          BY <1>1, <3>1, <5>1, <5>2
      <4>4. QED
        BY <4>1, <4>2, <4>3
    <3>5. QED
      BY <3>3, <3>4 DEF PlacedOK
  <2>3. QED
    BY <2>1, <2>2
<1>4. CASE Deliver
  <2>1. PICK c : c = Head(pending).update.call
    OBVIOUS
  <2>2. /\ c \in Call
        /\ Head(pending).update = [call |-> c, n |-> Done(c) + 1]
        /\ Head(pending) \in Results
    BY <1>4, <2>1, HeadIsNext DEF Deliver
  <2>3. CASE c # d
    BY <1>2, <1>4, <2>1, <2>3, DeliverMoves
  <2>4. CASE /\ c = d /\ UNCHANGED received
             /\ rChan' = [rChan EXCEPT ![c] = Append(rChan[c], Head(pending))]
             /\ Len(rChan'[c]) = Len(rChan[c]) + 1
    <3>1. rChan'[d] = Append(rChan[d], Head(pending)) /\ received'[d] = received[d]
      BY <2>4 DEF TypeOK
    <3>2. Head(pending).update = [call |-> d, n |-> Len(received[d]) + (Len(rChan[d]) + 1)]
      <4>1. \A a, b \in Nat : (a + b) + 1 = a + (b + 1)
        OBVIOUS
      <4>2. Done(d) + 1 = Len(received[d]) + (Len(rChan[d]) + 1)
        BY <1>1, <4>1 DEF Done
      <4>3. QED
        BY <2>2, <2>4, <4>2
    <3>3. ASSUME NEW n \in 1 .. Len(rChan'[d])
          PROVE  rChan'[d][n].update = [call |-> d, n |-> Len(received'[d]) + n]
      <4>1. CASE n \in 1 .. Len(rChan[d])
        BY <1>1, <3>1, <4>1 DEF PlacedOK
      <4>2. CASE n = Len(rChan[d]) + 1
        BY <1>1, <3>1, <3>2, <4>2
      <4>3. QED
        BY <1>1, <2>4, <4>1, <4>2
    <3>4. QED
      BY <3>1, <3>3 DEF PlacedOK
  <2>5. CASE /\ c = d /\ UNCHANGED rChan /\ Len(rChan[c]) = 0
             /\ received' = [received EXCEPT ![c] = Append(received[c], Head(pending))]
             /\ Len(received'[c]) = Len(received[c]) + 1
    <3>1. received'[d] = Append(received[d], Head(pending)) /\ rChan'[d] = rChan[d]
      BY <2>5 DEF TypeOK
    <3>2. Head(pending).update = [call |-> d, n |-> Len(received[d]) + 1]
      BY <1>1, <2>2, <2>5 DEF Done
    <3>3. ASSUME NEW n \in 1 .. Len(received'[d])
          PROVE  received'[d][n].update = [call |-> d, n |-> n]
      <4>1. CASE n \in 1 .. Len(received[d])
        BY <1>1, <3>1, <4>1 DEF PlacedOK
      <4>2. CASE n = Len(received[d]) + 1
        BY <1>1, <3>1, <3>2, <4>2
      <4>3. QED
        BY <1>1, <2>5, <4>1, <4>2
    <3>4. \A n \in 1 .. Len(rChan'[d]) : FALSE
      BY <2>5, <3>1
    <3>5. QED
      BY <3>3, <3>4 DEF PlacedOK
  <2>6. QED
    BY <1>4, <2>1, <2>3, <2>4, <2>5, DeliverMoves
<1>5. CASE UNCHANGED <<received, rChan>>
  BY <1>2, <1>5
<1>6. QED
  <2>1. \/ UNCHANGED <<received, rChan>>
        \/ Deliver
        \/ \E c \in Call : Receive(c)
    BY DEF Next, Queue, Handler, Flush, FlushBroken, RunLate, Begin, Submit, AllSent,
           Return, vars, callVars
  <2>2. QED
    BY <1>3, <1>4, <1>5, <2>1

-----------------------------------------------------------------------------
\* The handlers' phases.

\* A step that leaves a call alone, its results apart.
LEMMA PhaseSame ==
  ASSUME TypeOK, NEW d \in Call, PhaseOK(d), UNCHANGED request,
         sent'[d] = sent[d], phase'[d] = phase[d], closed'[d] = closed[d],
         outcome'[d] = outcome[d],
         phase[d] = "returned" => received'[d] = received[d]
  PROVE  PhaseOK(d)'
<1>1. Updates(d)' = Updates(d)
  BY RequestsStay
<1>2. CASE phase[d] = "returned"
  <2>1. Response(d)' = Response(d)
    BY <1>2 DEF Response, IsGood, Ids
  <2>2. received'[d] = received[d]
    BY <1>2
  <2>3. QED
    BY <1>1, <1>2, <2>1, <2>2 DEF PhaseOK
<1>3. CASE phase[d] # "returned"
  BY <1>1, <1>3 DEF PhaseOK
<1>4. QED
  BY <1>2, <1>3

LEMMA PhaseStep ==
  ASSUME TypeOK, OwedOK, [Next]_vars, NEW d \in Call, PhaseOK(d)
  PROVE  PhaseOK(d)'
<1>1. UNCHANGED request
  BY DEF Next, Queue, Handler, Flush, FlushBroken, RunLate, Deliver, Begin, Submit,
         AllSent, Receive, Return, vars, callVars
<1>2. Updates(d)' = Updates(d)
  BY <1>1, RequestsStay
<1>3. /\ phase \in [Call -> {"start", "submit", "await", "returned"}]
      /\ sent \in [Call -> Nat] /\ closed \in [Call -> BOOLEAN]
      /\ outcome \in [Call -> {"none", "ok", "error", "panic"}]
  BY DEF TypeOK
<1>4. ASSUME NEW c \in Call, Begin(c) PROVE PhaseOK(d)'
  <2>1. UNCHANGED <<sent, closed, received>>
    BY <1>4 DEF Begin
  <2>2. CASE c # d
    <3>1. phase'[d] = phase[d] /\ outcome'[d] = outcome[d]
      BY <1>3, <1>4, <2>2 DEF Begin
    <3>2. QED
      BY <1>1, <2>1, <3>1, PhaseSame
  <2>3. CASE c = d
    <3>1. phase[d] = "start" /\ sent[d] = 0 /\ outcome[d] = "none"
      BY <1>4, <2>3 DEF Begin, PhaseOK
    <3>2. Len(received[d]) = 0
      <4>1. Len(received[d]) \in Nat /\ Len(rChan[d]) \in Nat
        BY CountsType
      <4>2. Len(received[d]) + Len(rChan[d]) <= 0
        BY <3>1 DEF OwedOK, Done
      <4>3. \A a, b \in Nat : a + b <= 0 => a = 0
        OBVIOUS
      <4>4. QED
        BY <4>1, <4>2, <4>3
    <3>3. \/ phase'[d] = "returned" /\ outcome'[d] = "error"
          \/ phase'[d] = "submit" /\ outcome'[d] = "none"
      BY <1>3, <1>4, <2>3, <3>1 DEF Begin
    <3>4. ~ closed[d]
      BY <3>1 DEF PhaseOK
    <3>5. QED
      BY <2>1, <3>1, <3>2, <3>3, <3>4 DEF PhaseOK
  <2>4. QED
    BY <2>2, <2>3
<1>5. ASSUME NEW c \in Call, Submit(c) PROVE PhaseOK(d)'
  <2>1. UNCHANGED <<phase, closed, received, outcome>>
    BY <1>5 DEF Submit
  <2>2. CASE c # d
    <3>1. sent'[d] = sent[d]
      BY <1>3, <1>5, <2>2 DEF Submit
    <3>2. QED
      BY <1>1, <2>1, <3>1, PhaseSame
  <2>3. CASE c = d
    <3>1. phase[d] = "submit"
      BY <1>5, <2>3 DEF Submit
    <3>2. QED
      BY <2>1, <3>1 DEF PhaseOK
  <2>4. QED
    BY <2>2, <2>3
<1>6. ASSUME NEW c \in Call, AllSent(c) PROVE PhaseOK(d)'
  <2>1. UNCHANGED <<sent, closed, received, outcome>>
    BY <1>6 DEF AllSent
  <2>2. CASE c # d
    <3>1. phase'[d] = phase[d]
      BY <1>3, <1>6, <2>2 DEF AllSent
    <3>2. QED
      BY <1>1, <2>1, <3>1, PhaseSame
  <2>3. CASE c = d
    <3>1. phase[d] = "submit" /\ phase'[d] = "await" /\ sent[d] = Len(Updates(d))
      BY <1>3, <1>6, <2>3 DEF AllSent
    <3>2. QED
      BY <1>2, <2>1, <3>1 DEF PhaseOK
  <2>4. QED
    BY <2>2, <2>3
<1>7. ASSUME NEW c \in Call, Receive(c) PROVE PhaseOK(d)'
  <2>1. UNCHANGED <<sent, closed, phase, outcome>> /\ phase[c] = "await"
    BY <1>7 DEF Receive
  <2>2. phase[d] = "returned" => received'[d] = received[d]
    BY <1>7, <2>1, ReceiveMoves
  <2>3. QED
    BY <1>1, <2>1, <2>2, PhaseSame
<1>8. ASSUME NEW c \in Call, Return(c) PROVE PhaseOK(d)'
  <2>1. UNCHANGED <<sent, received>>
    BY <1>8 DEF Return
  <2>2. CASE c # d
    <3>1. phase'[d] = phase[d] /\ closed'[d] = closed[d] /\ outcome'[d] = outcome[d]
      BY <1>3, <1>8, <2>2 DEF Return
    <3>2. QED
      BY <1>1, <2>1, <3>1, PhaseSame
  <2>3. CASE c = d
    <3>1. /\ phase[d] = "await" /\ phase'[d] = "returned"
          /\ Len(received[d]) = sent[d] /\ outcome'[d] = Response(d)
      BY <1>3, <1>8, <2>3 DEF Return, HasAllResults
    <3>2. Response(d)' = Response(d)
      BY <1>1, <2>1 DEF Response, IsGood, Ids
    <3>3. sent[d] = Len(Updates(d))
      BY <3>1 DEF PhaseOK
    <3>4. QED
      BY <1>2, <2>1, <3>1, <3>2, <3>3 DEF PhaseOK
  <2>4. QED
    BY <2>2, <2>3
<1>9. CASE Deliver
  <2>1. UNCHANGED <<sent, phase, closed, outcome>>
    BY <1>9 DEF Deliver
  <2>2. PICK c : c = Head(pending).update.call
    OBVIOUS
  <2>3. phase[d] = "returned" => received'[d] = received[d]
    BY <1>9, <2>2, DeliverMoves
  <2>4. QED
    BY <1>1, <2>1, <2>3, PhaseSame
<1>10. CASE Flush \/ FlushBroken \/ RunLate \/ UNCHANGED vars
  <2>1. UNCHANGED <<sent, phase, closed, outcome, received>>
    BY <1>10 DEF Flush, FlushBroken, RunLate, vars, callVars
  <2>2. QED
    BY <1>1, <2>1, PhaseSame
<1>11. QED
  BY <1>4, <1>5, <1>6, <1>7, <1>8, <1>9, <1>10 DEF Next, Queue, Handler

-----------------------------------------------------------------------------
\* What results say.

\* A longer stream holds what it held.
LEMMA StreamGrows ==
  ASSUME TypeOK, NEW W \in Seq(Update), stream' = stream \o W
  PROVE  /\ Len(stream) \in Nat /\ Len(W) \in Nat
         /\ Len(stream') = Len(stream) + Len(W)
         /\ \A k \in 1 .. Len(stream) : k \in 1 .. Len(stream') /\ stream'[k] = stream[k]
         /\ \A k \in 1 .. Len(W) : /\ Len(stream) + k \in 1 .. Len(stream')
                                   /\ stream'[Len(stream) + k] = W[k]
         /\ \A m \in 1 .. Len(stream') :
              \/ m \in 1 .. Len(stream) /\ stream'[m] = stream[m]
              \/ \E k \in 1 .. Len(W) : m = Len(stream) + k /\ stream'[m] = W[k]
<1>1. stream \in Seq(Update) /\ Len(stream) \in Nat /\ Len(W) \in Nat
  BY DEF TypeOK
<1>2. /\ Len(stream') = Len(stream) + Len(W)
      /\ \A k \in 1 .. Len(stream) : k \in 1 .. Len(stream') /\ stream'[k] = stream[k]
      /\ \A k \in 1 .. Len(W) : /\ Len(stream) + k \in 1 .. Len(stream')
                                /\ stream'[Len(stream) + k] = W[k]
  BY <1>1
<1>3. ASSUME NEW m \in 1 .. Len(stream')
      PROVE  \/ m \in 1 .. Len(stream) /\ stream'[m] = stream[m]
             \/ \E k \in 1 .. Len(W) : m = Len(stream) + k /\ stream'[m] = W[k]
  <2>1. m \in Nat /\ 1 <= m /\ m <= Len(stream) + Len(W)
    BY <1>1, <1>2
  <2>2. CASE m <= Len(stream)
    BY <1>1, <1>2, <2>1, <2>2
  <2>3. CASE ~ (m <= Len(stream))
    <3>1. m - Len(stream) \in 1 .. Len(W) /\ m = Len(stream) + (m - Len(stream))
      BY <1>1, <2>1, <2>3
    <3>2. PICK k \in 1 .. Len(W) : m = Len(stream) + k
      BY <3>1
    <3>3. QED
      BY <1>2, <3>2
  <2>4. QED
    BY <2>2, <2>3
<1>4. QED
  BY <1>1, <1>2, <1>3

\* Results stay true.
LEMMA ResultStays ==
  ASSUME TypeOK, UNCHANGED request, NEW r \in Results, ResultOK(r),
         \/ stream' = stream
         \/ \E W \in Seq(Update) : stream' = stream \o W
  PROVE  ResultOK(r)'
<1>1. ValidUpdate(r.update)' = ValidUpdate(r.update)
  BY DEF ValidUpdate, Updates, OneEach, IsGood, NotEmpty, Ids
<1>2. \A k \in 1 .. Len(stream) : k \in 1 .. Len(stream') /\ stream'[k] = stream[k]
  BY StreamGrows
<1>3. QED
  BY <1>1, <1>2 DEF ResultOK

\* The reply to a command that is not refused is the place of its update in the
\* stream, among those that Written adds.
LEMMA ReplyPlace ==
  ASSUME TypeOK, NEW refused, NEW n \in 1 .. Len(Commands), n \notin refused
  PROVE  \E m \in 1 .. Len(Written(refused)) :
           /\ Reply(n, refused) = Len(stream) + m
           /\ Nth(DOMAIN Commands \ refused, m) = n
           /\ Written(refused)[m] = Commands[n]
<1>1. Commands \in Seq(Update) /\ Len(Commands) \in Nat /\ n \in Nat /\ n >= 1
  BY CommandsType
<1> DEFINE K == DOMAIN Commands \ refused
           m == Cardinality((1 .. n) \ refused)
<1>2. K \in SUBSET (1 .. Len(Commands)) /\ n \in K
  BY <1>1
<1>3. Upto(K, n) = (1 .. n) \ refused
  <2>1. \A j : j \in 1 .. Len(Commands) /\ j <= n <=> j \in 1 .. n
    BY <1>1
  <2>2. DOMAIN Commands = 1 .. Len(Commands)
    BY <1>1
  <2>3. QED
    BY <2>1, <2>2 DEF Upto
<1>4. Written(refused) = Pick(Commands, K)
  BY DEF Written
<1>5. Reply(n, refused) = Len(stream) + m
  BY DEF Reply
<1> HIDE DEF K
<1>6. m \in 1 .. Cardinality(K) /\ Nth(K, m) = n
  BY <1>1, <1>2, <1>3, NthOf
<1>7. /\ Len(Written(refused)) = Cardinality(K)
      /\ \A i \in 1 .. Cardinality(K) : Written(refused)[i] = Commands[Nth(K, i)]
  BY <1>1, <1>2, <1>4, PickType
<1> HIDE DEF m
<1>8. QED
  BY <1>5, <1>6, <1>7 DEF K

\* The result of an update, as SendUpdates reads it from the replies.
LEMMA ResultTrue ==
  ASSUME TypeOK, UNCHANGED request, NEW n \in 1 .. Len(batch), NEW refused \in Refusable,
         NEW trimFailed \in {FALSE, "xtrim" \in Fault},
         stream' = stream \o Written(refused),
         NEW r, r = Result(n, refused, trimFailed)
  PROVE  ResultOK(r)'
<1> DEFINE failed == n <= Len(Commands) /\ (trimFailed \/ n \in refused)
<1>0. trimFailed \in BOOLEAN
  <2>1. ("xtrim" \in Fault) \in BOOLEAN
    OBVIOUS
  <2>2. trimFailed = FALSE \/ trimFailed = ("xtrim" \in Fault)
    OBVIOUS
  <2>3. QED
    BY ONLY <2>1, <2>2, Zenon
<1>2. /\ Commands \in Seq(Update) /\ Len(Commands) \in Nat /\ Len(Commands) <= Len(batch)
      /\ Len(batch) \in Nat /\ n \in Nat /\ n >= 1
  BY CommandsType DEF TypeOK
<1>3. /\ Written(refused) \in Seq(Update) /\ Len(Written(refused)) \in Nat
      /\ Len(stream) \in Nat
  BY WrittenType DEF TypeOK
<1>4. /\ r.update = batch[n]
      /\ r.clean = (Commands = batch)
      /\ r.err = (~ ValidUpdate(batch[n]) \/ failed)
      /\ r.id = IF n <= Len(Commands) /\ ValidUpdate(batch[n]) /\ ~ failed
                  THEN Reply(n, refused) ELSE 0
  BY DEF Result
<1>5. (trimFailed \/ n \in refused) => Fault \cap {"xadd", "xtrim"} # {}
  BY DEF Refusable
<1>6. ASSUME r.clean, ~ r.err
      PROVE  r.id \in 1 .. Len(stream') /\ stream'[r.id] = r.update
  <2>1. Commands = batch /\ ValidUpdate(batch[n]) /\ ~ failed
    BY <1>4, <1>6
  <2>2. n \in 1 .. Len(Commands) /\ n \notin refused
    BY <1>2, <2>1
  <2> HIDE DEF failed
  <2>3. PICK m \in 1 .. Len(Written(refused)) :
          Reply(n, refused) = Len(stream) + m /\ Written(refused)[m] = Commands[n]
    BY <2>2, ReplyPlace
  <2>4. r.id = Len(stream) + m
    BY <1>2, <1>4, <2>1, <2>2, <2>3
  <2>5. /\ Len(stream) + m \in 1 .. Len(stream')
        /\ stream'[Len(stream) + m] = Written(refused)[m]
    BY <1>3, StreamGrows
  <2>6. QED
    BY <1>4, <2>1, <2>3, <2>4, <2>5
<1>7. \A u : ValidUpdate(u)' = ValidUpdate(u)
  BY DEF ValidUpdate, Updates, OneEach, IsGood, NotEmpty, Ids
<1>8. QED
  BY <1>4, <1>5, <1>6, <1>7 DEF ResultOK

LEMMA HeldResults ==
  /\ ResultsOK <=> \A r : Held(r) => ResultOK(r)
  /\ (\A r : Held(r)' => ResultOK(r)') => ResultsOK'
<1>1. ResultsOK <=> \A r : Held(r) => ResultOK(r)
  BY DEF ResultsOK, Held
<1>2. ASSUME \A r : Held(r)' => ResultOK(r)' PROVE ResultsOK'
  <2>1. ASSUME NEW c \in Call, NEW n \in 1 .. Len(received'[c])
        PROVE  ResultOK(received[c][n])'
    <3>1. PICK r : r = received'[c][n]
      OBVIOUS
    <3>2. Held(r)'
      BY <3>1 DEF Held
    <3>3. QED
      BY <1>2, <3>1, <3>2 DEF ResultOK
  <2>2. ASSUME NEW c \in Call, NEW n \in 1 .. Len(rChan'[c])
        PROVE  ResultOK(rChan[c][n])'
    <3>1. PICK r : r = rChan'[c][n]
      OBVIOUS
    <3>2. Held(r)'
      BY <3>1 DEF Held
    <3>3. QED
      BY <1>2, <3>1, <3>2 DEF ResultOK
  <2>3. ASSUME NEW k \in 1 .. Len(pending')
        PROVE  ResultOK(pending[k])'
    <3>1. PICK r : r = pending'[k]
      OBVIOUS
    <3>2. Held(r)'
      BY <3>1 DEF Held
    <3>3. QED
      BY <1>2, <3>1, <3>2 DEF ResultOK
  <2>4. QED
    BY <2>1, <2>2, <2>3 DEF ResultsOK
<1>3. QED
  BY <1>1, <1>2

LEMMA HeldType == ASSUME TypeOK, NEW r, Held(r) PROVE r \in Results
<1>1. \A c \in Call : received[c] \in Seq(Results) /\ rChan[c] \in Seq(Results)
  BY CountsType
<1>2. pending \in Seq(Results)
  BY DEF TypeOK
<1>3. QED
  BY <1>1, <1>2 DEF Held

\* Results are handed on, or new.
LEMMA HeldStep ==
  ASSUME TypeOK, OwedOK, [Next]_vars, NEW r, Held(r)'
  PROVE  \/ Held(r)
         \/ \E n \in 1 .. Len(batch), refused \in Refusable,
              trimFailed \in {FALSE, "xtrim" \in Fault} :
              /\ Flush /\ stream' = stream \o Written(refused)
              /\ r = Result(n, refused, trimFailed)
         \/ FlushBroken /\ \E n \in 1 .. Len(batch) : r = LostResult(n)
<1>1. ASSUME NEW c \in Call, Receive(c) PROVE Held(r)
  <2>1. /\ received'[c] = Append(received[c], rChan[c][1])
        /\ Len(received'[c]) = Len(received[c]) + 1
        /\ Len(rChan[c]) >= 1 /\ Len(rChan'[c]) = Len(rChan[c]) - 1
        /\ \A n \in 1 .. Len(rChan'[c]) : rChan'[c][n] = rChan[c][n + 1]
        /\ \A d \in Call : d # c => rChan'[d] = rChan[d] /\ received'[d] = received[d]
    BY <1>1, ReceiveMoves
  <2>2. /\ received[c] \in Seq(Results) /\ Len(received[c]) \in Nat
        /\ Len(rChan[c]) \in Nat
    BY CountsType
  <2>3. UNCHANGED pending
    BY <1>1 DEF Receive
  <2>4. ASSUME NEW n \in 1 .. Len(received'[c])
        PROVE  \/ received'[c][n] = rChan[c][1]
               \/ n \in 1 .. Len(received[c]) /\ received'[c][n] = received[c][n]
    BY <2>1, <2>2
  <2>5. \A n \in 1 .. Len(rChan'[c]) :
          n + 1 \in 1 .. Len(rChan[c]) /\ rChan'[c][n] = rChan[c][n + 1]
    BY <2>1, <2>2
  <2>6. 1 \in 1 .. Len(rChan[c])
    BY <2>1, <2>2
  <2>7. CASE \E d \in Call : d # c /\ \/ \E n \in 1 .. Len(received'[d]) : r = received'[d][n]
                                      \/ \E n \in 1 .. Len(rChan'[d]) : r = rChan'[d][n]
    BY <2>1, <2>7 DEF Held
  <2>8. CASE \E n \in 1 .. Len(received'[c]) : r = received'[c][n]
    BY <2>4, <2>6, <2>8 DEF Held
  <2>9. CASE \E n \in 1 .. Len(rChan'[c]) : r = rChan'[c][n]
    BY <2>5, <2>9 DEF Held
  <2>10. CASE \E k \in 1 .. Len(pending') : r = pending'[k]
    BY <2>3, <2>10 DEF Held
  <2>11. QED
    BY <2>7, <2>8, <2>9, <2>10 DEF Held
<1>2. CASE Deliver
  <2>1. PICK c : c = Head(pending).update.call
    OBVIOUS
  <2>2. c \in Call
    BY <1>2, <2>1, DeliverMoves
  <2>3. /\ received[c] \in Seq(Results) /\ rChan[c] \in Seq(Results)
        /\ Len(received[c]) \in Nat /\ Len(rChan[c]) \in Nat
    BY <2>2, CountsType
  <2>4. /\ \/ received'[c] = received[c]
           \/ /\ received'[c] = Append(received[c], Head(pending))
              /\ Len(received'[c]) = Len(received[c]) + 1
        /\ \/ rChan'[c] = rChan[c]
           \/ /\ rChan'[c] = Append(rChan[c], Head(pending))
              /\ Len(rChan'[c]) = Len(rChan[c]) + 1
    <3>1. rChan \in [Call -> Seq(Results)] /\ received \in [Call -> Seq(Results)]
      BY DEF TypeOK
    <3>2. QED
      BY <1>2, <2>1, <2>2, <3>1, DeliverMoves
  <2>5. \A d \in Call : d # c => rChan'[d] = rChan[d] /\ received'[d] = received[d]
    BY <1>2, <2>1, DeliverMoves
  <2>6. /\ Head(pending) = pending[1] /\ 1 \in 1 .. Len(pending)
        /\ Len(pending') = Len(pending) - 1
        /\ \A k \in 1 .. Len(pending') :
             k + 1 \in 1 .. Len(pending) /\ pending'[k] = pending[k + 1]
    <3>1. pending \in Seq(Results) /\ pending # << >> /\ pending' = Tail(pending)
      BY <1>2 DEF Deliver, TypeOK
    <3>2. Len(pending) \in Nat /\ Len(pending) >= 1
      BY <3>1, HeadTailProperties
    <3>3. QED
      BY <3>1, <3>2, HeadTailProperties
  <2>7. \A n \in 1 .. Len(received'[c]) :
          \/ received'[c][n] = Head(pending)
          \/ n \in 1 .. Len(received[c]) /\ received'[c][n] = received[c][n]
    BY <2>3, <2>4
  <2>8. \A n \in 1 .. Len(rChan'[c]) :
          \/ rChan'[c][n] = Head(pending)
          \/ n \in 1 .. Len(rChan[c]) /\ rChan'[c][n] = rChan[c][n]
    <3>1. CASE rChan'[c] = rChan[c]
      BY <3>1
    <3>2. CASE /\ rChan'[c] = Append(rChan[c], Head(pending))
               /\ Len(rChan'[c]) = Len(rChan[c]) + 1
      BY <2>3, <3>2
    <3>3. QED
      BY <2>4, <3>1, <3>2
  <2>9. CASE \E d \in Call : d # c /\ \/ \E n \in 1 .. Len(received'[d]) : r = received'[d][n]
                                      \/ \E n \in 1 .. Len(rChan'[d]) : r = rChan'[d][n]
    BY <2>5, <2>9 DEF Held
  <2>10. CASE \E n \in 1 .. Len(received'[c]) : r = received'[c][n]
    BY <2>2, <2>6, <2>7, <2>10 DEF Held
  <2>11. CASE \E n \in 1 .. Len(rChan'[c]) : r = rChan'[c][n]
    BY <2>2, <2>6, <2>8, <2>11 DEF Held
  <2>12. CASE \E k \in 1 .. Len(pending') : r = pending'[k]
    BY <2>6, <2>12 DEF Held
  <2>13. QED
    BY <2>9, <2>10, <2>11, <2>12 DEF Held
<1>3. CASE Flush \/ FlushBroken
  <2>1. UNCHANGED <<received, rChan>> /\ DOMAIN batch = 1 .. Len(batch) /\ Len(batch) \in Nat
    <3>1. batch \in Seq(Update)
      BY DEF TypeOK
    <3>2. UNCHANGED <<received, rChan>>
      BY <1>3 DEF Flush, FlushBroken, callVars
    <3>3. QED
      BY <3>1, <3>2
  <2>2. Held(r) \/ \E k \in 1 .. Len(pending') : r = pending'[k]
    BY <2>1 DEF Held
  <2>3. CASE \E k \in 1 .. Len(pending') : r = pending'[k]
    <3>1. PICK k \in 1 .. Len(pending') : r = pending'[k]
      BY <2>3
    <3>2. CASE Flush
      <4>1. PICK refused \in Refusable, trimFailed \in {FALSE, "xtrim" \in Fault} :
              /\ stream' = stream \o Written(refused)
              /\ pending' = [n \in DOMAIN batch |-> Result(n, refused, trimFailed)]
        BY <3>2 DEF Flush
      <4>2. Len(pending') = Len(batch)
        BY <2>1, <4>1
      <4>3. k \in 1 .. Len(batch) /\ r = Result(k, refused, trimFailed)
        BY <2>1, <3>1, <4>1, <4>2
      <4>4. QED
        BY <3>2, <4>1, <4>3
    <3>3. CASE FlushBroken
      <4>1. pending' = [n \in DOMAIN batch |-> LostResult(n)]
        BY <3>3 DEF FlushBroken
      <4>2. Len(pending') = Len(batch)
        BY <2>1, <4>1
      <4>3. k \in 1 .. Len(batch) /\ r = LostResult(k)
        BY <2>1, <3>1, <4>1, <4>2
      <4>4. QED
        BY <3>3, <4>3
    <3>4. QED
      BY <1>3, <3>2, <3>3
  <2>4. QED
    BY <2>2, <2>3
<1>4. CASE UNCHANGED <<received, rChan, pending>>
  BY <1>4 DEF Held
<1>5. QED
  <2>1. \/ UNCHANGED <<received, rChan, pending>>
        \/ Deliver \/ Flush \/ FlushBroken
        \/ \E c \in Call : Receive(c)
    BY DEF Next, Queue, Handler, RunLate, Begin, Submit, AllSent, Return, vars, callVars
  <2>2. QED
    BY <1>1, <1>2, <1>3, <1>4, <2>1

\* What Redis accepts of a batch: elements of it, each once, in order.
LEMMA WrittenFromBatch ==
  ASSUME TypeOK, OwedOK, pending = << >>, NEW refused
  PROVE  /\ Written(refused) \in Seq(Update) /\ Len(Written(refused)) \in Nat
         /\ \A m \in 1 .. Len(Written(refused)) :
              \E k \in 1 .. Len(batch) : Written(refused)[m] = batch[k]
         /\ \A m, n \in 1 .. Len(Written(refused)) :
              m # n => Written(refused)[m] # Written(refused)[n]
         /\ \A m, n \in 1 .. Len(Written(refused)) : m < n =>
              \E j, k \in 1 .. Len(batch) :
                j < k /\ Written(refused)[m] = batch[j] /\ Written(refused)[n] = batch[k]
<1>1. batch \in Seq(Update) /\ \A j, k \in 1 .. Len(batch) : j # k => batch[j] # batch[k]
  BY BatchOnce DEF TypeOK
<1>2. Commands \in Seq(Update) /\ Len(Commands) \in Nat
  BY CommandsType
<1> DEFINE V == {n \in DOMAIN batch : ValidUpdate(batch[n])}
           K == DOMAIN Commands \ refused
<1>3. Commands = Pick(batch, V) /\ V \in SUBSET (1 .. Len(batch))
  BY <1>1 DEF Commands
<1>4. Written(refused) = Pick(Commands, K) /\ K \in SUBSET (1 .. Len(Commands))
  BY <1>2 DEF Written
<1> HIDE DEF V, K
<1>5. \A m, n \in 1 .. Len(Commands) : m # n => Commands[m] # Commands[n]
  BY <1>1, <1>3, PickInjective
<1>6. \A m, n \in 1 .. Len(Commands) : m < n =>
        \E j, k \in 1 .. Len(batch) : j < k /\ Commands[m] = batch[j] /\ Commands[n] = batch[k]
  BY <1>1, <1>3, PickOrdered
<1>7. \A m, n \in 1 .. Len(Written(refused)) :
        m # n => Written(refused)[m] # Written(refused)[n]
  BY <1>2, <1>4, <1>5, PickInjective
<1>8. ASSUME NEW m \in 1 .. Len(Written(refused)), NEW n \in 1 .. Len(Written(refused)),
             m < n
      PROVE  \E j, k \in 1 .. Len(batch) :
               j < k /\ Written(refused)[m] = batch[j] /\ Written(refused)[n] = batch[k]
  <2>1. PICK a, b \in 1 .. Len(Commands) :
          a < b /\ Written(refused)[m] = Commands[a] /\ Written(refused)[n] = Commands[b]
    <3>1. m \in 1 .. Len(Pick(Commands, K)) /\ n \in 1 .. Len(Pick(Commands, K))
      BY <1>4
    <3>2. \E a, b \in 1 .. Len(Commands) :
            a < b /\ Pick(Commands, K)[m] = Commands[a] /\ Pick(Commands, K)[n] = Commands[b]
      BY <1>2, <1>4, <1>8, <3>1, PickOrdered
    <3>3. QED
      BY <1>4, <3>2, Zenon
  <2>2. \E j, k \in 1 .. Len(batch) : j < k /\ Commands[a] = batch[j] /\ Commands[b] = batch[k]
    BY <1>6, <2>1, Zenon
  <2>3. QED
    BY <2>1, <2>2, Zenon
<1>9. QED
  BY <1>7, <1>8, WrittenType

\* Flush appends elements of the batch to the stream.
LEMMA FlushGrows ==
  ASSUME TypeOK, OwedOK, Flush
  PROVE  \E W \in Seq(Update) :
           /\ stream' = stream \o W /\ Len(W) \in Nat
           /\ \A m \in 1 .. Len(W) : \E k \in 1 .. Len(batch) : W[m] = batch[k]
           /\ \A m, n \in 1 .. Len(W) : m # n => W[m] # W[n]
           /\ \A m, n \in 1 .. Len(W) : m < n =>
                \E j, k \in 1 .. Len(batch) : j < k /\ W[m] = batch[j] /\ W[n] = batch[k]
<1>1. PICK refused \in Refusable : stream' = stream \o Written(refused)
  BY DEF Flush
<1>2. pending = << >>
  BY DEF Flush
<1>3. QED
  BY <1>1, <1>2, WrittenFromBatch

\* FlushBroken sets a sequence of such elements adrift.
LEMMA BrokenGoesAdrift ==
  ASSUME TypeOK, OwedOK, FlushBroken
  PROVE  \E W \in Seq(Update) :
           /\ adrift' = adrift \cup ({W} \ {<< >>}) /\ Len(W) \in Nat
           /\ \A m \in 1 .. Len(W) : \E k \in 1 .. Len(batch) : W[m] = batch[k]
           /\ \A m, n \in 1 .. Len(W) : m # n => W[m] # W[n]
<1>1. PICK refused \in Refusable : \E m \in 0 .. Len(Written(refused)) :
        adrift' = adrift \cup ({SubSeq(Written(refused), 1, m)} \ {<< >>})
  BY DEF FlushBroken
<1>2. PICK m \in 0 .. Len(Written(refused)) :
        adrift' = adrift \cup ({SubSeq(Written(refused), 1, m)} \ {<< >>})
  BY <1>1
<1>3. pending = << >>
  BY DEF FlushBroken
<1>4. /\ Written(refused) \in Seq(Update) /\ Len(Written(refused)) \in Nat
      /\ \A k \in 1 .. Len(Written(refused)) :
           \E i \in 1 .. Len(batch) : Written(refused)[k] = batch[i]
      /\ \A k, n \in 1 .. Len(Written(refused)) :
           k # n => Written(refused)[k] # Written(refused)[n]
  BY <1>3, WrittenFromBatch
<1>5. PICK W \in Seq(Update) :
        /\ W = SubSeq(Written(refused), 1, m) /\ Len(W) = m
        /\ \A k \in 1 .. m : k \in 1 .. Len(Written(refused)) /\ W[k] = Written(refused)[k]
  <2>1. /\ SubSeq(Written(refused), 1, m) \in Seq(Update)
        /\ Len(SubSeq(Written(refused), 1, m)) = m
        /\ \A k \in 1 .. m : /\ k \in 1 .. Len(Written(refused))
                             /\ SubSeq(Written(refused), 1, m)[k] = Written(refused)[k]
    BY <1>4, PrefixType
  <2>2. QED
    BY <2>1
<1>6. Len(W) \in Nat /\ adrift' = adrift \cup ({W} \ {<< >>})
  BY <1>2, <1>4, <1>5
<1>7. \A k \in 1 .. Len(W) : \E i \in 1 .. Len(batch) : W[k] = batch[i]
  BY <1>4, <1>5
<1>8. \A k, n \in 1 .. Len(W) : k # n => W[k] # W[n]
  BY <1>4, <1>5
<1>9. QED
  BY <1>6, <1>7, <1>8

\* RunLate moves the head of a sequence that is adrift to the stream.
LEMMA LateMoves ==
  ASSUME TypeOK, AdriftOK, NEW s \in adrift,
         stream' = Append(stream, Head(s)),
         adrift' = (adrift \ {s}) \cup ({Tail(s)} \ {<< >>})
  PROVE  /\ Head(s) \in Adrift /\ Head(s) \in Update
         /\ Adrift' = Adrift \ {Head(s)}
         /\ AdriftOK'
<1>1. /\ s \in Seq(Update) /\ Len(s) \in Nat /\ Len(s) >= 1
      /\ \A t \in adrift : t \in Seq(Update)
  BY EmptySeq DEF TypeOK
<1>2. /\ Head(s) = s[1] /\ Tail(s) \in Seq(Update) /\ Len(Tail(s)) = Len(s) - 1
      /\ \A k \in 1 .. Len(s) - 1 : Tail(s)[k] = s[k + 1]
  BY <1>1, HeadTailProperties
<1>3. \A k \in 1 .. Len(Tail(s)) : k + 1 \in 1 .. Len(s) /\ k + 1 # 1 /\ Tail(s)[k] = s[k + 1]
  BY <1>1, <1>2
<1>4. 1 \in 1 .. Len(s) /\ Head(s) = s[1]
  BY <1>1, <1>2
<1>5. \A u : u \in Adrift <=> \E t \in adrift : \E k \in 1 .. Len(t) : u = t[k]
  <2>1. \A t \in adrift : DOMAIN t = 1 .. Len(t)
    BY <1>1
  <2>2. QED
    BY <2>1 DEF Adrift
<1>6. \A t \in adrift' : t \in Seq(Update) /\ DOMAIN t = 1 .. Len(t)
  BY <1>1, <1>2
<1>7. \A u : u \in Adrift' <=> \E t \in adrift' : \E k \in 1 .. Len(t) : u = t[k]
  BY <1>6 DEF Adrift
<1>8. ASSUME NEW t \in adrift', NEW k \in 1 .. Len(t)
      PROVE  \/ t \in adrift /\ t # s
             \/ t = Tail(s) /\ k + 1 \in 1 .. Len(s) /\ k + 1 # 1 /\ t[k] = s[k + 1]
  BY <1>3
<1>9. ASSUME NEW u \in Adrift' PROVE u \in Adrift /\ u # Head(s)
  <2>1. PICK t \in adrift' : \E k \in 1 .. Len(t) : u = t[k]
    BY <1>7
  <2>2. PICK k \in 1 .. Len(t) : u = t[k]
    BY <2>1
  <2>3. CASE t \in adrift /\ t # s
    BY <1>4, <1>5, <2>2, <2>3 DEF AdriftOK
  <2>4. CASE k + 1 \in 1 .. Len(s) /\ k + 1 # 1 /\ t[k] = s[k + 1]
    BY <1>4, <1>5, <2>2, <2>4 DEF AdriftOK
  <2>5. QED
    BY <1>8, <2>3, <2>4
<1>10. ASSUME NEW u \in Adrift, u # Head(s) PROVE u \in Adrift'
  <2>1. PICK t \in adrift : \E k \in 1 .. Len(t) : u = t[k]
    BY <1>5
  <2>2. PICK k \in 1 .. Len(t) : u = t[k]
    BY <2>1
  <2>3. CASE t # s
    <3>1. t \in adrift'
      BY <2>3
    <3>2. QED
      BY <1>7, <2>2, <3>1
  <2>4. CASE t = s
    <3>1. k \in Nat /\ k # 1 /\ k >= 1 /\ k <= Len(s)
      BY <1>1, <1>4, <1>10, <2>2, <2>4
    <3>2. PICK j \in 1 .. Len(Tail(s)) : k = j + 1
      <4>1. k - 1 \in 1 .. Len(Tail(s)) /\ k = (k - 1) + 1
        BY <1>1, <1>2, <3>1
      <4>2. QED
        BY <4>1
    <3>3. u = Tail(s)[j]
      BY <1>3, <2>2, <2>4, <3>2
    <3>4. Tail(s) # << >>
      BY <1>2, <3>2
    <3>5. Tail(s) \in adrift'
      BY <3>4
    <3>6. QED
      BY <1>7, <3>3, <3>5
  <2>5. QED
    BY <2>3, <2>4
<1>11. Adrift' = Adrift \ {Head(s)}
  BY <1>9, <1>10
<1>12. Head(s) \in Adrift /\ Head(s) \in Update
  BY <1>1, <1>4, <1>5
<1>13. ASSUME NEW t \in adrift', NEW v \in adrift',
              NEW j \in 1 .. Len(t), NEW k \in 1 .. Len(v), t[j] = v[k]
       PROVE  t = v /\ j = k
  <2>1. j \in Nat /\ k \in Nat
    BY <1>6
  <2>2. CASE t \in adrift /\ t # s /\ v \in adrift /\ v # s
    BY <1>13, <2>2 DEF AdriftOK
  <2>3. CASE /\ t \in adrift /\ t # s
             /\ k + 1 \in 1 .. Len(s) /\ v[k] = s[k + 1]
    BY <1>13, <2>3 DEF AdriftOK
  <2>4. CASE /\ v \in adrift /\ v # s
             /\ j + 1 \in 1 .. Len(s) /\ t[j] = s[j + 1]
    <3>1. v[k] = s[j + 1]
      BY <1>13, <2>4
    <3>2. QED
      BY <2>4, <3>1 DEF AdriftOK
  <2>5. CASE /\ t = Tail(s) /\ j + 1 \in 1 .. Len(s) /\ t[j] = s[j + 1]
             /\ v = Tail(s) /\ k + 1 \in 1 .. Len(s) /\ v[k] = s[k + 1]
    <3>1. j + 1 = k + 1
      BY <1>13, <2>5 DEF AdriftOK
    <3>2. QED
      BY <2>1, <2>5, <3>1
  <2>6. QED
    BY <1>8, <2>2, <2>3, <2>4, <2>5
<1>14. ASSUME NEW m \in 1 .. Len(stream') PROVE stream'[m] \notin Adrift'
  <2>1. stream \in Seq(Update) /\ Len(stream) \in Nat
    BY DEF TypeOK
  <2>2. \/ m \in 1 .. Len(stream) /\ stream'[m] = stream[m]
        \/ stream'[m] = Head(s)
    <3>1. PICK h \in Update : h = Head(s)
      BY <1>12
    <3>2. stream' = Append(stream, h)
      BY <3>1
    <3>3. Len(stream') = Len(stream) + 1
      BY <2>1, <3>2
    <3>4. m \in 1 .. Len(stream) \/ m = Len(stream) + 1
      BY <2>1, <3>3
    <3>5. QED
      BY <2>1, <3>1, <3>2, <3>4
  <2>3. QED
    BY <1>11, <2>2 DEF AdriftOK
<1>15. QED
  BY <1>11, <1>12, <1>13, <1>14 DEF AdriftOK

\* Only Flush and RunLate change the stream, and they make it longer.
LEMMA StreamStepGrows ==
  ASSUME TypeOK, OwedOK, [Next]_vars
  PROVE  stream' = stream \/ \E W \in Seq(Update) : stream' = stream \o W
<1>1. CASE Flush
  BY <1>1, FlushGrows
<1>2. CASE RunLate
  <2>1. PICK s \in adrift : stream' = Append(stream, Head(s))
    BY <1>2 DEF RunLate
  <2>2. Head(s) \in Update
    <3>1. s \in Seq(Update) /\ s # << >>
      BY DEF TypeOK
    <3>2. QED
      BY <3>1, HeadTailProperties
  <2>3. stream \in Seq(Update)
    BY DEF TypeOK
  <2>4. \A u \in Update : <<u>> \in Seq(Update) /\ Append(stream, u) = stream \o <<u>>
    BY <2>3
  <2>5. QED
    BY <2>1, <2>2, <2>4
<1>3. QED
  BY <1>1, <1>2 DEF Next, Queue, Handler, FlushBroken, Deliver, Begin, Submit, AllSent,
                    Receive, Return, vars, callVars

LEMMA ResultsStep ==
  ASSUME TypeOK, OwedOK, ResultsOK, [Next]_vars
  PROVE  ResultsOK'
<1>1. UNCHANGED request
  BY DEF Next, Queue, Handler, Flush, FlushBroken, RunLate, Deliver, Begin, Submit,
         AllSent, Receive, Return, vars, callVars
<1>2. stream' = stream \/ \E W \in Seq(Update) : stream' = stream \o W
  BY StreamStepGrows
<1>3. ASSUME NEW r, Held(r)' PROVE ResultOK(r)'
  <2>1. CASE Held(r)
    <3>1. r \in Results /\ ResultOK(r)
      BY <2>1, HeldType, HeldResults
    <3>2. QED
      BY <1>1, <1>2, <3>1, ResultStays
  <2>2. ASSUME NEW n \in 1 .. Len(batch), NEW refused \in Refusable,
               NEW trimFailed \in {FALSE, "xtrim" \in Fault},
               stream' = stream \o Written(refused),
               r = Result(n, refused, trimFailed)
        PROVE  ResultOK(r)'
    BY <1>1, <2>2, ResultTrue
  <2>3. ASSUME NEW n \in 1 .. Len(batch), r = LostResult(n) PROVE ResultOK(r)'
    <3>1. \A u : ValidUpdate(u)' = ValidUpdate(u)
      BY <1>1 DEF ValidUpdate, Updates, OneEach, IsGood, NotEmpty, Ids
    <3>2. /\ r.update = batch[n] /\ r.clean = FALSE
          /\ r.err = ~ ValidUpdate(batch[n])
      BY <2>3 DEF LostResult
    <3>3. QED
      BY <3>1, <3>2 DEF ResultOK
  <2>4. QED
    BY <1>3, <2>1, <2>2, <2>3, HeldStep
<1>4. QED
  BY <1>3, HeldResults

LEMMA IdsStep ==
  ASSUME TypeOK, OwedOK, IdsOK, [Next]_vars
  PROVE  IdsOK'
<1>1. Len(stream) \in Nat /\ Len(stream') \in Nat /\ Len(stream) <= Len(stream')
  <2>1. stream \in Seq(Update)
    BY DEF TypeOK
  <2>2. CASE stream' = stream
    BY <2>1, <2>2
  <2>3. CASE \E W \in Seq(Update) : stream' = stream \o W
    <3>1. PICK W \in Seq(Update) : stream' = stream \o W
      BY <2>3
    <3>2. QED
      BY <2>1, <3>1
  <2>4. QED
    BY <2>2, <2>3, StreamStepGrows
<1>2. \A r : Held(r) => r.id \in Nat /\ r.id <= Len(stream)
  BY <1>1 DEF IdsOK
<1>3. CASE Flush
  <2>1. PICK refused \in Refusable, trimFailed \in {FALSE, "xtrim" \in Fault} :
          /\ stream' = stream \o Written(refused)
          /\ pending' = [n \in DOMAIN batch |-> Result(n, refused, trimFailed)]
    BY <1>3 DEF Flush
  <2>2. UNCHANGED <<received, rChan>> /\ DOMAIN batch = 1 .. Len(batch) /\ Len(batch) \in Nat
    <3>1. batch \in Seq(Update)
      BY DEF TypeOK
    <3>2. UNCHANGED <<received, rChan>>
      BY <1>3 DEF Flush, callVars
    <3>3. QED
      BY <3>1, <3>2
  <2>3. Len(pending') = Len(batch)
    BY <2>1, <2>2
  <2>4. \A k \in 1 .. Len(batch) : pending'[k] = Result(k, refused, trimFailed)
    BY <2>1, <2>2
  <2>5. ASSUME NEW r, Held(r)', r.id # 0
        PROVE  \/ Held(r)
               \/ \E m \in 1 .. Len(Written(refused)) :
                    /\ r.id = Len(stream) + m
                    /\ r.update = batch[Nth(DOMAIN Commands \ refused, m)]
    <3>1. Held(r) \/ \E k \in 1 .. Len(batch) : r = Result(k, refused, trimFailed)
      BY <2>2, <2>3, <2>4, <2>5 DEF Held
    <3>2. ASSUME NEW k \in 1 .. Len(batch), r = Result(k, refused, trimFailed)
          PROVE  \E m \in 1 .. Len(Written(refused)) :
                   /\ r.id = Len(stream) + m
                   /\ r.update = batch[Nth(DOMAIN Commands \ refused, m)]
      <4>1. /\ r.update = batch[k]
            /\ k <= Len(Commands) /\ k \notin refused /\ r.id = Reply(k, refused)
        BY <2>5, <3>2 DEF Result
      <4>2. k \in 1 .. Len(Commands)
        <5>1. Len(Commands) \in Nat /\ Len(batch) \in Nat
          BY <2>2, CommandsType
        <5>2. QED
          BY <4>1, <5>1
      <4>3. PICK m \in 1 .. Len(Written(refused)) :
              Reply(k, refused) = Len(stream) + m /\ Nth(DOMAIN Commands \ refused, m) = k
        BY <4>1, <4>2, ReplyPlace
      <4>4. QED
        BY <4>1, <4>3
    <3>3. QED
      BY <3>1, <3>2, Zenon
  <2>6. Len(Written(refused)) \in Nat /\ Len(stream') = Len(stream) + Len(Written(refused))
    BY <2>1, WrittenType, StreamGrows
  <2>7. ASSUME NEW r, Held(r)' PROVE r.id \in 0 .. Len(stream')
    <3>1. CASE r.id = 0
      BY <1>1, <3>1
    <3>2. CASE Held(r)
      BY <1>1, <1>2, <3>2
    <3>3. CASE \E m \in 1 .. Len(Written(refused)) : r.id = Len(stream) + m
      BY <1>1, <2>6, <3>3
    <3>4. QED
      BY <2>5, <2>7, <3>1, <3>2, <3>3
  <2>8. ASSUME NEW r, NEW q, Held(r)', Held(q)', r.id = q.id, r.id # 0
        PROVE  r.update = q.update
    <3>1. CASE Held(r) /\ Held(q)
      BY <2>8, <3>1 DEF IdsOK
    <3>2. ASSUME NEW m \in 1 .. Len(Written(refused)), r.id = Len(stream) + m,
                 r.update = batch[Nth(DOMAIN Commands \ refused, m)]
          PROVE  r.update = q.update
      <4>0. q.id = Len(stream) + m /\ q.id # 0 /\ m \in Nat /\ m >= 1
        BY <2>6, <2>8, <3>2
      <4>1. ~ Held(q)
        <5>1. ~ (q.id <= Len(stream))
          BY <1>1, <4>0
        <5>2. QED
          BY <1>2, <5>1
      <4>2. PICK k \in 1 .. Len(Written(refused)) :
              /\ q.id = Len(stream) + k
              /\ q.update = batch[Nth(DOMAIN Commands \ refused, k)]
        BY <2>5, <2>8, <4>0, <4>1
      <4>3. k = m
        <5>1. k \in Nat /\ Len(stream) + k = Len(stream) + m
          BY <2>6, <4>0, <4>2
        <5>2. QED
          BY <1>1, <4>0, <5>1
      <4>4. QED
        BY <3>2, <4>2, <4>3
    <3>3. ASSUME NEW m \in 1 .. Len(Written(refused)), q.id = Len(stream) + m, Held(r)
          PROVE  FALSE
      BY <1>1, <1>2, <2>6, <2>8, <3>3
    <3>4. QED
      BY <2>5, <2>8, <3>1, <3>2, <3>3
  <2>9. QED
    BY <2>7, <2>8 DEF IdsOK, Held
<1>4. CASE ~ Flush
  <2>1. ASSUME NEW r, Held(r)' PROVE Held(r) \/ r.id = 0
    <3>1. \A n : LostResult(n).id = 0
      BY DEF LostResult
    <3>2. QED
      BY <1>4, <2>1, <3>1, HeldStep
  <2>2. ASSUME NEW r, Held(r)' PROVE r.id \in 0 .. Len(stream')
    BY <1>1, <1>2, <2>1, <2>2
  <2>3. ASSUME NEW r, NEW q, Held(r)', Held(q)', r.id = q.id, r.id # 0
        PROVE  r.update = q.update
    BY <2>1, <2>3 DEF IdsOK
  <2>4. QED
    BY <2>2, <2>3 DEF IdsOK, Held
<1>5. QED
  BY <1>3, <1>4

-----------------------------------------------------------------------------
\* The stream.

\* What is spent is an update.
LEMMA SpentType ==
  ASSUME TypeOK
  PROVE  /\ \A u : Spent(u) => u \in Update
         /\ \A u : u \in Adrift <=> \E t \in adrift : \E k \in 1 .. Len(t) : u = t[k]
         /\ stream \in Seq(Update) /\ DOMAIN stream = 1 .. Len(stream) /\ Len(stream) \in Nat
<1>1. stream \in Seq(Update) /\ \A t \in adrift : t \in Seq(Update)
  BY DEF TypeOK
<1>2. \A t \in adrift : DOMAIN t = 1 .. Len(t) /\ \A k \in 1 .. Len(t) : t[k] \in Update
  BY <1>1
<1>3. \A u : u \in Adrift <=> \E t \in adrift : \E k \in 1 .. Len(t) : u = t[k]
  BY <1>2 DEF Adrift
<1>4. \A m \in 1 .. Len(stream) : stream[m] \in Update
  BY <1>1
<1>5. \A u : Spent(u) => u \in Update
  BY <1>2, <1>3, <1>4 DEF Spent
<1>6. QED
  BY <1>1, <1>3, <1>5

\* Before a batch is written, what its calls have spent is answered.
LEMMA SpentBefore ==
  ASSUME TypeOK, OwedOK, StreamOK, pending = << >>, NEW u, Spent(u)
  PROVE  u.call \in Call /\ u.n \in Nat /\ u.n <= Done(u.call)
<1>1. u.call \in Call /\ u.n \in Nat /\ u = [call |-> u.call, n |-> u.n]
  <2>1. u \in Update
    BY SpentType
  <2>2. QED
    BY <2>1 DEF Update
<1>2. Owed = batch
  BY DEF Owed
<1>3. u.n <= sent[u.call] /\ \A k \in 1 .. Len(batch) : u # batch[k]
  BY DEF StreamOK
<1>4. ~ (u.n \in Done(u.call) + 1 .. sent[u.call])
  <2>1. (\E k \in 1 .. Len(Owed) : Owed[k] = [call |-> u.call, n |-> u.n])
          <=> u.n \in Done(u.call) + 1 .. sent[u.call]
    BY <1>1 DEF OwedOK
  <2>2. QED
    BY <1>1, <1>2, <1>3, <2>1
<1>5. Done(u.call) \in Nat /\ sent[u.call] \in Nat
  BY <1>1, CountsType
<1>6. QED
  BY <1>1, <1>3, <1>4, <1>5

\* An update is spent in the step that empties its batch.
LEMMA SpentStep ==
  ASSUME TypeOK, OwedOK, AdriftOK, [Next]_vars, NEW u, Spent(u)'
  PROVE  \/ Spent(u)
         \/ (Flush \/ FlushBroken) /\ \E k \in 1 .. Len(batch) : u = batch[k]
<1>1. CASE Flush
  <2>1. PICK W \in Seq(Update) :
          /\ stream' = stream \o W /\ Len(W) \in Nat
          /\ \A m \in 1 .. Len(W) : \E k \in 1 .. Len(batch) : W[m] = batch[k]
    BY <1>1, FlushGrows
  <2>2. Adrift' = Adrift
    BY <1>1 DEF Flush, Adrift
  <2>3. CASE u \in Adrift'
    BY <2>2, <2>3 DEF Spent
  <2>4. ASSUME NEW m \in 1 .. Len(stream'), u = stream'[m]
        PROVE  Spent(u) \/ \E k \in 1 .. Len(batch) : u = batch[k]
    <3>1. \/ m \in 1 .. Len(stream) /\ stream'[m] = stream[m]
          \/ \E k \in 1 .. Len(W) : m = Len(stream) + k /\ stream'[m] = W[k]
      BY <2>1, StreamGrows
    <3>2. QED
      BY <2>1, <2>4, <3>1 DEF Spent
  <2>5. QED
    BY <1>1, <2>3, <2>4 DEF Spent
<1>2. CASE FlushBroken
  <2>1. PICK W \in Seq(Update) :
          /\ adrift' = adrift \cup ({W} \ {<< >>})
          /\ \A m \in 1 .. Len(W) : \E k \in 1 .. Len(batch) : W[m] = batch[k]
    BY <1>2, BrokenGoesAdrift
  <2>2. UNCHANGED stream
    BY <1>2 DEF FlushBroken
  <2>3. ASSUME u \in Adrift' PROVE u \in Adrift \/ \E k \in 1 .. Len(batch) : u = batch[k]
    <3>1. TypeOK'
      BY TypeStep
    <3>2. PICK t \in adrift' : \E k \in 1 .. Len(t) : u = t[k]
      <4>1. \A t \in adrift' : DOMAIN t = 1 .. Len(t)
        BY <3>1 DEF TypeOK
      <4>2. QED
        BY <2>3, <4>1 DEF Adrift
    <3>3. CASE t \in adrift
      BY <3>2, <3>3, SpentType
    <3>4. CASE t = W
      BY <2>1, <3>2, <3>4
    <3>5. QED
      BY <2>1, <3>3, <3>4
  <2>4. QED
    BY <1>2, <2>2, <2>3 DEF Spent
<1>3. CASE RunLate
  <2>1. PICK s \in adrift :
          /\ stream' = Append(stream, Head(s))
          /\ adrift' = (adrift \ {s}) \cup ({Tail(s)} \ {<< >>})
    BY <1>3 DEF RunLate
  <2>2. PICK h \in Update : h = Head(s) /\ h \in Adrift /\ Adrift' = Adrift \ {h}
    BY <2>1, LateMoves
  <2>3. stream \in Seq(Update) /\ stream' = Append(stream, h)
    BY <2>1, <2>2, SpentType
  <2>4. ASSUME NEW m \in 1 .. Len(stream')
        PROVE  (m \in 1 .. Len(stream) /\ stream'[m] = stream[m]) \/ stream'[m] = h
    BY <2>3
  <2>5. QED
    BY <2>2, <2>4 DEF Spent
<1>4. CASE UNCHANGED <<stream, adrift>>
  BY <1>4 DEF Spent, Adrift
<1>5. QED
  BY <1>1, <1>2, <1>3, <1>4
     DEF Next, Queue, Handler, Deliver, Begin, Submit, AllSent, Receive, Return, vars, callVars

LEMMA AdriftStep ==
  ASSUME TypeOK, OwedOK, StreamOK, [Next]_vars
  PROVE  AdriftOK'
<1>0. /\ AdriftOK
      /\ \A u : Spent(u) => \A k \in 1 .. Len(batch) : u # batch[k]
  BY DEF StreamOK
<1>1. CASE Flush
  <2>1. PICK W \in Seq(Update) :
          /\ stream' = stream \o W /\ Len(W) \in Nat
          /\ \A m \in 1 .. Len(W) : \E k \in 1 .. Len(batch) : W[m] = batch[k]
    BY <1>1, FlushGrows
  <2>2. adrift' = adrift /\ Adrift' = Adrift
    BY <1>1 DEF Flush, Adrift
  <2>3. ASSUME NEW m \in 1 .. Len(stream') PROVE stream'[m] \notin Adrift
    <3>1. CASE m \in 1 .. Len(stream) /\ stream'[m] = stream[m]
      BY <1>0, <3>1 DEF AdriftOK
    <3>2. CASE \E k \in 1 .. Len(W) : m = Len(stream) + k /\ stream'[m] = W[k]
      BY <1>0, <2>1, <3>2 DEF Spent
    <3>3. QED
      BY <2>1, <3>1, <3>2, StreamGrows
  <2>4. QED
    BY <1>0, <2>2, <2>3 DEF AdriftOK
<1>2. CASE FlushBroken
  <2>1. PICK W \in Seq(Update) :
          /\ adrift' = adrift \cup ({W} \ {<< >>}) /\ Len(W) \in Nat
          /\ \A m \in 1 .. Len(W) : \E k \in 1 .. Len(batch) : W[m] = batch[k]
          /\ \A m, n \in 1 .. Len(W) : m # n => W[m] # W[n]
    BY <1>2, BrokenGoesAdrift
  <2>2. UNCHANGED stream
    BY <1>2 DEF FlushBroken
  <2>3. \A t \in adrift' : t \in adrift \/ t = W
    BY <2>1
  <2>4. ASSUME NEW k \in 1 .. Len(W)
        PROVE  /\ \A m \in 1 .. Len(stream) : stream[m] # W[k]
               /\ \A t \in adrift : \A j \in 1 .. Len(t) : t[j] # W[k]
    <3>1. ~ Spent(W[k])
      BY <1>0, <2>1
    <3>2. QED
      BY <3>1, SpentType DEF Spent
  <2>5. ASSUME NEW t \in adrift', NEW v \in adrift',
               NEW j \in 1 .. Len(t), NEW k \in 1 .. Len(v), t[j] = v[k]
        PROVE  t = v /\ j = k
    <3>1. CASE t \in adrift /\ v \in adrift
      BY <1>0, <2>5, <3>1 DEF AdriftOK
    <3>2. CASE t \in adrift /\ v = W
      BY <2>4, <2>5, <3>2
    <3>3. CASE t = W /\ v \in adrift
      BY <2>4, <2>5, <3>3
    <3>4. CASE t = W /\ v = W
      BY <2>1, <2>5, <3>4
    <3>5. QED
      BY <2>3, <3>1, <3>2, <3>3, <3>4
  <2>6. ASSUME NEW m \in 1 .. Len(stream') PROVE stream'[m] \notin Adrift'
    <3>1. TypeOK'
      BY TypeStep
    <3>2. \A t \in adrift' : DOMAIN t = 1 .. Len(t)
      BY <3>1 DEF TypeOK
    <3>3. ASSUME stream'[m] \in Adrift' PROVE FALSE
      <4>1. PICK t \in adrift' : \E k \in 1 .. Len(t) : stream[m] = t[k]
        BY <2>2, <3>2, <3>3 DEF Adrift
      <4>2. m \in 1 .. Len(stream)
        BY <2>2
      <4>3. CASE t \in adrift
        BY <1>0, <4>1, <4>2, <4>3, SpentType DEF AdriftOK
      <4>4. CASE t = W
        BY <2>4, <4>1, <4>2, <4>4
      <4>5. QED
        BY <2>3, <4>3, <4>4
    <3>4. QED
      BY <3>3
  <2>7. QED
    BY <2>5, <2>6 DEF AdriftOK
<1>3. CASE RunLate
  <2>1. PICK s \in adrift :
          /\ stream' = Append(stream, Head(s))
          /\ adrift' = (adrift \ {s}) \cup ({Tail(s)} \ {<< >>})
    BY <1>3 DEF RunLate
  <2>2. QED
    BY <1>0, <2>1, LateMoves
<1>4. CASE UNCHANGED <<stream, adrift>>
  BY <1>0, <1>4 DEF AdriftOK, Adrift
<1>5. QED
  BY <1>1, <1>2, <1>3, <1>4
     DEF Next, Queue, Handler, Deliver, Begin, Submit, AllSent, Receive, Return, vars, callVars

\* The updates sent, and those in the batch after a step.
LEMMA BatchStep ==
  ASSUME [Next]_vars
  PROVE  \/ \E c \in Call : /\ batch' = Append(batch, [call |-> c, n |-> sent[c] + 1])
                            /\ sent' = [sent EXCEPT ![c] = sent[c] + 1]
         \/ UNCHANGED sent /\ (batch' = batch \/ batch' = << >>)
<1>1. ASSUME NEW c \in Call, Submit(c)
      PROVE  /\ batch' = Append(batch, [call |-> c, n |-> sent[c] + 1])
             /\ sent' = [sent EXCEPT ![c] = sent[c] + 1]
  BY <1>1 DEF Submit
<1>2. CASE \/ Flush \/ FlushBroken \/ Deliver \/ RunLate \/ UNCHANGED vars
           \/ \E c \in Call : Begin(c) \/ AllSent(c) \/ Receive(c) \/ Return(c)
  BY <1>2 DEF Flush, FlushBroken, Deliver, RunLate, Begin, AllSent, Receive, Return, vars,
              callVars
<1>3. QED
  BY <1>1, <1>2, Zenon DEF Next, Queue, Handler

LEMMA StreamStep ==
  ASSUME TypeOK, OwedOK, StreamOK, [Next]_vars
  PROVE  StreamOK'
<1>0. AdriftOK /\ AdriftOK'
  BY AdriftStep DEF StreamOK
<1>1. /\ batch \in Seq(Update) /\ Len(batch) \in Nat
      /\ sent \in [Call -> Nat]
  BY DEF TypeOK
<1>2. ASSUME NEW u, Spent(u)'
      PROVE  u.n <= sent'[u.call] /\ \A k \in 1 .. Len(batch') : u # batch'[k]
  <2>1. CASE Spent(u)
    <3>1. u.call \in Call /\ u.n \in Nat
      BY <2>1, SpentType DEF Update
    <3>2. u.n <= sent[u.call] /\ \A k \in 1 .. Len(batch) : u # batch[k]
      BY <2>1 DEF StreamOK
    <3>3. ASSUME NEW c \in Call,
                 batch' = Append(batch, [call |-> c, n |-> sent[c] + 1]),
                 sent' = [sent EXCEPT ![c] = sent[c] + 1]
          PROVE  u.n <= sent'[u.call] /\ \A k \in 1 .. Len(batch') : u # batch'[k]
      <4>1. sent[c] \in Nat /\ sent[u.call] \in Nat
        BY <1>1, <3>1
      <4>2. u.n <= sent'[u.call]
        BY <1>1, <3>1, <3>2, <3>3, <4>1
      <4>3. PICK v : v = [call |-> c, n |-> sent[c] + 1]
        OBVIOUS
      <4>4. u # v
        <5>1. CASE u.call = c
          <6>1. u.n # sent[c] + 1
            BY <3>1, <3>2, <4>1, <5>1
          <6>2. QED
            BY <4>3, <6>1
        <5>2. QED
          BY <4>3, <5>1
      <4>5. ASSUME NEW k \in 1 .. Len(batch')
            PROVE  batch'[k] = v \/ (k \in 1 .. Len(batch) /\ batch'[k] = batch[k])
        BY <1>1, <3>3, <4>3
      <4>6. QED
        BY <3>2, <4>2, <4>4, <4>5
    <3>4. CASE UNCHANGED <<sent, batch>>
      BY <3>2, <3>4
    <3>5. CASE UNCHANGED sent /\ batch' = << >>
      BY <3>2, <3>5
    <3>6. QED
      BY <1>2, <3>3, <3>4, <3>5, BatchStep
  <2>2. ASSUME Flush \/ FlushBroken, NEW k \in 1 .. Len(batch), u = batch[k]
        PROVE  u.n <= sent'[u.call] /\ \A j \in 1 .. Len(batch') : u # batch'[j]
    <3>1. UNCHANGED sent /\ batch' = << >> /\ pending = << >>
      BY <2>2 DEF Flush, FlushBroken, callVars
    <3>2. QED
      BY <2>2, <3>1, BatchOnce
  <2>3. QED
    BY <1>0, <1>2, <2>1, <2>2, SpentStep
<1>3. ASSUME NEW m \in 1 .. Len(stream'), NEW n \in 1 .. Len(stream'), m # n
      PROVE  stream'[m] # stream'[n]
  <2>1. CASE Flush
    <3>1. PICK W \in Seq(Update) :
            /\ stream' = stream \o W
            /\ \A i \in 1 .. Len(W) : \E k \in 1 .. Len(batch) : W[i] = batch[k]
            /\ \A i, j \in 1 .. Len(W) : i # j => W[i] # W[j]
      BY <2>1, FlushGrows
    <3>2. ASSUME NEW k \in 1 .. Len(W), NEW i \in 1 .. Len(stream) PROVE W[k] # stream[i]
      BY <3>1 DEF StreamOK, Spent
    <3>3. \A i \in 1 .. Len(stream') :
            \/ i \in 1 .. Len(stream) /\ stream'[i] = stream[i]
            \/ \E k \in 1 .. Len(W) : i = Len(stream) + k /\ stream'[i] = W[k]
      BY <3>1, StreamGrows
    <3>4. CASE m \in 1 .. Len(stream) /\ stream'[m] = stream[m]
      BY <1>3, <3>2, <3>3, <3>4 DEF StreamOK
    <3>5. CASE \E k \in 1 .. Len(W) : m = Len(stream) + k /\ stream'[m] = W[k]
      <4>1. PICK k \in 1 .. Len(W) : m = Len(stream) + k /\ stream'[m] = W[k]
        BY <3>5
      <4>2. CASE n \in 1 .. Len(stream) /\ stream'[n] = stream[n]
        BY <3>2, <4>1, <4>2
      <4>3. CASE \E l \in 1 .. Len(W) : n = Len(stream) + l /\ stream'[n] = W[l]
        BY <1>3, <3>1, <4>1, <4>3
      <4>4. QED
        BY <3>3, <4>2, <4>3
    <3>6. QED
      BY <3>3, <3>4, <3>5
  <2>2. CASE RunLate
    <3>1. PICK s \in adrift :
            /\ stream' = Append(stream, Head(s))
            /\ adrift' = (adrift \ {s}) \cup ({Tail(s)} \ {<< >>})
      BY <2>2 DEF RunLate
    <3>2. PICK h \in Update : h = Head(s) /\ h \in Adrift
      BY <1>0, <3>1, LateMoves
    <3>3. stream \in Seq(Update) /\ stream' = Append(stream, h)
      BY <3>1, <3>2, SpentType
    <3>4. \A i \in 1 .. Len(stream') :
            \/ i \in 1 .. Len(stream) /\ stream'[i] = stream[i]
            \/ i = Len(stream) + 1 /\ stream'[i] = h
      BY <3>3
    <3>5. \A i \in 1 .. Len(stream) : stream[i] # h
      BY <1>0, <3>2 DEF AdriftOK
    <3>6. QED
      BY <1>3, <3>4, <3>5 DEF StreamOK
  <2>3. CASE UNCHANGED stream
    BY <1>3, <2>3 DEF StreamOK
  <2>4. QED
    BY <2>1, <2>2, <2>3
       DEF Next, Queue, Handler, FlushBroken, Deliver, Begin, Submit, AllSent, Receive, Return,
           vars, callVars
<1>4. QED
  BY <1>0, <1>2, <1>3 DEF StreamOK, Spent, Adrift

-----------------------------------------------------------------------------
\* The invariant.

LEMMA IInvInit == Init => IInv
<1> SUFFICES ASSUME Init PROVE IInv
  OBVIOUS
<1>1. TypeOK
  BY TypeInit
<1>2. \A c \in Call : /\ request[c].rpc \in Rpc /\ sent[c] = 0
                      /\ received[c] = << >> /\ rChan[c] = << >>
                      /\ phase[c] = "start" /\ closed[c] = FALSE /\ outcome[c] = "none"
  <2>1. \A c \in Call : request[c].rpc \in Rpc
    BY <1>1, RequestType
  <2>2. QED
    BY <2>1 DEF Init
<1>3. batch = << >> /\ pending = << >> /\ stream = << >>
  BY DEF Init
<1>4. \A c \in Call : Len(received[c]) = 0 /\ Len(rChan[c]) = 0
  BY <1>2
<1>5. OwedOK
  <2>1. \A c \in Call : Done(c) = 0
    <3>1. 0 + 0 = 0
      OBVIOUS
    <3>2. QED
      BY <1>4, <3>1, Zenon DEF Done
  <2>2. Owed = << >>
    BY <1>3 DEF Owed
  <2>3. \A c \in Call, n \in Nat : ~ (n \in Done(c) + 1 .. sent[c]) /\ Done(c) <= sent[c]
    BY <1>2, <2>1
  <2>4. QED
    BY <1>3, <2>2, <2>3 DEF OwedOK
<1>6. \A c \in Call : PlacedOK(c)
  BY <1>4 DEF PlacedOK
<1>7. \A c \in Call : PhaseOK(c)
  BY <1>2 DEF PhaseOK
<1>8. ResultsOK
  BY <1>3, <1>4 DEF ResultsOK
<1>9. StreamOK
  <2>1. adrift = {} /\ Adrift = {}
    BY DEF Init, Adrift
  <2>2. QED
    BY <1>3, <2>1 DEF StreamOK, AdriftOK, Spent
<1>10. IdsOK
  BY <1>3, <1>4 DEF IdsOK, Held
<1>11. QED
  BY <1>1, <1>5, <1>6, <1>7, <1>8, <1>9, <1>10 DEF IInv

LEMMA IInvStep == IInv /\ [Next]_vars => IInv'
<1> SUFFICES ASSUME IInv, [Next]_vars PROVE IInv'
  OBVIOUS
<1>1. /\ TypeOK /\ OwedOK /\ ResultsOK /\ IdsOK /\ StreamOK
      /\ \A c \in Call : PlacedOK(c) /\ PhaseOK(c)
  BY DEF IInv
<1>2. TypeOK'
  BY <1>1, TypeStep
<1>3. OwedOK'
  BY <1>1, OwedStep
<1>4. \A c \in Call : PlacedOK(c)'
  BY <1>1, PlacedStep
<1>5. \A c \in Call : PhaseOK(c)'
  BY <1>1, PhaseStep
<1>6. ResultsOK'
  BY <1>1, ResultsStep
<1>7. StreamOK'
  BY <1>1, StreamStep
<1>8. IdsOK'
  BY <1>1, IdsStep
<1>9. QED
  BY <1>2, <1>3, <1>4, <1>5, <1>6, <1>7, <1>8 DEF IInv

LEMMA SpecIInv == Spec => []IInv
<1>1. QED
  BY IInvInit, IInvStep, PTL DEF Spec

-----------------------------------------------------------------------------
\* Every variable has its type; a batch stays within the threshold, and a channel
\* within its room.
THEOREM OutgoingTypeCorrect == Spec => []TypeOK
<1>1. IInv => TypeOK
  BY DEF IInv
<1>2. QED
  BY <1>1, SpecIInv, PTL

\* A results channel has room for every result, or there is only one.
LEMMA RoomForAll ==
  ASSUME TypeOK, NEW c \in Call
  PROVE  \/ Len(Updates(c)) <= RoomFor(c)
         \/ Len(Updates(c)) = 1 /\ RoomFor(c) = 0
<1>1. /\ request[c].rpc \in Rpc /\ Ids(c) \in Seq(IdForm) /\ Len(Ids(c)) \in Nat
      /\ Cardinality(NotEmpty(c)) \in Nat /\ Len(Updates(c)) \in Nat
  BY RequestType
<1>2. CASE request[c].rpc = "CreateTicket"
  BY <1>2 DEF Updates, RoomFor
<1>3. CASE request[c].rpc \in {"SetState", "MatchDeactivation"}
  <2>1. RoomFor(c) = Len(Updates(c))
    BY <1>3 DEF RoomFor
  <2>2. QED
    BY <1>1, <2>1
<1>4. CASE request[c].rpc \in {"CreateAssignments", "EmptyAssignment"}
  <2>1. RoomFor(c) = Len(Ids(c)) /\ Len(Updates(c)) = Cardinality(NotEmpty(c))
    BY <1>1, <1>4 DEF RoomFor, Updates, OneEach
  <2>2. Cardinality(NotEmpty(c)) <= Len(Ids(c))
    <3> DEFINE L == Len(Ids(c))
    <3>1. NotEmpty(c) \in SUBSET (1 .. L)
      BY <1>1 DEF NotEmpty
    <3>2. L \in Nat
      BY <1>1
    <3> HIDE DEF L
    <3>3. IsFiniteSet(1 .. L) /\ Cardinality(1 .. L) = L
      <4>1. 1 \in Int /\ L \in Int /\ (IF 1 > L THEN 0 ELSE L - 1 + 1) = L
        BY <3>2
      <4>2. QED
        BY <4>1, FS_Interval
    <3>4. Cardinality(NotEmpty(c)) <= L
      BY <3>1, <3>3, FS_Subset
    <3>5. QED
      BY <3>4 DEF L
  <2>3. QED
    BY <2>1, <2>2
<1>5. QED
  BY <1>1, <1>2, <1>3, <1>4 DEF Rpc

\* The goroutine that delivers results and the handlers that await them never wait
\* for each other: the next result is owed to a handler that has sent more updates
\* than it has results, and what a handler lacks is owed to it.
THEOREM NobodyWaitsForever == Spec => []NobodyWaitsInVain
<1>1. ASSUME IInv PROVE NobodyWaitsInVain
  <2>1. TypeOK /\ OwedOK /\ \A c \in Call : PhaseOK(c)
    BY <1>1 DEF IInv
  <2>2. ASSUME pending # << >>, NEW c, c = Head(pending).update.call
        PROVE  \/ Len(rChan[c]) < RoomFor(c)
               \/ /\ RoomFor(c) = 0
                  /\ phase[c] \in {"submit", "await"} /\ sent[c] = Len(Updates(c))
    <3>1. c \in Call /\ Done(c) < sent[c]
      BY <2>1, <2>2, HeadIsNext
    <3>2. /\ sent[c] \in Nat /\ Len(received[c]) \in Nat /\ Len(rChan[c]) \in Nat
          /\ Done(c) \in Nat /\ Len(Updates(c)) \in Nat /\ RoomFor(c) \in Nat
          /\ sent[c] <= Len(Updates(c))
      BY <2>1, <3>1, CountsType, RequestType DEF TypeOK
    <3>3. Len(received[c]) <= Done(c) /\ Len(rChan[c]) <= Done(c)
      <4>1. \A a, b \in Nat : a <= a + b /\ b <= a + b
        OBVIOUS
      <4>2. QED
        BY <3>2, <4>1, Zenon DEF Done
    <3>4. CASE Len(Updates(c)) <= RoomFor(c)
      BY <3>1, <3>2, <3>3, <3>4
    <3>5. CASE Len(Updates(c)) = 1 /\ RoomFor(c) = 0
      <4>1. sent[c] = Len(Updates(c)) /\ sent[c] # 0 /\ Len(received[c]) # sent[c]
        BY <3>1, <3>2, <3>3, <3>5
      <4>2. phase[c] \in {"start", "submit", "await", "returned"}
        BY <2>1, <3>1 DEF TypeOK
      <4>3. QED
        BY <2>1, <3>1, <3>5, <4>1, <4>2 DEF PhaseOK
    <3>6. QED
      BY <2>1, <3>1, <3>4, <3>5, RoomForAll
  <2>3. ASSUME NEW c \in Call, phase[c] = "await", ~ HasAllResults(c), rChan[c] = << >>
        PROVE  \/ \E n \in DOMAIN batch : batch[n].call = c
               \/ \E n \in DOMAIN pending : pending[n].update.call = c
    <3>1. /\ sent[c] \in Nat /\ Done(c) \in Nat /\ Done(c) <= sent[c]
          /\ Len(received[c]) \in Nat
      BY <2>1, CountsType DEF OwedOK
    <3>2. Done(c) = Len(received[c])
      BY <2>3, <3>1 DEF Done
    <3>3. Done(c) + 1 \in Nat /\ Done(c) + 1 \in Done(c) + 1 .. sent[c]
      BY <2>3, <3>1, <3>2 DEF HasAllResults
    <3>4. PICK k \in 1 .. Len(Owed) : Owed[k] = [call |-> c, n |-> Done(c) + 1]
      BY <2>1, <3>3 DEF OwedOK
    <3>5. Owed[k].call = c
      BY <3>4
    <3>6. CASE pending = << >>
      <4>1. Owed = batch /\ batch \in Seq(Update)
        BY <2>1, <3>6 DEF Owed, TypeOK
      <4>2. QED
        BY <3>5, <4>1
    <3>7. CASE pending # << >>
      <4>1. pending \in Seq(Results) /\ Owed = [j \in 1 .. Len(pending) |-> pending[j].update]
        BY <2>1, <3>7 DEF Owed, TypeOK
      <4>2. Len(pending) \in Nat /\ DOMAIN pending = 1 .. Len(pending)
        BY <4>1
      <4>3. k \in DOMAIN pending /\ Owed[k] = pending[k].update
        BY <4>1, <4>2
      <4>4. QED
        BY <3>5, <4>3
    <3>8. QED
      BY <3>6, <3>7
  <2>4. QED
    BY <2>2, <2>3 DEF NobodyWaitsInVain
<1>2. QED
  BY <1>1, SpecIInv, PTL

\* No result is ever owed to a closed channel, on which the collecting goroutine's
\* send would panic: a handler closes its channel when it has all its results.
THEOREM NothingOwedToClosed == Spec => []NoSendOnClosed
<1>1. ASSUME IInv PROVE NoSendOnClosed
  <2>1. TypeOK /\ OwedOK /\ \A c \in Call : PhaseOK(c)
    BY <1>1 DEF IInv
  <2>2. ASSUME NEW k \in 1 .. Len(Owed) PROVE Owed[k].call \in Call /\ ~ closed[Owed[k].call]
    <3>1. /\ Owed[k].call \in Call /\ Owed[k].n \in Nat
          /\ Owed[k] = [call |-> Owed[k].call, n |-> Owed[k].n]
      BY <2>1, OwedType
    <3> DEFINE c == Owed[k].call
    <3>2. Owed[k].n \in Done(c) + 1 .. sent[c]
      BY <2>1, <3>1 DEF OwedOK
    <3>3. c \in Call /\ Done(c) \in Nat /\ sent[c] \in Nat
      BY <2>1, <3>1, CountsType
    <3> HIDE DEF c
    <3>4. Done(c) < sent[c]
      BY <3>1, <3>2, <3>3
    <3>5. Len(received[c]) \in Nat /\ Len(rChan[c]) \in Nat
      BY <2>1, <3>3, CountsType
    <3>6. \A a, b \in Nat : a <= a + b
      OBVIOUS
    <3>7. Len(received[c]) <= Done(c)
      BY <3>5, <3>6 DEF Done
    <3>8. ~ (Len(received[c]) = sent[c])
      BY <3>3, <3>4, <3>5, <3>7
    <3>9. ~ closed[c]
      BY <2>1, <3>3, <3>8 DEF PhaseOK
    <3>10. QED
      BY <3>3, <3>9 DEF c
  <2>3. batch \in Seq(Update) /\ pending \in Seq(Results)
    BY <2>1 DEF TypeOK
  <2>4. CASE pending = << >>
    <3>1. Owed = batch
      BY <2>4 DEF Owed
    <3>2. QED
      BY <2>2, <2>3, <2>4, <3>1 DEF NoSendOnClosed
  <2>5. CASE pending # << >>
    <3>1. Owed = [k \in 1 .. Len(pending) |-> pending[k].update]
      BY <2>5 DEF Owed
    <3>2. Len(pending) \in Nat /\ Len(Owed) = Len(pending)
      BY <2>3, <3>1
    <3>3. \A k \in 1 .. Len(pending) : Owed[k] = pending[k].update
      BY <3>1
    <3>4. batch = << >>
      BY <2>1, <2>5 DEF OwedOK
    <3>5. QED
      BY <2>2, <2>3, <3>2, <3>3, <3>4 DEF NoSendOnClosed
  <2>6. QED
    BY <2>4, <2>5
<1>2. QED
  BY <1>1, SpecIInv, PTL

\* A handler's results come back in the order of its updates: it may name the
\* ticket of an error by the position of the result.
THEOREM ResultsAreInOrder == Spec => []ResultsInOrder
<1>1. ASSUME IInv PROVE ResultsInOrder
  <2>1. \A c \in Call : PlacedOK(c) /\ received[c] \in Seq(Results)
    BY <1>1, CountsType DEF IInv
  <2>2. ASSUME NEW c \in Call, NEW n \in DOMAIN received[c]
        PROVE  received[c][n].update = [call |-> c, n |-> n]
    <3>1. n \in 1 .. Len(received[c])
      BY <2>1
    <3>2. QED
      BY <2>1, <3>1 DEF PlacedOK
  <2>3. QED
    BY <2>2 DEF ResultsInOrder
<1>2. QED
  BY <1>1, SpecIInv, PTL

\* No update is written to Redis twice, whatever fails.
THEOREM NothingWrittenTwice == Spec => []WrittenAtMostOnce
<1>1. ASSUME IInv PROVE WrittenAtMostOnce
  <2>1. StreamOK /\ stream \in Seq(Update)
    BY <1>1 DEF IInv, TypeOK
  <2>2. QED
    BY <2>1 DEF StreamOK, WrittenAtMostOnce
<1>2. QED
  BY <1>1, SpecIInv, PTL

\* In a batch without invalid updates a result without error carries the id of its
\* own update, and an invalid update is never reported as written.  In any batch, an
\* id that is reported is that of an entry, and is reported for one update only.
THEOREM CleanResultsAreTrue == Spec => []CleanResultsTrue
<1>1. ASSUME IInv PROVE CleanResultsTrue
  <2>1. /\ ResultsOK /\ IdsOK
        /\ stream \in Seq(Update) /\ \A c \in Call : received[c] \in Seq(Results)
    BY <1>1, CountsType DEF IInv, TypeOK
  <2>2. \A c \in Call : \A r \in Delivered(c) : Held(r)
    BY <2>1 DEF Delivered, Held
  <2>3. \A c \in Call : \A r \in Delivered(c) : ResultOK(r)
    BY <2>1, <2>2, HeldResults
  <2>4. \A c \in Call : \A r \in Delivered(c) : r.id # 0 => r.id \in DOMAIN stream
    BY <2>1, <2>2 DEF IdsOK
  <2>5. \A c, d \in Call : \A r \in Delivered(c), q \in Delivered(d) :
          r.id = q.id /\ r.id # 0 => r.update = q.update
    BY <2>1, <2>2 DEF IdsOK
  <2>6. QED
    BY <2>1, <2>3, <2>4, <2>5 DEF ResultOK, CleanResultsTrue
<1>2. QED
  BY <1>1, SpecIInv, PTL

\* A client that is told ok got a result without error for every update of its
\* request, and only a failed write kills a handler, never a request's invalid ids.
THEOREM FailuresAreReported == Spec => []FailuresReported
<1>1. ASSUME IInv PROVE FailuresReported
  <2>1. TypeOK /\ ResultsOK /\ \A c \in Call : PhaseOK(c) /\ PlacedOK(c)
    BY <1>1 DEF IInv
  <2>2. ASSUME NEW c \in Call
        PROVE  /\ outcome[c] = "ok" /\ request[c].rpc \in {"CreateTicket", "SetState"} =>
                    /\ Len(received[c]) = Len(Updates(c))
                    /\ \A r \in Delivered(c) : ~ r.err
               /\ outcome[c] = "panic" =>
                    /\ request[c].rpc = "SetState" /\ IsGood(c) = DOMAIN Ids(c)
                    /\ Fault \cap {"xadd", "xtrim"} # {}
    <3>1. request[c].rpc \in Rpc /\ received[c] \in Seq(Results)
      BY <2>1, RequestType, CountsType
    <3>2. outcome[c] \in {"ok", "panic"} =>
            Len(received[c]) = Len(Updates(c)) /\ outcome[c] = Response(c)
      BY <2>1 DEF PhaseOK
    <3>3. CASE outcome[c] = "ok" /\ request[c].rpc \in {"CreateTicket", "SetState"}
      <4>1. Response(c) = "ok"
        BY <3>2, <3>3
      <4>2. ~ \E n \in DOMAIN received[c] : received[c][n].err
        BY <3>3, <4>1 DEF Response
      <4>3. QED
        BY <3>2, <3>3, <4>2 DEF Delivered
    <3>4. CASE outcome[c] = "panic"
      <4>1. Response(c) = "panic"
        BY <3>2, <3>4
      <4>2. /\ request[c].rpc = "SetState" /\ IsGood(c) = DOMAIN Ids(c)
            /\ \E n \in DOMAIN received[c] : received[c][n].err
        BY <3>1, <4>1 DEF Response, Rpc
      <4>3. PICK n \in 1 .. Len(received[c]) : received[c][n].err
        BY <3>1, <4>2
      <4>4. received[c][n].update = [call |-> c, n |-> n] /\ ResultOK(received[c][n])
        BY <2>1 DEF PlacedOK, ResultsOK
      <4>5. Updates(c) = OneEach(IsGood(c), "valid") /\ Cardinality(IsGood(c)) \in Nat
        BY <2>1, <4>2, RequestType DEF Updates
      <4>6. n \in 1 .. Cardinality(IsGood(c))
        BY <3>2, <3>4, <4>5 DEF OneEach
      <4>7. ValidUpdate(received[c][n].update)
        BY <4>4, <4>5, <4>6 DEF ValidUpdate, OneEach
      <4>8. QED
        BY <3>4, <4>2, <4>3, <4>4, <4>7 DEF ResultOK
    <3>5. QED
      BY <3>3, <3>4
  <2>3. QED
    BY <2>2 DEF FailuresReported
<1>2. QED
  BY <1>1, SpecIInv, PTL

-----------------------------------------------------------------------------
\* The stream implements UpdateStore.

\* What an update in the batch is, and the order of those of a call.
LEMMA BatchInOrder ==
  ASSUME TypeOK, OwedOK, pending = << >>
  PROVE  /\ \A k \in 1 .. Len(batch) :
              /\ batch[k].call \in Call
              /\ batch[k].n \in Done(batch[k].call) + 1 .. sent[batch[k].call]
         /\ \A j, k \in 1 .. Len(batch) :
              j < k /\ batch[j].call = batch[k].call => batch[j].n < batch[k].n
<1>1. Owed = batch
  BY DEF Owed
<1>2. \A k \in 1 .. Len(batch) :
        /\ batch[k].call \in Call /\ batch[k].n \in Nat
        /\ batch[k] = [call |-> batch[k].call, n |-> batch[k].n]
  BY <1>1, OwedType
<1>3. QED
  BY <1>1, <1>2 DEF OwedOK

\* Flush writes updates that await their results, are not adrift, and come after
\* those of their calls that are in the stream.
LEMMA WriteStep ==
  ASSUME TypeOK, OwedOK, StreamOK, Flush, ~ UNCHANGED stream
  PROVE  /\ Len(stream) < Len(stream')
         /\ \A k \in DOMAIN stream : stream'[k] = stream[k]
         /\ \A k \in Len(stream) + 1 .. Len(stream') :
              /\ stream'[k].call \in Call
              /\ stream'[k].n \in Done(stream'[k].call) + 1 .. sent[stream'[k].call]
              /\ stream'[k] \notin Adrift
              /\ \A j \in 1 .. k - 1 :
                   stream'[j].call = stream'[k].call => stream'[j].n < stream'[k].n
<1>1. PICK W \in Seq(Update) :
        /\ stream' = stream \o W /\ Len(W) \in Nat
        /\ \A m \in 1 .. Len(W) : \E k \in 1 .. Len(batch) : W[m] = batch[k]
        /\ \A m, n \in 1 .. Len(W) : m < n =>
             \E j, k \in 1 .. Len(batch) : j < k /\ W[m] = batch[j] /\ W[n] = batch[k]
  BY FlushGrows
<1>2. pending = << >>
  BY DEF Flush
<1>3. stream \in Seq(Update) /\ DOMAIN stream = 1 .. Len(stream) /\ Len(stream) \in Nat
  BY SpentType
<1>4. /\ Len(stream') = Len(stream) + Len(W)
      /\ \A k \in 1 .. Len(stream) : stream'[k] = stream[k]
      /\ \A m \in 1 .. Len(stream') :
           \/ m \in 1 .. Len(stream) /\ stream'[m] = stream[m]
           \/ \E k \in 1 .. Len(W) : m = Len(stream) + k /\ stream'[m] = W[k]
  BY <1>1, StreamGrows
<1>5. /\ Len(stream) \in Nat /\ Len(W) \in Nat /\ Len(stream') \in Nat
      /\ Len(stream') = Len(stream) + Len(W)
  <2>1. Len(W) \in Nat
    BY <1>1, Zenon
  <2>2. Len(stream) \in Nat /\ Len(stream') = Len(stream) + Len(W)
    BY <1>3, <1>4, Zenon
  <2>3. QED
    BY <2>1, <2>2
<1>6. Len(stream) < Len(stream')
  <2>1. CASE W = << >>
    <3>1. stream' = stream
      BY <1>1, <1>3, <2>1
    <3>2. QED
      BY <3>1
  <2>2. CASE W # << >>
    <3>1. Len(W) # 0
      BY <1>1, <2>2, EmptySeq
    <3>2. QED
      BY <1>5, <3>1
  <2>3. QED
    BY <2>1, <2>2
<1>7. ASSUME NEW k \in Len(stream) + 1 .. Len(stream')
      PROVE  \E a \in 1 .. Len(W) : k = Len(stream) + a /\ stream'[k] = W[a]
  <2>1. k \in 1 .. Len(stream') /\ ~ (k \in 1 .. Len(stream))
    BY <1>5
  <2>2. QED
    BY <1>4, <2>1
<1>8. ASSUME NEW k \in 1 .. Len(batch)
      PROVE  /\ batch[k].call \in Call
             /\ batch[k].n \in Done(batch[k].call) + 1 .. sent[batch[k].call]
             /\ batch[k] \notin Adrift
  BY <1>2, BatchInOrder DEF StreamOK, Spent
<1>9. ASSUME NEW k \in Len(stream) + 1 .. Len(stream')
      PROVE  /\ stream'[k].call \in Call
             /\ stream'[k].n \in Done(stream'[k].call) + 1 .. sent[stream'[k].call]
             /\ stream'[k] \notin Adrift
  <2>1. PICK a \in 1 .. Len(W) : stream'[k] = W[a]
    BY <1>7
  <2>2. PICK i \in 1 .. Len(batch) : W[a] = batch[i]
    BY <1>1
  <2>3. QED
    BY <1>8, <2>1, <2>2
<1>10. ASSUME NEW k \in Len(stream) + 1 .. Len(stream'), NEW j \in 1 .. k - 1,
             stream'[j].call = stream'[k].call
      PROVE  stream'[j].n < stream'[k].n
  <2>1. k \in Nat /\ j \in Nat /\ j < k /\ j \in 1 .. Len(stream')
    BY <1>5
  <2>2. CASE j \in 1 .. Len(stream) /\ stream'[j] = stream[j]
    <3>1. PICK c \in Call : c = stream'[k].call
      BY <1>9
    <3>2. stream[j].n \in Nat /\ stream[j].n <= Done(c)
      <4>1. Spent(stream[j])
        BY <2>2 DEF Spent
      <4>2. QED
        BY <1>2, <1>10, <2>2, <3>1, <4>1, SpentBefore
    <3>3. stream'[k].n \in Done(c) + 1 .. sent[c]
      BY <1>9, <3>1
    <3>4. Done(c) \in Nat /\ sent[c] \in Nat
      BY CountsType
    <3>5. QED
      BY <2>2, <3>2, <3>3, <3>4
  <2>3. ASSUME NEW a \in 1 .. Len(W), j = Len(stream) + a, stream'[j] = W[a]
        PROVE  stream'[j].n < stream'[k].n
    <3>1. PICK b \in 1 .. Len(W) : k = Len(stream) + b /\ stream'[k] = W[b]
      BY <1>7
    <3>2. a < b
      BY <1>5, <2>1, <2>3, <3>1
    <3>3. PICK g, h \in 1 .. Len(batch) : g < h /\ W[a] = batch[g] /\ W[b] = batch[h]
      BY <1>1, <3>2
    <3>4. QED
      BY <1>2, <1>10, <2>3, <3>1, <3>3, BatchInOrder
  <2>4. QED
    BY <1>4, <2>1, <2>2, <2>3
<1>11. QED
  BY <1>3, <1>4, <1>6, <1>9, <1>10

\* What FlushBroken sets adrift awaits its results and is not written.
LEMMA LoseStep ==
  ASSUME TypeOK, OwedOK, StreamOK, FlushBroken
  PROVE  /\ Adrift \subseteq Adrift'
         /\ \A u \in Adrift' \ Adrift :
              /\ u.call \in Call /\ u.n \in Done(u.call) + 1 .. sent[u.call]
              /\ \A k \in DOMAIN stream : stream[k] # u
<1>1. PICK W \in Seq(Update) :
        /\ adrift' = adrift \cup ({W} \ {<< >>})
        /\ \A m \in 1 .. Len(W) : \E k \in 1 .. Len(batch) : W[m] = batch[k]
  BY BrokenGoesAdrift
<1>2. pending = << >>
  BY DEF FlushBroken
<1>3. Adrift \subseteq Adrift'
  BY <1>1 DEF Adrift
<1>4. ASSUME NEW u \in Adrift', u \notin Adrift
      PROVE  /\ u.call \in Call /\ u.n \in Done(u.call) + 1 .. sent[u.call]
             /\ \A k \in DOMAIN stream : stream[k] # u
  <2>1. PICK t \in adrift' : \E k \in DOMAIN t : u = t[k]
    BY DEF Adrift
  <2>2. t = W /\ DOMAIN W = 1 .. Len(W)
    BY <1>1, <1>4, <2>1 DEF Adrift
  <2>3. PICK i \in 1 .. Len(batch) : u = batch[i]
    BY <1>1, <2>1, <2>2
  <2>4. ~ Spent(u)
    BY <2>3 DEF StreamOK
  <2>5. QED
    BY <1>2, <2>3, <2>4, BatchInOrder, SpentType DEF Spent
<1>5. QED
  BY <1>3, <1>4

\* The results that are out: one more by a step of Deliver, as many otherwise.
LEMMA DoneMoves ==
  ASSUME TypeOK, OwedOK, [Next]_vars
  PROVE  \/ \A d \in Call : Done(d)' = Done(d)
         \/ \E c \in Call : /\ Deliver /\ Done(c) < sent[c]
                            /\ Done(c)' = Done(c) + 1
                            /\ \A d \in Call : d # c => Done(d)' = Done(d)
<1>1. ASSUME NEW c \in Call, Receive(c) PROVE \A d \in Call : Done(d)' = Done(d)
  <2>1. /\ Len(received'[c]) = Len(received[c]) + 1
        /\ Len(rChan'[c]) = Len(rChan[c]) - 1
        /\ \A d \in Call : d # c => rChan'[d] = rChan[d] /\ received'[d] = received[d]
    BY <1>1, ReceiveMoves
  <2>2. Len(received[c]) \in Nat /\ Len(rChan[c]) \in Nat
    BY CountsType
  <2>3. \A a, b, e, f \in Int : e = a + 1 /\ f = b - 1 => e + f = a + b
    OBVIOUS
  <2>4. Len(received'[c]) + Len(rChan'[c]) = Len(received[c]) + Len(rChan[c])
    <3>1. Len(received'[c]) \in Int /\ Len(rChan'[c]) \in Int
      BY <2>1, <2>2
    <3>2. Len(received[c]) \in Int /\ Len(rChan[c]) \in Int
      BY <2>2
    <3>3. QED
      BY <2>1, <2>3, <3>1, <3>2, Zenon
  <2>5. QED
    BY <2>1, <2>4 DEF Done
<1>2. CASE Deliver
  <2>1. PICK c : c = Head(pending).update.call
    OBVIOUS
  <2>2. c \in Call /\ Done(c) < sent[c]
    BY <1>2, <2>1, HeadIsNext DEF Deliver
  <2>3. \/ Len(rChan'[c]) = Len(rChan[c]) + 1 /\ received'[c] = received[c]
        \/ Len(received'[c]) = Len(received[c]) + 1 /\ rChan'[c] = rChan[c]
    BY <1>2, <2>1, DeliverMoves
  <2>4. Len(received[c]) \in Nat /\ Len(rChan[c]) \in Nat
    BY <2>2, CountsType
  <2>5. \A a, b \in Nat : a + (b + 1) = (a + b) + 1 /\ (a + 1) + b = (a + b) + 1
    OBVIOUS
  <2>6. Len(received'[c]) + Len(rChan'[c]) = (Len(received[c]) + Len(rChan[c])) + 1
    BY <2>3, <2>4, <2>5, Zenon
  <2>7. \A d \in Call : d # c => rChan'[d] = rChan[d] /\ received'[d] = received[d]
    BY <1>2, <2>1, DeliverMoves
  <2>8. QED
    BY <1>2, <2>2, <2>6, <2>7 DEF Done
<1>3. CASE UNCHANGED <<received, rChan>>
  BY <1>3 DEF Done
<1>4. QED
  <2>1. \/ UNCHANGED <<received, rChan>>
        \/ Deliver
        \/ \E c \in Call : Receive(c)
    BY DEF Next, Queue, Handler, Flush, FlushBroken, RunLate, Begin, Submit, AllSent,
           Return, vars, callVars
  <2>2. QED
    BY <1>1, <1>2, <1>3, <2>1

LEMMA StoreInit == Init => Store!Init
<1> SUFFICES ASSUME Init PROVE Store!Init
  OBVIOUS
<1>1. \A c \in Call : Done(c) = 0
  BY DEF Init, Done
<1>2. [c \in Call |-> Done(c)] = [c \in Call |-> 0]
  BY <1>1
<1>3. Adrift = {}
  BY DEF Init, Adrift
<1>4. QED
  BY <1>2, <1>3 DEF Init, Store!Init

LEMMA StoreStep ==
  ASSUME IInv, [Next]_vars
  PROVE  [Store!Next]_(Store!vars)
<1>1. TypeOK /\ OwedOK /\ StreamOK
  BY DEF IInv
<1> DEFINE answered == [c \in Call |-> Done(c)]
<1>2. CASE Flush
  <2>1. UNCHANGED <<sent, adrift>> /\ \A c \in Call : Done(c)' = Done(c)
    BY <1>2 DEF Flush, callVars, Done
  <2>2. answered' = answered
    BY <2>1
  <2>3. Adrift' = Adrift
    BY <2>1 DEF Adrift
  <2>4. CASE UNCHANGED stream
    BY <2>1, <2>2, <2>3, <2>4 DEF Store!vars
  <2>5. CASE ~ UNCHANGED stream
    <3>1. /\ Len(stream) < Len(stream')
          /\ \A k \in DOMAIN stream : stream'[k] = stream[k]
          /\ \A k \in Len(stream) + 1 .. Len(stream') :
               /\ stream'[k].call \in Call
               /\ stream'[k].n \in answered[stream'[k].call] + 1 .. sent[stream'[k].call]
               /\ stream'[k] \notin Adrift
               /\ \A j \in 1 .. k - 1 :
                    stream'[j].call = stream'[k].call => stream'[j].n < stream'[k].n
      BY <1>1, <1>2, <2>5, WriteStep
    <3> HIDE DEF answered
    <3>2. Store!Write
      BY <2>1, <2>2, <2>3, <3>1 DEF Store!Write, Store!Awaited, answered
    <3>3. QED
      BY <3>2 DEF Store!Next
  <2>6. QED
    BY <2>4, <2>5
<1>3. CASE FlushBroken
  <2>1. UNCHANGED <<sent, stream>> /\ \A c \in Call : Done(c)' = Done(c)
    BY <1>3 DEF FlushBroken, callVars, Done
  <2>2. answered' = answered
    BY <2>1
  <2>3. "pipeline" \in Fault
    BY <1>3 DEF FlushBroken
  <2>4. /\ Adrift \subseteq Adrift'
        /\ \A u \in Adrift' \ Adrift :
             /\ u.call \in Call /\ u.n \in answered[u.call] + 1 .. sent[u.call]
             /\ \A k \in DOMAIN stream : stream[k] # u
    BY <1>1, <1>3, LoseStep
  <2> HIDE DEF answered
  <2>5. Store!Lose
    BY <2>1, <2>2, <2>3, <2>4 DEF Store!Lose, Store!Awaited, answered
  <2>6. QED
    BY <2>5 DEF Store!Next
<1>4. CASE RunLate
  <2>1. PICK s \in adrift :
          /\ stream' = Append(stream, Head(s))
          /\ adrift' = (adrift \ {s}) \cup ({Tail(s)} \ {<< >>})
    BY <1>4 DEF RunLate
  <2>2. Head(s) \in Adrift /\ Adrift' = Adrift \ {Head(s)}
    BY <1>1, <2>1, LateMoves DEF StreamOK
  <2>3. UNCHANGED sent /\ \A c \in Call : Done(c)' = Done(c)
    BY <1>4 DEF RunLate, callVars, Done
  <2>4. answered' = answered
    BY <2>3
  <2> HIDE DEF answered
  <2>5. Store!WriteLate(Head(s))
    BY <2>1, <2>2, <2>3, <2>4 DEF Store!WriteLate, answered
  <2>6. QED
    BY <2>2, <2>5 DEF Store!Next
<1>5. ASSUME NEW c \in Call, Submit(c) PROVE Store!Next
  <2>1. /\ sent' = [sent EXCEPT ![c] = @ + 1]
        /\ UNCHANGED <<stream, adrift, received, rChan>>
    BY <1>5 DEF Submit
  <2>2. answered' = answered /\ Adrift' = Adrift
    BY <2>1 DEF Done, Adrift
  <2>3. QED
    BY <2>1, <2>2 DEF Store!Give, Store!Next
<1>6. ASSUME NEW c \in Call, Deliver, Done(c) < sent[c], Done(c)' = Done(c) + 1,
             \A d \in Call : d # c => Done(d)' = Done(d)
      PROVE  Store!Next
  <2>1. UNCHANGED <<sent, stream, adrift>>
    BY <1>6 DEF Deliver
  <2>2. Adrift' = Adrift
    BY <2>1 DEF Adrift
  <2>3. answered[c] < sent[c] /\ answered' = [answered EXCEPT ![c] = @ + 1]
    BY <1>6, Zenon
  <2>4. QED
    BY <2>1, <2>2, <2>3 DEF Store!Answer, Store!Next
<1>7. CASE UNCHANGED <<sent, stream, adrift>> /\ \A d \in Call : Done(d)' = Done(d)
  <2>1. answered' = answered /\ Adrift' = Adrift
    BY <1>7 DEF Adrift
  <2>2. QED
    BY <1>7, <2>1 DEF Store!vars
<1>8. QED
  <2>1. \/ Flush \/ FlushBroken \/ RunLate
        \/ \E c \in Call : Submit(c)
        \/ UNCHANGED <<sent, stream, adrift>>
    BY DEF Next, Queue, Handler, Deliver, Begin, AllSent, Receive, Return, vars, callVars
  <2>2. QED
    BY <1>1, <1>2, <1>3, <1>4, <1>5, <1>6, <1>7, <2>1, DoneMoves

\* Whatever the calls, the batches and the faults, an update is written once or never,
\* and, unless the replies of its batch were lost, before its answer and after those
\* its call gave earlier.  Only where replies may be lost may one be written late.
THEOREM OutgoingImplementsStore == Spec => ImplementsUpdateStore
<1>1. IInv /\ [Next]_vars => [Store!Next]_(Store!vars)
  BY StoreStep
<1>2. QED
  BY <1>1, StoreInit, SpecIInv, PTL DEF Spec, ImplementsUpdateStore, Store!Spec

-----------------------------------------------------------------------------
\* Three properties that a doc or a comment promises fail in this system
\* (ResultIsOwnId, AcknowledgedIsWritten, NoHandlerPanics).  What follows says how
\* far they hold: which requests and which faults it takes to break each.

\* Picking every element changes nothing.
LEMMA PickAll ==
  ASSUME NEW T, NEW s \in Seq(T)
  PROVE  Pick(s, 1 .. Len(s)) = s
<1> DEFINE S == 1 .. Len(s)
<1>1. Len(s) \in Nat /\ S \in SUBSET (1 .. Len(s))
  OBVIOUS
<1>2. \A k \in 0 .. Len(s) : Cardinality(1 .. k) = k
  <2>1. ASSUME NEW k \in 0 .. Len(s) PROVE Cardinality(1 .. k) = k
    <3>1. 1 \in Int /\ k \in Int /\ (IF 1 > k THEN 0 ELSE k - 1 + 1) = k
      BY <1>1
    <3>2. QED
      BY <3>1, FS_Interval
  <2>2. QED
    BY <2>1
<1>3. Cardinality(S) = Len(s)
  BY <1>1, <1>2
<1>4. ASSUME NEW k \in S PROVE Nth(S, k) = k
  <2>1. Upto(S, k) = 1 .. k
    BY <1>1 DEF Upto
  <2>2. Cardinality(Upto(S, k)) = k
    BY <1>1, <1>2, <2>1
  <2> HIDE DEF S
  <2>3. Nth(S, Cardinality(Upto(S, k))) = k
    BY <1>1, NthOf
  <2>4. QED
    BY <2>2, <2>3
<1> HIDE DEF S
<1>5. /\ Pick(s, S) \in Seq(T) /\ Len(Pick(s, S)) = Len(s)
      /\ \A m \in 1 .. Len(s) : Pick(s, S)[m] = s[Nth(S, m)]
  BY <1>1, <1>3, PickType
<1>6. \A m \in 1 .. Len(s) : Pick(s, S)[m] = s[m]
  BY <1>4, <1>5 DEF S
<1>7. Pick(s, S) = s
  BY <1>5, <1>6
<1>8. QED
  BY <1>7 DEF S

\* An update in the batch is one of those its handler makes of its request.
LEMMA BatchUpdates ==
  ASSUME TypeOK, OwedOK, pending = << >>, NEW k \in 1 .. Len(batch)
  PROVE  /\ batch[k].call \in Call
         /\ batch[k].n \in 1 .. Len(Updates(batch[k].call))
<1>1. Owed = batch
  BY DEF Owed
<1>2. /\ batch[k].call \in Call /\ batch[k].n \in Nat
      /\ batch[k] = [call |-> batch[k].call, n |-> batch[k].n]
  BY <1>1, OwedType
<1> DEFINE c == batch[k].call
<1>3. batch[k].n \in Done(c) + 1 .. sent[c]
  BY <1>1, <1>2 DEF OwedOK
<1>4. Done(c) \in Nat /\ sent[c] \in Nat
  BY <1>2, CountsType
<1>5. Len(Updates(c)) \in Nat /\ sent[c] <= Len(Updates(c))
  BY <1>2, RequestType DEF TypeOK
<1> HIDE DEF c
<1>6. batch[k].n \in 1 .. Len(Updates(c))
  BY <1>2, <1>3, <1>4, <1>5
<1>7. QED
  BY <1>2, <1>6 DEF c

\* Requests of which only valid updates are made: assignments carry something to
\* assign, and MMFs return tickets with ids.
OnlyValidUpdates ==
  \A q \in Request :
    /\ q.rpc # "EmptyAssignment"
    /\ q.rpc = "MatchDeactivation" => \A n \in DOMAIN q.ids : q.ids[n] # "empty"

LEMMA UpdatesValid ==
  ASSUME TypeOK, OnlyValidUpdates, NEW c \in Call, NEW n \in 1 .. Len(Updates(c))
  PROVE  Updates(c)[n] = "valid"
<1>1. /\ request[c] \in Request /\ request[c].rpc \in Rpc
      /\ Ids(c) \in Seq(IdForm)
      /\ Cardinality(IsGood(c)) \in Nat /\ Cardinality(NotEmpty(c)) \in Nat
  BY RequestType
<1>2. request[c].rpc # "EmptyAssignment"
  BY <1>1 DEF OnlyValidUpdates
<1>3. CASE request[c].rpc = "CreateTicket"
  BY <1>3 DEF Updates
<1>4. CASE request[c].rpc = "SetState"
  BY <1>1, <1>4 DEF Updates, OneEach
<1>5. CASE request[c].rpc = "MatchDeactivation"
  <2>1. \A k \in DOMAIN Ids(c) : Ids(c)[k] # "empty"
    BY <1>1, <1>5 DEF OnlyValidUpdates, Ids
  <2>2. QED
    BY <1>1, <1>5, <2>1 DEF Updates
<1>6. CASE request[c].rpc = "CreateAssignments"
  BY <1>1, <1>6 DEF Updates, OneEach
<1>7. QED
  BY <1>1, <1>2, <1>3, <1>4, <1>5, <1>6 DEF Rpc

\* Then there is a command for every update of a batch, in the same place.
LEMMA CommandsAreBatch ==
  ASSUME TypeOK, OwedOK, pending = << >>, OnlyValidUpdates
  PROVE  Commands = batch
<1>1. batch \in Seq(Update) /\ DOMAIN batch = 1 .. Len(batch)
  BY DEF TypeOK
<1>2. \A n \in DOMAIN batch : ValidUpdate(batch[n])
  BY <1>1, BatchUpdates, UpdatesValid DEF ValidUpdate
<1>3. {n \in DOMAIN batch : ValidUpdate(batch[n])} = 1 .. Len(batch)
  BY <1>1, <1>2
<1>4. QED
  BY <1>1, <1>3, PickAll DEF Commands

\* Every result comes of a clean batch.
AllClean == \A r : Held(r) => r.clean

LEMMA CleanStep ==
  ASSUME OnlyValidUpdates, "pipeline" \notin Fault, TypeOK, OwedOK, AllClean, [Next]_vars
  PROVE  AllClean'
<1> SUFFICES ASSUME NEW r, Held(r)' PROVE r.clean
  BY DEF AllClean
<1>1. CASE Held(r)
  BY <1>1 DEF AllClean
<1>2. CASE \E n \in 1 .. Len(batch), refused \in Refusable,
              trimFailed \in {FALSE, "xtrim" \in Fault} :
              /\ Flush /\ stream' = stream \o Written(refused)
              /\ r = Result(n, refused, trimFailed)
  <2>1. pending = << >>
    BY <1>2 DEF Flush
  <2>2. Commands = batch
    BY <2>1, CommandsAreBatch
  <2>3. \A n, refused, trimFailed : Result(n, refused, trimFailed).clean
    BY <2>2 DEF Result
  <2>4. QED
    BY <1>2, <2>3
<1>3. CASE FlushBroken
  BY <1>3 DEF FlushBroken
<1>4. QED
  BY <1>1, <1>2, <1>3, HeldStep

\* Without invalid updates and broken connections every result without error carries
\* the id of its own update, as StateResponse promises.
THEOREM ResultsCarryOwnIds ==
  ASSUME OnlyValidUpdates, "pipeline" \notin Fault
  PROVE  Spec => []ResultIsOwnId
<1>1. Init => AllClean
  BY DEF Init, AllClean, Held
<1>2. IInv /\ AllClean /\ [Next]_vars => AllClean'
  BY CleanStep DEF IInv
<1>3. ASSUME IInv, AllClean PROVE ResultIsOwnId
  <2>1. ResultsOK /\ stream \in Seq(Update) /\ \A c \in Call : received[c] \in Seq(Results)
    BY <1>3, CountsType DEF IInv, TypeOK
  <2>2. ASSUME NEW c \in Call, NEW r \in Delivered(c), ~ r.err
        PROVE  r.id \in DOMAIN stream /\ stream[r.id] = r.update
    <3>1. Held(r)
      BY <2>1 DEF Delivered, Held
    <3>2. ResultOK(r) /\ r.clean
      BY <1>3, <2>1, <3>1, HeldResults DEF AllClean
    <3>3. QED
      BY <2>1, <2>2, <3>2 DEF ResultOK
  <2>3. QED
    BY <2>2 DEF ResultIsOwnId
<1>4. QED
  BY <1>1, <1>2, <1>3, SpecIInv, PTL DEF Spec

\* What a result without error acknowledges is in the stream.
AckOK(r) == ~ r.err => \E k \in 1 .. Len(stream) : stream[k] = r.update

AcksOK == \A r : Held(r) => AckOK(r)

\* Without broken connections and refused commands Flush writes every valid update
\* of the batch.
LEMMA FlushWrites ==
  ASSUME TypeOK, "xadd" \notin Fault, NEW refused \in Refusable,
         NEW k \in 1 .. Len(batch), ValidUpdate(batch[k])
  PROVE  \E m \in 1 .. Len(Written(refused)) : Written(refused)[m] = batch[k]
<1> DEFINE V == {n \in DOMAIN batch : ValidUpdate(batch[n])}
<1>1. batch \in Seq(Update) /\ Len(batch) \in Nat /\ V \in SUBSET (1 .. Len(batch)) /\ k \in V
  BY DEF TypeOK
<1>2. Commands = Pick(batch, V) /\ Commands \in Seq(Update)
  BY CommandsType DEF Commands
<1>3. refused = {}
  BY DEF Refusable
<1>4. Written(refused) = Commands
  <2>1. DOMAIN Commands \ refused = 1 .. Len(Commands)
    BY <1>2, <1>3
  <2>2. QED
    BY <1>2, <2>1, PickAll DEF Written
<1> HIDE DEF V
<1> DEFINE m == Cardinality(Upto(V, k))
<1>5. m \in 1 .. Cardinality(V) /\ Nth(V, m) = k
  BY <1>1, NthOf
<1> HIDE DEF m
<1>6. Commands[m] = batch[k] /\ m \in 1 .. Len(Commands)
  BY <1>1, <1>2, <1>5, PickType
<1>7. QED
  BY <1>4, <1>6

LEMMA AcksStep ==
  ASSUME "xadd" \notin Fault, "pipeline" \notin Fault, TypeOK, OwedOK, AcksOK, [Next]_vars
  PROVE  AcksOK'
<1> SUFFICES ASSUME NEW r, Held(r)' PROVE AckOK(r)'
  BY DEF AcksOK
<1>1. CASE Held(r)
  <2>1. AckOK(r)
    BY <1>1 DEF AcksOK
  <2>2. CASE UNCHANGED stream
    BY <2>1, <2>2 DEF AckOK
  <2>3. CASE ~ UNCHANGED stream
    <3>1. PICK W \in Seq(Update) : stream' = stream \o W
      BY <2>3, StreamStepGrows
    <3>2. stream \in Seq(Update)
      BY DEF TypeOK
    <3>3. \A k \in 1 .. Len(stream) : k \in 1 .. Len(stream') /\ stream'[k] = stream[k]
      BY <3>1, <3>2
    <3>4. QED
      BY <2>1, <3>3 DEF AckOK
  <2>4. QED
    BY <2>2, <2>3
<1>2. CASE \E n \in 1 .. Len(batch), refused \in Refusable,
              trimFailed \in {FALSE, "xtrim" \in Fault} :
              /\ Flush /\ stream' = stream \o Written(refused)
              /\ r = Result(n, refused, trimFailed)
  <2>1. PICK n \in 1 .. Len(batch), refused \in Refusable,
              trimFailed \in {FALSE, "xtrim" \in Fault} :
              /\ stream' = stream \o Written(refused)
              /\ r = Result(n, refused, trimFailed)
    BY <1>2
  <2>2. r.update = batch[n] /\ (~ ValidUpdate(batch[n]) => r.err)
    BY <2>1 DEF Result
  <2>3. CASE r.err
    BY <2>3 DEF AckOK
  <2>4. CASE ~ r.err
    <3>1. PICK m \in 1 .. Len(Written(refused)) : Written(refused)[m] = batch[n]
      BY <2>2, <2>4, FlushWrites
    <3>2. stream \in Seq(Update) /\ Written(refused) \in Seq(Update)
      BY WrittenType DEF TypeOK
    <3>3. /\ Len(stream) + m \in 1 .. Len(stream')
          /\ stream'[Len(stream) + m] = Written(refused)[m]
      BY <2>1, <3>1, <3>2
    <3>4. \E k \in 1 .. Len(stream') : stream'[k] = r.update
      BY <2>2, <3>1, <3>3
    <3>5. QED
      BY <3>4 DEF AckOK
  <2>5. QED
    BY <2>3, <2>4
<1>3. CASE FlushBroken
  BY <1>3 DEF FlushBroken
<1>4. QED
  BY <1>1, <1>2, <1>3, HeldStep

\* Unless a connection breaks or an XADD is refused, every update acknowledged
\* without error was written, invalid ones in its batch or not.
THEOREM AcknowledgedWereWritten ==
  ASSUME "xadd" \notin Fault, "pipeline" \notin Fault
  PROVE  Spec => []AcknowledgedIsWritten
<1>1. Init => AcksOK
  BY DEF Init, AcksOK, Held
<1>2. IInv /\ AcksOK /\ [Next]_vars => AcksOK'
  BY AcksStep DEF IInv
<1>3. ASSUME IInv, AcksOK PROVE AcknowledgedIsWritten
  <2>1. stream \in Seq(Update) /\ \A c \in Call : received[c] \in Seq(Results)
    BY <1>3, CountsType DEF IInv, TypeOK
  <2>2. ASSUME NEW c \in Call, NEW r \in Delivered(c), ~ r.err
        PROVE  \E k \in DOMAIN stream : stream[k] = r.update
    <3>1. Held(r)
      BY <2>1 DEF Delivered, Held
    <3>2. AckOK(r)
      BY <1>3, <3>1 DEF AcksOK
    <3>3. QED
      BY <2>1, <2>2, <3>2 DEF AckOK
  <2>3. QED
    BY <2>2 DEF AcknowledgedIsWritten
<1>4. QED
  BY <1>1, <1>2, <1>3, SpecIInv, PTL DEF Spec

\* No handler dies while Redis refuses no command.
THEOREM NoPanicWithoutRefusal ==
  ASSUME Fault \cap {"xadd", "xtrim"} = {}
  PROVE  Spec => []NoHandlerPanics
<1>1. FailuresReported => NoHandlerPanics
  BY DEF FailuresReported, NoHandlerPanics, Crashed
<1>2. QED
  BY <1>1, FailuresAreReported, PTL

=============================================================================
