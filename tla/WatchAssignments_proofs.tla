----------------------- MODULE WatchAssignments_proofs ----------------------
(***************************************************************************)
(* WatchAssignments' properties hold for any calls, requests, creation     *)
(* times and times to live.                                                *)
(*                                                                         *)
(* The handler takes at most one assignment from each position, since the  *)
(* goroutine of a position ends when its assignment is taken (CallInv).    *)
(* So the loop's count of one per id is reached only when every position   *)
(* has answered, and a handler that returned before that did so by its     *)
(* timeout, which lies past the time to live of the newest ticket: that is *)
(* a fact about the largest of finitely many times (NewestIsLatest).       *)
(***************************************************************************)
EXTENDS WatchAssignments, FiniteSetTheorems, SequenceTheorems,
        WellFoundedInduction, TLAPS

-----------------------------------------------------------------------------
\* The creation time of the newest ticket of a request.

\* The order of the naturals, in which every set has a least element.
Less == {p \in Nat \X Nat : p[1] < p[2]}

LEMMA LessWellFounded == IsWellFoundedOn(Less, Nat)
  BY NatLessThanWellFounded DEF OpToRel, Less

\* Any finite sequence of times, together with one more, has a latest one.  A
\* least prefix without one would be the empty prefix, or one that is one longer
\* than a prefix with one.
LEMMA LatestExists ==
  ASSUME NEW n \in Nat, NEW time, \A k \in 1 .. n : time[k] \in Int, NEW x0 \in Int
  PROVE  LET S == {x0} \cup {time[k] : k \in 1 .. n}
         IN  Latest(S) \in S /\ \A y \in S : y <= Latest(S)
<1> DEFINE Upto(m) == {x0} \cup {time[k] : k \in 1 .. m}
           HasLatest(m) == \E x \in Upto(m) : \A y \in Upto(m) : y <= x
           Without == {m \in 0 .. n : ~ HasLatest(m)}
<1>1. HasLatest(n)
  <2> SUFFICES ASSUME ~ HasLatest(n) PROVE FALSE
    OBVIOUS
  <2>1. Without # {} /\ Without \subseteq Nat
    BY DEF Without
  <2>2. PICK m \in Without : \A j \in Without : ~ (<<j, m>> \in Less)
    <3> HIDE DEF Without, Less
    <3>1. QED
      BY <2>1, LessWellFounded, WFMin
  <2>3. \A j \in Without : ~ (j < m)
    <3>1. m \in Nat /\ \A j \in Without : j \in Nat
      BY <2>1
    <3> HIDE DEF Without
    <3>2. QED
      BY <2>2, <3>1 DEF Less
  <2>4. HasLatest(0)
    <3>1. Upto(0) = {x0}
      OBVIOUS
    <3>2. QED
      BY <3>1
  <2>5. m \in 1 .. n /\ m - 1 \in 0 .. n /\ m - 1 < m
    <3> HIDE DEF HasLatest
    <3>1. QED
      BY <2>4
  <2>6. PICK x \in Upto(m - 1) : \A y \in Upto(m - 1) : y <= x
    <3>1. m - 1 \notin Without
      <4> HIDE DEF Without
      <4>1. QED
        BY <2>3, <2>5
    <3>2. HasLatest(m - 1)
      <4> HIDE DEF HasLatest
      <4>1. QED
        BY <2>5, <3>1
    <3>3. QED
      BY <3>2
  <2>7. Upto(m) = Upto(m - 1) \cup {time[m]}
    <3>1. 1 .. m = (1 .. m - 1) \cup {m}
      BY <2>5
    <3>2. QED
      BY <3>1
  <2>8. x \in Int /\ time[m] \in Int /\ \A y \in Upto(m - 1) : y \in Int
    BY <2>5, <2>6
  <2>9. HasLatest(m)
    <3> HIDE DEF Upto
    <3>1. CASE time[m] <= x
      BY <2>6, <2>7, <3>1
    <3>2. CASE x < time[m]
      <4>1. \A y \in Upto(m) : y <= time[m]
        BY <2>6, <2>7, <2>8, <3>2
      <4>2. QED
        BY <2>7, <4>1
    <3>3. QED
      BY <2>8, <3>1, <3>2
  <2>10. QED
    <3> HIDE DEF HasLatest
    <3>1. QED
      BY <2>9
<1>2. QED
  BY <1>1 DEF Latest

\* The time from which a call's timeout is counted is at least the time of the call
\* and the creation time of each ticket asked for.
LEMMA NewestIsLatest ==
  ASSUME NEW req \in Request, now \in Int
  PROVE  /\ NewestTicketCtime(req) \in Int
         /\ NewestTicketCtime(req) >= now
         /\ \A n \in DOMAIN req : NewestTicketCtime(req) >= Ctime[req[n]]
<1>1. req \in Seq(Ticket)
  BY WatchAssumption
<1>2. Len(req) \in Nat /\ DOMAIN req = 1 .. Len(req)
  BY <1>1
<1> DEFINE time == [n \in 1 .. Len(req) |-> Ctime[req[n]]]
           S == {now} \cup {Ctime[req[n]] : n \in DOMAIN req}
<1>3. \A n \in 1 .. Len(req) : time[n] \in Int
  BY <1>1, <1>2, WatchAssumption
<1>4. S = {now} \cup {time[n] : n \in 1 .. Len(req)}
  BY <1>2
<1>5. Latest(S) \in S /\ \A y \in S : y <= Latest(S)
  <2> HIDE DEF time
  <2>1. QED
    BY <1>2, <1>3, <1>4, LatestExists
<1>6. \A y \in S : y \in Int
  BY <1>2, <1>3
<1>7. QED
  BY <1>5, <1>6 DEF NewestTicketCtime

-----------------------------------------------------------------------------
\* The inductive invariant.

\* What a call's handler and its goroutines know of each other.
CallInv(c) ==
  /\ phase[c] = "start" => ids[c] = << >> /\ taken[c] = {}
  /\ \A n \in Positions(c) : n \in taken[c] => watcher[c][n].does = "ended"
  /\ phase[c] # "start" =>
       \A n \in Positions(c) : deadline[c] >= Ctime[ids[c][n]] + TTL
  /\ Returned(c) => taken[c] = Positions(c) \/ now >= deadline[c]

\* The positions whose assignment was taken and that ask for t.
TakenFor(c, t) == {n \in taken[c] : ids[c][n] = t}

\* The client got an assignment for each position taken, while it was there.
StreamInv(c) ==
  open[c] => \A t \in Ticket :
    Occurrences(streamed[c], t) = Cardinality(TakenFor(c, t))

IInv ==
  /\ TypeOK
  /\ \A c \in Call : CallInv(c) /\ StreamInv(c)
  /\ PanicsOnlyAfterTimeout

-----------------------------------------------------------------------------
\* Type correctness.

LEMMA Positions1N ==
  ASSUME TypeOK, NEW c \in Call
  PROVE  /\ ids[c] \in Seq(Ticket)
         /\ Len(ids[c]) \in Nat
         /\ Positions(c) = 1 .. Len(ids[c])
         /\ \A n \in Positions(c) : ids[c][n] \in Ticket
<1>1. ids[c] \in Seq(Ticket)
  BY WatchAssumption, EmptySeq DEF TypeOK
<1>2. QED
  BY <1>1, LenProperties, ElementOfSeq DEF Positions

LEMMA TypeInit == Init => TypeOK
<1> SUFFICES ASSUME Init PROVE TypeOK
  OBVIOUS
<1>1. << >> \in Seq(Ticket)
  OBVIOUS
<1>2. \A c \in Call : Positions(c) = {}
  BY DEF Init, Positions
<1>3. \A c \in Call :
        watcher[c] \in [Positions(c) ->
          [does : {"poll", "send", "ended"}, at : 0 .. Horizon + 1]]
  BY <1>2 DEF Init
<1>4. /\ now \in 0 .. Horizon
      /\ deadline \in [Call -> Int]
      /\ ids \in [Call -> Request \cup {<< >>}]
  BY WatchAssumption DEF Init
<1>5. streamed \in [Call -> Seq(Ticket)]
  BY <1>1 DEF Init
<1>6. QED
  BY <1>2, <1>3, <1>4, <1>5 DEF Init, TypeOK

LEMMA TypeStep == TypeOK /\ [Next]_vars => TypeOK'
<1> SUFFICES ASSUME TypeOK, [Next]_vars PROVE TypeOK'
  OBVIOUS
<1> USE WatchAssumption DEF handlerVars, Positions
<1>1. CASE Tick
  BY <1>1 DEF Tick, TypeOK
<1>2. CASE ExpireAssignments
  BY <1>2 DEF ExpireAssignments, TypeOK
<1>3. ASSUME NEW t \in Ticket, Assign(t) PROVE TypeOK'
  BY <1>3 DEF Assign, TypeOK
<1>4. ASSUME NEW c \in Call, NEW req \in Request, Watch(c, req) PROVE TypeOK'
  <2>1. now \in Int /\ now \in 0 .. Horizon + 1 /\ TTL \in Int
    BY DEF TypeOK
  <2>2. deadline' \in [Call -> Int]
    BY <1>4, <2>1, NewestIsLatest DEF Watch, TypeOK
  <2>3. ASSUME NEW d \in Call
        PROVE  /\ taken'[d] \subseteq DOMAIN ids'[d]
               /\ watcher'[d] \in [DOMAIN ids'[d] ->
                    [does : {"poll", "send", "ended"}, at : 0 .. Horizon + 1]]
    <3>1. CASE d = c
      <4>1. ids'[c] = req /\ watcher'[c] = [n \in DOMAIN req |-> Watcher("poll", now)]
        BY <1>4 DEF Watch, TypeOK
      <4>2. Watcher("poll", now) \in
              [does : {"poll", "send", "ended"}, at : 0 .. Horizon + 1]
        BY <2>1 DEF Watcher
      <4>3. watcher'[c] \in [DOMAIN req ->
              [does : {"poll", "send", "ended"}, at : 0 .. Horizon + 1]]
        BY <4>1, <4>2
      <4>4. taken'[c] \subseteq DOMAIN req
        <5>1. ids[c] = << >> /\ taken[c] \subseteq DOMAIN ids[c]
          BY <1>4 DEF Watch, TypeOK
        <5>2. taken[c] = {}
          BY <5>1
        <5>3. QED
          BY <1>4, <5>2 DEF Watch
      <4>5. QED
        BY <3>1, <4>1, <4>3, <4>4
    <3>2. CASE d # c
      BY <1>4, <3>2 DEF Watch, TypeOK
    <3>3. QED
      BY <3>1, <3>2
  <2>4. QED
    BY <1>4, <2>2, <2>3 DEF Watch, TypeOK
<1>5. ASSUME NEW c \in Call, ClientLeaves(c) \/ Timeout(c) PROVE TypeOK'
  BY <1>5 DEF ClientLeaves, Timeout, TypeOK
<1>6. ASSUME NEW c \in Call, NEW n \in DOMAIN ids[c], Receive(c, n) PROVE TypeOK'
  <2>1. ids[c][n] \in Ticket
    BY Positions1N
  <2>2. streamed' \in [Call -> Seq(Ticket)]
    BY <1>6, <2>1 DEF Receive, TypeOK
  <2>3. /\ phase' \in [Call -> {"start", "wait", "returned"}]
        /\ \A d \in Call : phase'[d] = "start" => ids'[d] = << >>
    <3>1. AfterReceive(c, n) \in {"wait", "returned"}
      BY DEF AfterReceive
    <3>2. QED
      BY <1>6, <3>1 DEF Receive, TypeOK
  <2>4. watcher' = [watcher EXCEPT ![c][n] = Ended]
    BY <1>6 DEF Receive
  <2>5. Ended \in [does : {"poll", "send", "ended"}, at : 0 .. Horizon + 1]
    BY DEF Ended, Watcher
  <2>6. /\ DOMAIN watcher' = Call
        /\ \A d \in Call : watcher'[d] \in
             [DOMAIN ids[d] -> [does : {"poll", "send", "ended"}, at : 0 .. Horizon + 1]]
    BY <2>4, <2>5 DEF TypeOK
  <2>7. DOMAIN taken' = Call /\ \A d \in Call : taken'[d] \subseteq DOMAIN ids[d]
    BY <1>6 DEF Receive, TypeOK
  <2>8. UNCHANGED <<now, assigned, ids, deadline, open, crashed>>
    BY <1>6 DEF Receive
  <2>9. QED
    BY <2>2, <2>3, <2>6, <2>7, <2>8 DEF TypeOK
<1>7. ASSUME NEW c \in Call, NEW n \in DOMAIN ids[c], Poll(c, n) PROVE TypeOK'
  <2> DEFINE w == IF ids[c][n] \in assigned THEN Watcher("send", 0)
                  ELSE Watcher("poll", now + 1)
  <2>1. w \in [does : {"poll", "send", "ended"}, at : 0 .. Horizon + 1]
    BY DEF Watcher, TypeOK
  <2>2. watcher' = [watcher EXCEPT ![c][n] = w]
    BY <1>7 DEF Poll
  <2> HIDE DEF w
  <2>3. QED
    BY <1>7, <2>1, <2>2 DEF Poll, TypeOK
<1>8. ASSUME NEW c \in Call, NEW n \in DOMAIN ids[c], SendOnClosed(c, n)
      PROVE  TypeOK'
  BY <1>8 DEF SendOnClosed, TypeOK
<1>9. CASE UNCHANGED vars
  BY <1>9 DEF vars, TypeOK
<1>10. QED
  BY <1>1, <1>2, <1>3, <1>4, <1>5, <1>6, <1>7, <1>8, <1>9 DEF Next

-----------------------------------------------------------------------------
\* The handler and its goroutines.

\* When as many positions answered as there are ids, all of them did.
LEMMA AllTaken ==
  ASSUME TypeOK, NEW c \in Call, NEW n \in Positions(c),
         AfterReceive(c, n) = "returned"
  PROVE  taken[c] \cup {n} = Positions(c)
<1>1. Len(ids[c]) \in Nat /\ Positions(c) = 1 .. Len(ids[c])
  BY Positions1N
<1>2. IsFiniteSet(Positions(c)) /\ Cardinality(Positions(c)) = Len(ids[c])
  BY <1>1, FS_Interval
<1>3. taken[c] \cup {n} \in SUBSET Positions(c)
  BY DEF TypeOK
<1>4. Cardinality(taken[c] \cup {n}) = Len(ids[c])
  BY DEF AfterReceive
<1>5. QED
  BY <1>2, <1>3, <1>4, FS_Subset

LEMMA CallStep ==
  ASSUME TypeOK, \A c \in Call : CallInv(c), [Next]_vars, NEW d \in Call
  PROVE  CallInv(d)'
<1> USE DEF CallInv, handlerVars, Returned, Positions
<1>1. TypeOK' /\ now \in Int /\ now' \in Int /\ deadline[d] \in Int
  BY TypeStep DEF TypeOK
<1>2. CASE Tick
  BY <1>1, <1>2 DEF Tick
<1>3. CASE ExpireAssignments
  BY <1>3 DEF ExpireAssignments
<1>4. ASSUME NEW t \in Ticket, Assign(t) PROVE CallInv(d)'
  BY <1>4 DEF Assign
<1>5. ASSUME NEW c \in Call, NEW req \in Request, Watch(c, req) PROVE CallInv(d)'
  <2>1. CASE d = c
    <3>1. /\ ids'[c] = req
          /\ deadline'[c] = NewestTicketCtime(req) + TTL
          /\ taken'[c] = {}
          /\ phase'[c] = IF req = << >> THEN "returned" ELSE "wait"
      BY <1>5, <2>1 DEF Watch, TypeOK
    <3>2. TTL \in Int /\ NewestTicketCtime(req) \in Int
          /\ \A n \in DOMAIN req : /\ Ctime[req[n]] \in Int
                                   /\ NewestTicketCtime(req) >= Ctime[req[n]]
      <4>1. \A n \in DOMAIN req : req[n] \in Ticket
        BY WatchAssumption
      <4>2. QED
        BY <1>1, <4>1, NewestIsLatest, WatchAssumption
    <3>3. \A n \in DOMAIN req : deadline'[c] >= Ctime[req[n]] + TTL
      BY <3>1, <3>2
    <3>4. req = << >> => DOMAIN req = {}
      OBVIOUS
    <3>5. QED
      BY <2>1, <3>1, <3>3, <3>4
  <2>2. CASE d # c
    BY <1>5, <2>2 DEF Watch, TypeOK
  <2>3. QED
    BY <2>1, <2>2
<1>6. ASSUME NEW c \in Call, ClientLeaves(c) PROVE CallInv(d)'
  BY <1>6 DEF ClientLeaves
<1>7. ASSUME NEW c \in Call, Timeout(c) PROVE CallInv(d)'
  BY <1>7 DEF Timeout, TypeOK
<1>8. ASSUME NEW c \in Call, NEW n \in DOMAIN ids[c], Receive(c, n)
      PROVE  CallInv(d)'
  <2>1. CASE d = c
    <3>1. /\ phase[c] = "wait"
          /\ taken'[c] = taken[c] \cup {n}
          /\ phase'[c] = AfterReceive(c, n)
          /\ ids'[c] = ids[c] /\ deadline'[c] = deadline[c]
          /\ watcher'[c] = [watcher[c] EXCEPT ![n] = Ended]
      BY <1>8 DEF Receive, TypeOK
    <3>2. AfterReceive(c, n) \in {"wait", "returned"}
      BY DEF AfterReceive
    <3>3. AfterReceive(c, n) = "returned" => taken'[c] = DOMAIN ids[c]
      BY <3>1, AllTaken
    <3>4. \A m \in DOMAIN ids[c] : m \in taken'[c] => watcher'[c][m].does = "ended"
      BY <3>1 DEF Ended, Watcher, TypeOK
    <3>5. QED
      BY <2>1, <3>1, <3>2, <3>3, <3>4
  <2>2. CASE d # c
    BY <1>8, <2>2 DEF Receive, TypeOK
  <2>3. QED
    BY <2>1, <2>2
<1>9. ASSUME NEW c \in Call, NEW n \in DOMAIN ids[c], Poll(c, n)
      PROVE  CallInv(d)'
  <2>1. /\ \A m \in DOMAIN ids[d] :
             watcher[d][m].does = "ended" => watcher'[d][m] = watcher[d][m]
        /\ UNCHANGED handlerVars /\ now' = now
    BY <1>9 DEF Poll, TypeOK
  <2>2. QED
    BY <2>1
<1>10. ASSUME NEW c \in Call, NEW n \in DOMAIN ids[c], SendOnClosed(c, n)
       PROVE  CallInv(d)'
  BY <1>10 DEF SendOnClosed
<1>11. CASE UNCHANGED vars
  BY <1>11 DEF vars
<1>12. QED
  BY <1>2, <1>3, <1>4, <1>5, <1>6, <1>7, <1>8, <1>9, <1>10, <1>11 DEF Next

-----------------------------------------------------------------------------
\* The stream counts what was taken.

LEMMA OccurrencesAppend ==
  ASSUME NEW s \in Seq(Ticket), NEW t \in Ticket, NEW x \in Ticket
  PROVE  /\ Occurrences(s, t) \in Nat
         /\ Occurrences(Append(s, x), t) =
              Occurrences(s, t) + (IF x = t THEN 1 ELSE 0)
<1> DEFINE At == {n \in DOMAIN s : s[n] = t}
           AtNew == {n \in DOMAIN Append(s, x) : Append(s, x)[n] = t}
<1>1. Len(s) \in Nat /\ DOMAIN s = 1 .. Len(s)
  OBVIOUS
<1>2. IsFiniteSet(At) /\ Cardinality(At) \in Nat
  <2>1. At \in SUBSET (1 .. Len(s)) /\ IsFiniteSet(1 .. Len(s))
    BY <1>1, FS_Interval
  <2>2. IsFiniteSet(At)
    BY <2>1, FS_Subset
  <2>3. QED
    BY <2>2, FS_CardinalityType
<1>3. DOMAIN Append(s, x) = 1 .. Len(s) + 1
  BY <1>1
<1>4. AtNew = IF x = t THEN At \cup {Len(s) + 1} ELSE At
  BY <1>1, <1>3
<1>5. Len(s) + 1 \notin At
  BY <1>1
<1>6. Cardinality(At \cup {Len(s) + 1}) = Cardinality(At) + 1
  BY <1>2, <1>5, FS_AddElement
<1>7. Cardinality(AtNew) = Cardinality(At) + (IF x = t THEN 1 ELSE 0)
  <2> HIDE DEF At, AtNew
  <2>1. QED
    BY <1>2, <1>4, <1>6
<1>8. QED
  BY <1>2, <1>7 DEF Occurrences

LEMMA TakenForGrows ==
  ASSUME TypeOK, NEW c \in Call, NEW n \in Positions(c), n \notin taken[c],
         NEW t \in Ticket,
         ids'[c] = ids[c], taken'[c] = taken[c] \cup {n}
  PROVE  Cardinality(TakenFor(c, t)') =
           Cardinality(TakenFor(c, t)) + (IF ids[c][n] = t THEN 1 ELSE 0)
<1>1. Len(ids[c]) \in Nat /\ Positions(c) = 1 .. Len(ids[c])
  BY Positions1N
<1>2. IsFiniteSet(TakenFor(c, t)) /\ Cardinality(TakenFor(c, t)) \in Nat
  <2>1. TakenFor(c, t) \in SUBSET Positions(c)
    BY DEF TakenFor, TypeOK
  <2>2. IsFiniteSet(Positions(c))
    BY <1>1, FS_Interval
  <2>3. IsFiniteSet(TakenFor(c, t))
    BY <2>1, <2>2, FS_Subset
  <2>4. QED
    BY <2>3, FS_CardinalityType
<1>3. /\ n \notin TakenFor(c, t)
      /\ TakenFor(c, t)' = IF ids[c][n] = t THEN TakenFor(c, t) \cup {n}
                           ELSE TakenFor(c, t)
  BY DEF TakenFor
<1>4. Cardinality(TakenFor(c, t) \cup {n}) = Cardinality(TakenFor(c, t)) + 1
  BY <1>2, <1>3, FS_AddElement
<1>5. QED
  BY <1>2, <1>3, <1>4

LEMMA StreamStep ==
  ASSUME TypeOK, \A c \in Call : CallInv(c) /\ StreamInv(c), [Next]_vars,
         NEW d \in Call
  PROVE  StreamInv(d)'
<1> USE DEF StreamInv, handlerVars
<1>1. CASE \/ Tick \/ ExpireAssignments
           \/ \E t \in Ticket : Assign(t)
           \/ \E c \in Call : Timeout(c) \/ \E n \in Positions(c) :
                                              Poll(c, n) \/ SendOnClosed(c, n)
           \/ UNCHANGED vars
  <2>1. UNCHANGED <<ids, taken, streamed, open>>
    BY <1>1 DEF Tick, ExpireAssignments, Assign, Timeout, Poll, SendOnClosed, vars
  <2>2. QED
    BY <2>1 DEF TakenFor
<1>2. ASSUME NEW c \in Call, NEW req \in Request, Watch(c, req)
      PROVE  StreamInv(d)'
  <2>1. /\ streamed' = streamed /\ taken' = taken /\ open' = open
        /\ ids'[d] = ids[d] \/ taken[d] = {}
    BY <1>2 DEF Watch, TypeOK, CallInv
  <2>2. \A t \in Ticket : TakenFor(d, t)' = TakenFor(d, t)
    BY <2>1 DEF TakenFor
  <2>3. QED
    BY <2>1, <2>2
<1>3. ASSUME NEW c \in Call, ClientLeaves(c) PROVE StreamInv(d)'
  <2>1. UNCHANGED <<ids, taken, streamed>> /\ (open'[d] => open[d])
    BY <1>3 DEF ClientLeaves, TypeOK
  <2>2. QED
    BY <2>1 DEF TakenFor
<1>4. ASSUME NEW c \in Call, NEW n \in Positions(c), Receive(c, n)
      PROVE  StreamInv(d)'
  <2>1. CASE d # c
    <3>1. /\ ids'[d] = ids[d] /\ taken'[d] = taken[d]
          /\ streamed'[d] = streamed[d] /\ open'[d] = open[d]
      BY <1>4, <2>1 DEF Receive, TypeOK
    <3>2. \A t \in Ticket : TakenFor(d, t)' = TakenFor(d, t)
      BY <3>1 DEF TakenFor
    <3>3. QED
      BY <3>1, <3>2
  <2>2. CASE d = c
    <3> SUFFICES ASSUME open'[c], NEW t \in Ticket
                 PROVE  Occurrences(streamed'[c], t) = Cardinality(TakenFor(c, t)')
      BY <2>2
    <3>1. /\ ids'[c] = ids[c] /\ taken'[c] = taken[c] \cup {n} /\ open[c]
          /\ streamed'[c] = Append(streamed[c], ids[c][n])
      BY <1>4 DEF Receive, TypeOK
    <3>2. n \notin taken[c]
      BY <1>4 DEF Receive, Sending, CallInv
    <3>3. streamed[c] \in Seq(Ticket) /\ ids[c][n] \in Ticket
      BY Positions1N DEF TypeOK
    <3>4. Occurrences(streamed'[c], t) =
            Occurrences(streamed[c], t) + (IF ids[c][n] = t THEN 1 ELSE 0)
      BY <3>1, <3>3, OccurrencesAppend
    <3>5. Cardinality(TakenFor(c, t)') =
            Cardinality(TakenFor(c, t)) + (IF ids[c][n] = t THEN 1 ELSE 0)
      BY <3>1, <3>2, TakenForGrows
    <3>6. Occurrences(streamed[c], t) = Cardinality(TakenFor(c, t))
      BY <3>1
    <3>7. QED
      BY <3>4, <3>5, <3>6
  <2>3. QED
    BY <2>1, <2>2
<1>5. QED
  BY <1>1, <1>2, <1>3, <1>4 DEF Next

-----------------------------------------------------------------------------
\* The end of the process.

LEMMA PanicStep == IInv /\ [Next]_vars => PanicsOnlyAfterTimeout'
<1> SUFFICES ASSUME IInv, [Next]_vars, crashed' PROVE PanicsOnlyAfterTimeout'
  BY DEF PanicsOnlyAfterTimeout
<1>1. CASE crashed
  <2>1. UNCHANGED vars
    BY <1>1 DEF Next, Tick, ExpireAssignments, Assign, Watch, ClientLeaves, Timeout,
                Receive, Poll, SendOnClosed
  <2>2. QED
    BY <1>1, <2>1 DEF IInv, PanicsOnlyAfterTimeout, vars, handlerVars, Returned,
                      Sending, Positions
<1>2. CASE ~ crashed
  <2>1. PICK c \in Call : \E n \in Positions(c) : SendOnClosed(c, n)
    BY <1>2 DEF Next, Tick, ExpireAssignments, Assign, Watch, ClientLeaves, Timeout,
                Receive, Poll, vars
  <2> PICK n \in Positions(c) : SendOnClosed(c, n)
    BY <2>1
  <2>2. Sending(c, n) /\ Returned(c) /\ UNCHANGED <<now, handlerVars, watcher>>
    BY DEF SendOnClosed
  <2>3. n \notin taken[c] /\ CallInv(c)
    BY <2>2 DEF IInv, CallInv, Sending
  <2>4. now >= deadline[c] /\ now \in Int /\ deadline[c] \in Int
    BY <2>2, <2>3 DEF CallInv, IInv, TypeOK
  <2>5. QED
    BY <2>2, <2>3, <2>4 DEF PanicsOnlyAfterTimeout, handlerVars, Returned, Sending,
                            Positions
<1>3. QED
  BY <1>1, <1>2

-----------------------------------------------------------------------------
\* The clock, the assignments, the calls and their goroutines keep their types, and
\* each call has one goroutine for each position of its request.
THEOREM WatchTypeCorrect == Spec => []TypeOK
<1>1. QED
  BY TypeInit, TypeStep, PTL DEF Spec

LEMMA InductiveInvariant == Spec => []IInv
<1>1. Init => IInv
  <2> SUFFICES ASSUME Init PROVE IInv
    OBVIOUS
  <2>1. \A c \in Call : CallInv(c)
    BY DEF Init, CallInv, Returned, Positions
  <2>2. ASSUME NEW c \in Call, NEW t \in Ticket
        PROVE  Occurrences(streamed[c], t) = Cardinality(TakenFor(c, t))
    <3>1. {n \in DOMAIN streamed[c] : streamed[c][n] = t} = {} /\ TakenFor(c, t) = {}
      BY DEF Init, TakenFor
    <3>2. QED
      BY <3>1 DEF Occurrences
  <2>3. PanicsOnlyAfterTimeout
    BY DEF Init, PanicsOnlyAfterTimeout
  <2>4. QED
    BY <2>1, <2>2, <2>3, TypeInit DEF IInv, StreamInv
<1>2. IInv /\ [Next]_vars => IInv'
  BY TypeStep, CallStep, StreamStep, PanicStep DEF IInv
<1>3. QED
  BY <1>1, <1>2, PTL DEF Spec

\* A handler that returns before its timeout has streamed an assignment for each
\* position of its request to a client that stayed.
THEOREM EarlyReturnsAreComplete == Spec => []EarlyReturnIsComplete
<1>1. IInv => EarlyReturnIsComplete
  <2> SUFFICES ASSUME IInv, NEW c \in Call, Returned(c), open[c], now < deadline[c],
                      NEW t \in Ticket
               PROVE  Occurrences(streamed[c], t) = Occurrences(ids[c], t)
    BY DEF EarlyReturnIsComplete
  <2>1. taken[c] = Positions(c)
    BY DEF IInv, CallInv, TypeOK
  <2>2. Cardinality(TakenFor(c, t)) = Occurrences(ids[c], t)
    BY <2>1 DEF TakenFor, Occurrences, Positions
  <2>3. QED
    BY <2>2 DEF IInv, StreamInv
<1>2. QED
  BY <1>1, InductiveInvariant, PTL

\* A call never gives up on a ticket that is younger, going by its id, than the time
\* to live.
THEOREM GivesUpOnlyOnOldTickets == Spec => []GivesUpAfterTTL
<1>1. IInv => GivesUpAfterTTL
  <2> SUFFICES ASSUME IInv, NEW c \in Call, NEW n \in Positions(c), Returned(c),
                      n \notin taken[c]
               PROVE  now - Ctime[ids[c][n]] >= TTL
    BY DEF GivesUpAfterTTL
  <2>1. now >= deadline[c] /\ deadline[c] >= Ctime[ids[c][n]] + TTL
    BY DEF IInv, CallInv, Returned
  <2>2. /\ now \in Int /\ deadline[c] \in Int /\ TTL \in Int
        /\ Ctime[ids[c][n]] \in Int
    BY Positions1N, WatchAssumption DEF IInv, TypeOK
  <2>3. QED
    BY <2>1, <2>2
<1>2. QED
  BY <1>1, InductiveInvariant, PTL

\* Nothing but an assignment that arrives after a call's timeout makes a goroutine
\* of WatchAssignments panic.
THEOREM OnlyLateAssignmentsPanic == Spec => []PanicsOnlyAfterTimeout
<1>1. IInv => PanicsOnlyAfterTimeout
  BY DEF IInv
<1>2. QED
  BY <1>1, InductiveInvariant, PTL

=============================================================================
