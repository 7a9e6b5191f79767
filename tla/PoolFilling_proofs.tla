-------------------------- MODULE PoolFilling_proofs ------------------------
(***************************************************************************)
(* What CreateTicket and the filling of pools promise, for any tickets,    *)
(* pools, filters and sizes, however the clock advances between the steps  *)
(* of a validation, and in whatever order tickets and pools are visited.   *)
(*                                                                         *)
(* Each look at the clock is no earlier than the one before, so a creation *)
(* time that is not after the first look is neither after the limit made   *)
(* of the second nor after an expiration time that the third allows.       *)
(*                                                                         *)
(* Packing keeps the books: a ticket that a pool wants is either still to  *)
(* be packed or stands at exactly one place in the chunks (PackedOK).  A   *)
(* pool object shows the roster of the last of its chunks that was built   *)
(* (BuiltOK), which is the roster of the pool if it has only one.          *)
(* The sizes counted while packing are those of the chunks (SizesOK).      *)
(*                                                                         *)
(* The filter package's table of test cases is about tickets and filters   *)
(* alone.  What the filters say of a ticket is what arrives at the MMFs,   *)
(* and the creation time the ticket is admitted with does not matter to    *)
(* any case if the clock is past the times in the table.                   *)
(***************************************************************************)
EXTENDS PoolFilling, FilterTestCases, FiniteSetTheorems, TLAPS

-----------------------------------------------------------------------------
\* The inductive invariant.

\* The times set by the steps of the validation that a ticket has passed.
ValidationOK(t) ==
  /\ ticket[t].step \in {"stamped", "limited", "admitted"} =>
       ticket[t].created \in Int /\ ticket[t].created <= now
  /\ ticket[t].step \in {"limited", "admitted"} =>
       /\ ticket[t].limit \in Int
       /\ ticket[t].created <= ticket[t].limit
       /\ Start <= ticket[t].limit /\ ticket[t].limit <= now + TTL
  /\ ticket[t].step = "admitted" =>
       /\ ticket[t].expires \in Int
       /\ ticket[t].created <= ticket[t].expires
       /\ Start <= ticket[t].expires /\ ticket[t].expires <= now + TTL

ValidatedTicket ==
  [step : {"received", "stamped", "limited", "admitted", "refused"},
   created : Times, limit : Times, expires : Times]

TicketsOK ==
  /\ now \in Start .. End
  /\ scenario \in Scenario
  /\ ticket \in [Tickets -> ValidatedTicket]
  /\ \A t \in Tickets : ValidationOK(t)

\* The rosters of some pools.
Chunk == UNION {[D -> Seq(active) \ {<< >>}] : D \in SUBSET Pools}

\* The pairs that pass the filters.
Wanted ==
  {p \in active \X ValidPools : In(scenario.pools[p[2]], Attributes(p[1]))}

\* Ticket t is the i-th of the roster of pool n in chunk k.
At(k, i, n, t) ==
  /\ k \in 1 .. Len(chunks)
  /\ n \in DOMAIN chunks[k]
  /\ i \in 1 .. Len(chunks[k][n])
  /\ chunks[k][n][i] = t

StageOK ==
  /\ active \subseteq Admitted
  /\ todo \subseteq Wanted
  /\ chunks \in Seq(Chunk)
  /\ built \in Seq(SUBSET Pools)
  /\ stage \in {"start", "pack", "build", "built", "refused"}
  /\ stage \in {"start", "refused"} => active = {} /\ chunks = << >>
  /\ stage = "pack" => Len(chunks) >= 1
  /\ stage \in {"start", "refused", "pack"} => built = << >>
  /\ stage \in {"build", "built"} => todo = {}
  /\ stage = "build" => Len(built) < Len(chunks)
  /\ stage = "built" => Len(built) = Len(chunks)
  /\ curChunkSize \in Nat

PackedOK ==
  \A t \in active, n \in Pools :
    /\ <<t, n>> \in Wanted \ todo <=> \E k, i \in Nat : At(k, i, n, t)
    /\ \A j, h, k, i \in Nat : At(j, h, n, t) /\ At(k, i, n, t) => j = k /\ h = i

BuiltOK ==
  /\ DOMAIN participants \subseteq Pools
  /\ \A k \in 1 .. Len(built) :
       /\ built[k] = DOMAIN chunks[k]
       /\ built[k] \subseteq DOMAIN participants
       /\ \A n \in built[k] :
            (\A j \in 1 .. Len(built) : k < j => n \notin DOMAIN chunks[j])
              => participants[n] = chunks[k][n]

IInv == TicketsOK /\ StageOK /\ PackedOK /\ BuiltOK

-----------------------------------------------------------------------------
\* Validation.

LEMMA ScenarioProperties ==
  ASSUME scenario \in Scenario
  PROVE  /\ \A t \in Tickets : /\ scenario.creates[t].attributes.created \in Times
                               /\ scenario.creates[t].expires \in Times
                               /\ scenario.size[t] \in Nat
         /\ scenario.emptySize \in Nat
  BY PoolAssumption DEF ScenarioType, Tickets

LEMMA TicketsInit == Init => TicketsOK
<1> SUFFICES ASSUME Init PROVE TicketsOK
  OBVIOUS
<1>1. now \in Start .. End /\ scenario \in Scenario
  BY PoolAssumption DEF Init
<1>2. ticket \in [Tickets -> ValidatedTicket]
  BY DEF Init, ValidatedTicket, Times
<1>3. \A t \in Tickets : ValidationOK(t)
  BY DEF Init, ValidationOK
<1>4. QED
  BY <1>1, <1>2, <1>3 DEF TicketsOK

\* A step of a validation leaves the other tickets alone, and admitted ones too.
LEMMA CreateStep ==
  ASSUME TicketsOK, NEW t \in Tickets, Create(t)
  PROVE  /\ UNCHANGED <<now, scenario, invokeVars>> /\ Tickets' = Tickets
         /\ \E v \in ValidatedTicket : ticket' = [ticket EXCEPT ![t] = v]
         /\ \A u \in Tickets : u # t => ticket'[u] = ticket[u]
         /\ ticket[t].step \notin {"admitted", "refused"}
         /\ ValidationOK(t)'
<1>1. UNCHANGED <<now, scenario, invokeVars>> /\ Tickets' = Tickets
  BY DEF Create, SetCreationTime, SetMaxExpiration, CheckExpiration, Tickets
<1>2. /\ ticket \in [Tickets -> ValidatedTicket] /\ ticket[t] \in ValidatedTicket
      /\ now \in Int /\ Start <= now /\ TTL \in Nat /\ Start \in Int /\ End \in Int
      /\ ValidationOK(t)
  BY PoolAssumption DEF TicketsOK
<1>3. /\ scenario.creates[t].attributes.created \in Times
      /\ scenario.creates[t].expires \in Times
  BY ScenarioProperties DEF TicketsOK
<1>4. Absent \notin Int /\ Invalid \notin Int
  BY FilterAssumption
<1>5. CASE SetCreationTime(t)
  <2>1. CreationTime(t) \in Int /\ CreationTime(t) <= now
    BY <1>2, <1>3, <1>4 DEF CreationTime, Times
  <2>2. /\ ticket[t].step = "received"
        /\ ticket' = [ticket EXCEPT ![t] =
                        [ticket[t] EXCEPT !.created = CreationTime(t), !.step = "stamped"]]
    BY <1>2, <1>5 DEF SetCreationTime
  <2> DEFINE v == [ticket[t] EXCEPT !.created = CreationTime(t), !.step = "stamped"]
  <2>3. /\ v \in ValidatedTicket /\ v.step = "stamped" /\ v.created = CreationTime(t)
    BY <1>2, <2>1 DEF ValidatedTicket, Times
  <2> HIDE DEF v
  <2>4. ticket'[t] = v /\ \A u \in Tickets : u # t => ticket'[u] = ticket[u]
    BY <1>2, <2>2 DEF v
  <2>5. ValidationOK(t)'
    BY <1>1, <2>1, <2>3, <2>4 DEF ValidationOK
  <2>6. QED
    BY <1>1, <2>2, <2>3, <2>4, <2>5 DEF v
<1>6. CASE SetMaxExpiration(t)
  <2> DEFINE v == [ticket[t] EXCEPT !.limit = now + TTL, !.step = "limited"]
  <2>1. ticket[t].step = "stamped" /\ ticket' = [ticket EXCEPT ![t] = v]
    BY <1>2, <1>6 DEF SetMaxExpiration
  <2> DEFINE limit == now + TTL
  <2>2. /\ v \in ValidatedTicket /\ v.step = "limited" /\ v.created = ticket[t].created
        /\ v.limit = now + TTL
    <3>1. limit \in Times
      BY <1>2 DEF Times
    <3> HIDE DEF limit
    <3>2. v = [ticket[t] EXCEPT !.limit = limit, !.step = "limited"]
      BY DEF limit
    <3>3. QED
      BY <1>2, <3>1, <3>2 DEF ValidatedTicket, limit
  <2> HIDE DEF v
  <2>3. ticket'[t] = v /\ \A u \in Tickets : u # t => ticket'[u] = ticket[u]
    BY <1>2, <2>1
  <2>4. ticket[t].created \in Int /\ ticket[t].created <= now
    BY <1>2, <2>1 DEF ValidationOK
  <2>5. ValidationOK(t)'
    BY <1>1, <1>2, <2>2, <2>3, <2>4 DEF ValidationOK
  <2>6. QED
    BY <1>1, <2>1, <2>2, <2>3, <2>5
<1>7. CASE CheckExpiration(t)
  <2> DEFINE asked == scenario.creates[t].expires
             admit(e) == [ticket[t] EXCEPT !.expires = e, !.step = "admitted"]
             refuse == [ticket[t] EXCEPT !.step = "refused"]
  <2>1. /\ ticket[t].step = "limited"
        /\ \/ asked = Absent /\ ticket' = [ticket EXCEPT ![t] = admit(ticket[t].limit)]
           \/ /\ asked # Absent /\ AllowedExpiration(t, asked)
              /\ ticket' = [ticket EXCEPT ![t] = admit(asked)]
           \/ ticket' = [ticket EXCEPT ![t] = refuse]
    BY <1>2, <1>7 DEF CheckExpiration
  <2>2. /\ ticket[t].created \in Int /\ ticket[t].created <= now
        /\ ticket[t].limit \in Int /\ ticket[t].created <= ticket[t].limit
        /\ Start <= ticket[t].limit /\ ticket[t].limit <= now + TTL
    BY <1>2, <2>1 DEF ValidationOK
  <2>3. ASSUME NEW e \in Int, ticket[t].created <= e, Start <= e, e <= now + TTL,
               ticket' = [ticket EXCEPT ![t] = admit(e)]
        PROVE  /\ \E v \in ValidatedTicket : ticket' = [ticket EXCEPT ![t] = v]
               /\ \A u \in Tickets : u # t => ticket'[u] = ticket[u]
               /\ ValidationOK(t)'
    <3> DEFINE v == admit(e)
    <3>1. /\ v \in ValidatedTicket /\ v.step = "admitted" /\ v.expires = e
          /\ v.created = ticket[t].created /\ v.limit = ticket[t].limit
      BY <1>2 DEF ValidatedTicket, Times
    <3>2. ticket' = [ticket EXCEPT ![t] = v]
      BY <2>3
    <3> HIDE DEF v
    <3>3. ticket'[t] = v /\ \A u \in Tickets : u # t => ticket'[u] = ticket[u]
      BY <1>2, <3>2
    <3>4. ValidationOK(t)'
      BY <1>1, <2>2, <2>3, <3>1, <3>3 DEF ValidationOK
    <3>5. QED
      BY <3>1, <3>2, <3>3, <3>4
  <2>4. CASE asked = Absent /\ ticket' = [ticket EXCEPT ![t] = admit(ticket[t].limit)]
    <3>1. ticket[t].limit \in Int
      BY <2>2
    <3>2. QED
      BY <1>1, <2>1, <2>2, <2>3, <2>4, <3>1
  <2>5. CASE /\ asked # Absent /\ AllowedExpiration(t, asked)
             /\ ticket' = [ticket EXCEPT ![t] = admit(asked)]
    <3>1. asked \in Int /\ asked <= ticket[t].limit /\ asked >= now
      BY <1>3, <2>5 DEF AllowedExpiration, Times
    <3>2. ticket[t].created <= asked /\ Start <= asked /\ asked <= now + TTL
      BY <1>2, <2>2, <3>1
    <3>3. QED
      BY <1>1, <2>1, <2>3, <2>5, <3>1, <3>2
  <2>6. CASE ticket' = [ticket EXCEPT ![t] = refuse]
    <3>1. refuse \in ValidatedTicket /\ refuse.step = "refused"
      BY <1>2 DEF ValidatedTicket
    <3> HIDE DEF refuse
    <3>2. ticket'[t] = refuse /\ \A u \in Tickets : u # t => ticket'[u] = ticket[u]
      BY <1>2, <2>6
    <3>3. ValidationOK(t)'
      BY <3>1, <3>2 DEF ValidationOK
    <3>4. QED
      BY <1>1, <2>1, <2>6, <3>1, <3>2, <3>3
  <2>7. QED
    BY <2>1, <2>4, <2>5, <2>6
<1>8. QED
  BY <1>5, <1>6, <1>7 DEF Create

\* A step of InvokeMatchmakingFunctions.
Invoke ==
  \/ RefuseRequest \/ StartPacking \/ StartBuilding \/ Build
  \/ \E t \in Tickets, n \in Pools : Pack(t, n)

LEMMA TicketsStep == TicketsOK /\ [Next]_vars => TicketsOK'
<1> SUFFICES ASSUME TicketsOK, [Next]_vars PROVE TicketsOK'
  OBVIOUS
<1>1. CASE Tick
  <2>1. /\ now' = now + 1 /\ now' \in Start .. End /\ now \in Int
        /\ UNCHANGED <<scenario, ticket>>
    BY <1>1, PoolAssumption DEF Tick, TicketsOK
  <2>2. ASSUME NEW t \in Tickets PROVE ValidationOK(t)'
    <3>1. ValidationOK(t) /\ TTL \in Nat
      BY PoolAssumption DEF TicketsOK
    <3>2. QED
      BY <2>1, <3>1 DEF ValidationOK
  <2>3. QED
    BY <2>1, <2>2 DEF TicketsOK, Tickets
<1>2. ASSUME NEW t \in Tickets, Create(t) PROVE TicketsOK'
  <2>1. /\ UNCHANGED <<now, scenario>> /\ Tickets' = Tickets
        /\ ticket' \in [Tickets -> ValidatedTicket]
        /\ \A u \in Tickets : u # t => ticket'[u] = ticket[u]
        /\ ValidationOK(t)'
    BY <1>2, CreateStep DEF TicketsOK
  <2>2. ASSUME NEW u \in Tickets, u # t PROVE ValidationOK(u)'
    <3>1. ValidationOK(u) /\ ticket'[u] = ticket[u]
      BY <2>1, <2>2 DEF TicketsOK
    <3>2. QED
      BY <2>1, <3>1 DEF ValidationOK
  <2>3. QED
    BY <2>1, <2>2 DEF TicketsOK
<1>3. CASE Invoke \/ UNCHANGED vars
  <2>1. UNCHANGED <<now, scenario, ticket>>
    BY <1>3 DEF Invoke, RefuseRequest, StartPacking, StartBuilding, Build, Pack, vars,
           createVars
  <2>2. QED
    BY <2>1 DEF TicketsOK, Tickets, ValidationOK
<1>4. QED
  BY <1>1, <1>2, <1>3 DEF Next, Invoke

\* filter.go:55.  Whatever the client asks for and however time passes between the
\* looks at the clock, the times of an admitted ticket are in order and in their
\* bounds.
THEOREM AdmittedTimesAreSound == Spec => []AdmittedTimesSound
<1>1. TicketsOK => AdmittedTimesSound
  BY FilterAssumption DEF TicketsOK, ValidationOK, AdmittedTimesSound, Admitted
<1>2. QED
  BY <1>1, TicketsInit, TicketsStep, PTL DEF Spec

-----------------------------------------------------------------------------
\* Packing.

LEMMA AddToRoster ==
  ASSUME NEW chunk \in Chunk, NEW n \in Pools, NEW t \in active
  PROVE  /\ AddTo(chunk, n, t) \in Chunk
         /\ DOMAIN AddTo(chunk, n, t) = DOMAIN chunk \cup {n}
         /\ \A m \in DOMAIN chunk : m # n => AddTo(chunk, n, t)[m] = chunk[m]
         /\ n \in DOMAIN chunk =>
              AddTo(chunk, n, t)[n] = Append(chunk[n], t)
         /\ n \notin DOMAIN chunk => AddTo(chunk, n, t)[n] = <<t>>
<1> DEFINE new == AddTo(chunk, n, t)
           roster == IF n \in DOMAIN chunk THEN chunk[n] ELSE << >>
<1>1. /\ DOMAIN chunk \subseteq Pools
      /\ \A m \in DOMAIN chunk : chunk[m] \in Seq(active) \ {<< >>}
  BY DEF Chunk
<1>2. roster \in Seq(active)
  BY <1>1
<1>3. Append(roster, t) \in Seq(active) \ {<< >>} /\ Append(<< >>, t) = <<t>>
  <2> HIDE DEF roster
  <2>1. Append(roster, t) \in Seq(active) /\ Len(Append(roster, t)) = Len(roster) + 1
    BY <1>2
  <2>2. Len(roster) \in Nat
    BY <1>2
  <2>3. Append(roster, t) # << >>
    BY <2>1, <2>2
  <2>4. QED
    BY <2>1, <2>3
<1>4. new = [m \in DOMAIN chunk \cup {n} |->
               IF m = n THEN Append(roster, t) ELSE chunk[m]]
  BY DEF AddTo
<1> HIDE DEF new, roster
<1>5. DOMAIN new = DOMAIN chunk \cup {n} /\ new[n] = Append(roster, t)
  BY <1>4
<1>6. \A m \in DOMAIN chunk : m # n => new[m] = chunk[m]
  BY <1>4
<1>7. new \in [DOMAIN chunk \cup {n} -> Seq(active) \ {<< >>}]
  BY <1>1, <1>3, <1>4
<1>8. new \in Chunk
  BY <1>1, <1>7 DEF Chunk
<1>9. QED
  BY <1>3, <1>5, <1>6, <1>8 DEF new, roster

LEMMA StageInit == Init => StageOK /\ PackedOK /\ BuiltOK
<1> SUFFICES ASSUME Init PROVE StageOK /\ PackedOK /\ BuiltOK
  OBVIOUS
<1>1. StageOK
  <2>1. scenario.emptySize \in Nat
    BY ScenarioProperties DEF Init
  <2>2. QED
    BY <2>1 DEF Init, StageOK
<1>2. PackedOK /\ BuiltOK
  BY DEF Init, PackedOK, BuiltOK
<1>3. QED
  BY <1>1, <1>2

\* What is wanted is settled with the choice of the active tickets.
LEMMA WantedKept ==
  ASSUME UNCHANGED <<scenario, active>>,
         \A t \in active : ticket'[t].created = ticket[t].created
  PROVE  Wanted' = Wanted /\ Pools' = Pools /\ ValidPools' = ValidPools
<1>1. Pools' = Pools /\ ValidPools' = ValidPools
  BY DEF Pools, ValidPools
<1>2. \A t \in active : Attributes(t)' = Attributes(t)
  BY DEF Attributes
<1>3. QED
  BY <1>1, <1>2 DEF Wanted

\* Whatever leaves what was packed and built as it is.
LEMMA BooksKept ==
  ASSUME StageOK, PackedOK, BuiltOK, Wanted' = Wanted, Pools' = Pools,
         UNCHANGED <<active, todo, chunks, curChunkSize, participants, built>>
  PROVE  /\ PackedOK' /\ BuiltOK'
         /\ UNCHANGED stage /\ Admitted \subseteq Admitted' => StageOK'
<1>1. PackedOK'
  <2>1. \A k, i, n, t : At(k, i, n, t)' <=> At(k, i, n, t)
    BY DEF At
  <2>2. QED
    BY <2>1 DEF PackedOK
<1>2. BuiltOK'
  BY DEF BuiltOK
<1>3. Chunk' = Chunk
  BY DEF Chunk
<1>4. UNCHANGED stage /\ Admitted \subseteq Admitted' => StageOK'
  BY <1>3 DEF StageOK
<1>5. QED
  BY <1>1, <1>2, <1>4

LEMMA ValidationKeepsBooks ==
  ASSUME TicketsOK, StageOK, PackedOK, BuiltOK,
         Tick \/ (\E t \in Tickets : Create(t)) \/ UNCHANGED vars
  PROVE  StageOK' /\ PackedOK' /\ BuiltOK'
<1>1. /\ UNCHANGED <<scenario, invokeVars>> /\ Tickets' = Tickets
      /\ \A u \in Admitted : ticket'[u] = ticket[u]
  <2>1. CASE Tick \/ UNCHANGED vars
    BY <2>1 DEF Tick, vars, createVars, Tickets
  <2>2. ASSUME NEW t \in Tickets, Create(t)
        PROVE  /\ UNCHANGED <<scenario, invokeVars>> /\ Tickets' = Tickets
               /\ \A u \in Admitted : ticket'[u] = ticket[u]
    BY <2>2, CreateStep DEF Admitted
  <2>3. QED
    BY <2>1, <2>2
<1>2. UNCHANGED <<stage, active, todo, chunks, curChunkSize, participants, built>>
  BY <1>1 DEF invokeVars
<1>3. Admitted \subseteq Admitted'
  BY <1>1 DEF Admitted
<1>4. Wanted' = Wanted /\ Pools' = Pools
  <2>1. \A t \in active : ticket'[t].created = ticket[t].created
    BY <1>1 DEF StageOK
  <2>2. QED
    BY <1>1, <1>2, <2>1, WantedKept
<1>5. QED
  BY <1>2, <1>3, <1>4, BooksKept

\* The steps before anything is packed.
LEMMA StartKeepsBooks ==
  ASSUME TicketsOK, StageOK, PackedOK, BuiltOK, RefuseRequest \/ StartPacking
  PROVE  StageOK' /\ PackedOK' /\ BuiltOK'
<1>1. /\ stage = "start" /\ UNCHANGED <<scenario, now, ticket, participants, built>>
      /\ active = {} /\ chunks = << >> /\ built = << >>
  BY DEF RefuseRequest, StartPacking, createVars, StageOK
<1>2. Pools' = Pools /\ ValidPools' = ValidPools /\ Admitted' = Admitted
  BY <1>1 DEF Pools, ValidPools, Admitted, Tickets
<1>3. BuiltOK'
  <2>1. DOMAIN participants \subseteq Pools
    BY DEF BuiltOK
  <2>2. QED
    BY <1>1, <1>2, <2>1 DEF BuiltOK
<1>4. CASE RefuseRequest
  <2>1. /\ UNCHANGED <<active, todo, chunks, curChunkSize, participants, built>>
        /\ stage' = "refused"
    BY <1>4 DEF RefuseRequest
  <2>2. Wanted' = Wanted
    BY <1>1, <2>1, WantedKept
  <2>3. PackedOK'
    BY <1>2, <2>1, <2>2, BooksKept
  <2>4. Chunk' = Chunk
    BY <1>2, <2>1 DEF Chunk
  <2>5. StageOK'
    BY <1>1, <1>2, <2>1, <2>2, <2>4 DEF StageOK
  <2>6. QED
    BY <1>3, <2>3, <2>5
<1>5. CASE StartPacking
  <2>1. /\ active' \subseteq Admitted /\ stage' = "pack" /\ chunks' = << << >> >>
        /\ curChunkSize' = scenario.emptySize
        /\ todo' = {p \in active' \X ValidPools :
                      In(scenario.pools[p[2]], Attributes(p[1]))}
    BY <1>5 DEF StartPacking
  <2>2. todo' = Wanted'
    <3>1. \A t : Attributes(t)' = Attributes(t)
      BY <1>1 DEF Attributes
    <3>2. QED
      BY <1>1, <1>2, <2>1, <3>1 DEF Wanted
  <2>3. \A k, i, n, t : ~ At(k, i, n, t)'
    BY <2>1 DEF At
  <2>4. PackedOK'
    BY <2>2, <2>3 DEF PackedOK
  <2>5. chunks' \in Seq(Chunk') /\ Len(chunks') = 1
    <3>1. << >> \in Chunk'
      <4>1. << >> \in [{} -> (Seq(active) \ {<< >>})'] /\ {} \in SUBSET Pools'
        OBVIOUS
      <4>2. QED
        BY <4>1 DEF Chunk
    <3>2. QED
      BY <2>1, <3>1
  <2>6. curChunkSize' \in Nat
    BY <2>1, ScenarioProperties DEF TicketsOK
  <2>7. StageOK'
    BY <1>1, <1>2, <2>1, <2>2, <2>5, <2>6 DEF StageOK
  <2>8. QED
    BY <1>3, <2>4, <2>7
<1>6. QED
  BY <1>4, <1>5

\* A step of packing puts the ticket at one new place, and nothing else changes.
LEMMA PackPlaces ==
  ASSUME TicketsOK, StageOK, NEW t \in Tickets, NEW n \in Pools, Pack(t, n)
  PROVE  /\ t \in active /\ chunks' \in Seq(Chunk) /\ Len(chunks') >= 1
         /\ \E k0, i0 \in Nat : \A k, i \in Nat, m \in Pools, u \in active :
              At(k, i, m, u)' <=> \/ At(k, i, m, u)
                                  \/ k = k0 /\ i = i0 /\ m = n /\ u = t
<1>1. /\ t \in active /\ chunks \in Seq(Chunk) /\ Len(chunks) \in Nat
      /\ Len(chunks) >= 1
  BY DEF StageOK, Pack, Wanted
<1>2. /\ \A k \in 1 .. Len(chunks) : chunks[k] \in Chunk
      /\ \A chunk \in Chunk : \A m \in DOMAIN chunk : chunk[m] \in Seq(active)
  BY <1>1 DEF Chunk
<1>3. CASE Full(t)
  <2> DEFINE fresh == AddTo(<< >>, n, t)
             k0 == Len(chunks) + 1
  <2>1. << >> \in Chunk
    <3>1. << >> \in [{} -> Seq(active) \ {<< >>}] /\ {} \in SUBSET Pools
      OBVIOUS
    <3>2. QED
      BY <3>1 DEF Chunk
  <2>2. fresh \in Chunk /\ DOMAIN fresh = {n} /\ fresh[n] = <<t>>
    <3>1. DOMAIN << >> = {}
      OBVIOUS
    <3>2. QED
      BY <1>1, <2>1, <3>1, AddToRoster
  <2>3. chunks' = Append(chunks, fresh)
    BY <1>3 DEF Pack
  <2> HIDE DEF fresh
  <2>4. /\ chunks' \in Seq(Chunk) /\ Len(chunks') = k0 /\ chunks'[k0] = fresh
        /\ \A k \in 1 .. Len(chunks) : chunks'[k] = chunks[k]
    BY <1>1, <2>2, <2>3
  <2>5. ASSUME NEW k \in Nat, NEW i \in Nat, NEW m \in Pools, NEW u \in active
        PROVE  At(k, i, m, u)' <=> \/ At(k, i, m, u)
                                   \/ k = k0 /\ i = 1 /\ m = n /\ u = t
    <3>1. CASE k = k0
      BY <1>1, <2>2, <2>4, <3>1 DEF At
    <3>2. CASE k # k0
      <4>1. k \in 1 .. Len(chunks') <=> k \in 1 .. Len(chunks)
        BY <1>1, <2>4, <3>2
      <4>2. QED
        BY <2>4, <3>2, <4>1 DEF At
    <3>3. QED
      BY <3>1, <3>2
  <2>6. k0 \in Nat /\ k0 >= 1
    BY <1>1
  <2> HIDE DEF k0
  <2>7. \E h0, i0 \in Nat : \A k, i \in Nat, m \in Pools, u \in active :
          At(k, i, m, u)' <=> \/ At(k, i, m, u)
                              \/ k = h0 /\ i = i0 /\ m = n /\ u = t
    <3>1. k0 \in Nat /\ 1 \in Nat
      BY <2>6
    <3> USE <3>1
    <3> WITNESS k0 \in Nat, 1 \in Nat
    <3>2. QED
      BY <2>5
  <2>8. QED
    BY <1>1, <2>4, <2>6, <2>7
<1>4. CASE ~ Full(t)
  <2> DEFINE k0 == Len(chunks)
             chunk == chunks[k0]
             new == AddTo(chunk, n, t)
             i0 == IF n \in DOMAIN chunk THEN Len(chunk[n]) + 1 ELSE 1
  <2>1. chunk \in Chunk /\ k0 \in 1 .. Len(chunks) /\ k0 \in Nat
    BY <1>1, <1>2
  <2>2. /\ new \in Chunk
        /\ DOMAIN new = DOMAIN chunk \cup {n}
        /\ \A m \in DOMAIN chunk : m # n => new[m] = chunk[m]
        /\ n \in DOMAIN chunk => new[n] = Append(chunk[n], t)
        /\ n \notin DOMAIN chunk => new[n] = <<t>>
    BY <1>1, <2>1, AddToRoster
  <2>3. chunks' = [chunks EXCEPT ![k0] = new]
    BY <1>4 DEF Pack
  <2>4. n \in DOMAIN chunk => chunk[n] \in Seq(active) /\ Len(chunk[n]) \in Nat
    BY <1>2, <2>1
  <2> HIDE DEF new
  <2>5. /\ chunks' \in Seq(Chunk) /\ Len(chunks') = Len(chunks)
        /\ chunks'[k0] = new
        /\ \A k \in 1 .. Len(chunks) : k # k0 => chunks'[k] = chunks[k]
    BY <1>1, <2>1, <2>2, <2>3
  <2> HIDE DEF chunk
  <2>6. ASSUME NEW i \in Nat, NEW u \in active
        PROVE  /\ n \in DOMAIN new
               /\ i \in 1 .. Len(new[n]) /\ new[n][i] = u <=>
                    \/ n \in DOMAIN chunk /\ i \in 1 .. Len(chunk[n]) /\ chunk[n][i] = u
                    \/ i = i0 /\ u = t
    <3>1. CASE n \in DOMAIN chunk
      <4> DEFINE roster == chunk[n]
      <4>1. roster \in Seq(active) /\ Len(roster) \in Nat
        BY <2>4, <3>1
      <4>2. new[n] = Append(roster, t)
        BY <2>2, <3>1
      <4> HIDE DEF roster
      <4>3. /\ Len(new[n]) = Len(roster) + 1 /\ new[n][Len(roster) + 1] = t
            /\ \A j \in 1 .. Len(roster) : new[n][j] = roster[j]
        BY <1>1, <4>1, <4>2
      <4>4. i0 = Len(roster) + 1
        BY <3>1 DEF roster
      <4>5. i \in 1 .. Len(roster) + 1 <=> i \in 1 .. Len(roster) \/ i = Len(roster) + 1
        BY <4>1
      <4>6. Len(roster) + 1 \notin 1 .. Len(roster)
        BY <4>1
      <4> HIDE DEF i0
      <4>7. i \in 1 .. Len(new[n]) /\ new[n][i] = u <=>
              \/ i \in 1 .. Len(roster) /\ roster[i] = u
              \/ i = i0 /\ u = t
        BY <4>3, <4>4, <4>5, <4>6
      <4>8. QED
        BY <2>2, <3>1, <4>7 DEF roster
    <3>2. CASE n \notin DOMAIN chunk
      BY <2>2, <3>2
    <3>3. QED
      BY <3>1, <3>2
  <2>7. i0 \in Nat
    BY <2>4
  <2> HIDE DEF i0
  <2>8. ASSUME NEW k \in Nat, NEW i \in Nat, NEW m \in Pools, NEW u \in active
        PROVE  At(k, i, m, u)' <=> \/ At(k, i, m, u)
                                   \/ k = k0 /\ i = i0 /\ m = n /\ u = t
    <3>1. CASE k # k0
      BY <2>5, <3>1 DEF At
    <3>2. CASE k = k0 /\ m # n
      <4>1. m \in DOMAIN new <=> m \in DOMAIN chunk
        BY <2>2, <3>2
      <4>2. m \in DOMAIN chunk => new[m] = chunk[m]
        BY <2>2, <3>2
      <4>3. QED
        BY <2>1, <2>5, <3>2, <4>1, <4>2 DEF At, chunk
    <3>3. CASE k = k0 /\ m = n
      <4>1. At(k, i, m, u)' <=> i \in 1 .. Len(new[n]) /\ new[n][i] = u
        BY <2>1, <2>5, <2>6, <3>3 DEF At
      <4>2. At(k, i, m, u) <=>
              n \in DOMAIN chunk /\ i \in 1 .. Len(chunk[n]) /\ chunk[n][i] = u
        BY <2>1, <3>3 DEF At, chunk
      <4>3. QED
        BY <2>6, <3>3, <4>1, <4>2
    <3>4. QED
      BY <3>1, <3>2, <3>3
  <2>9. QED
    BY <1>1, <2>1, <2>5, <2>7, <2>8
<1>5. QED
  BY <1>3, <1>4

LEMMA PackKeepsBooks ==
  ASSUME TicketsOK, StageOK, PackedOK, BuiltOK,
         NEW t \in Tickets, NEW n \in Pools, Pack(t, n)
  PROVE  StageOK' /\ PackedOK' /\ BuiltOK'
<1>1. /\ UNCHANGED <<scenario, now, ticket, stage, active, participants, built>>
      /\ stage = "pack" /\ <<t, n>> \in todo /\ todo' = todo \ {<<t, n>>}
      /\ built = << >>
  BY DEF Pack, createVars, StageOK
<1>2. Wanted' = Wanted /\ Pools' = Pools /\ Admitted' = Admitted /\ Chunk' = Chunk
  <2>1. Wanted' = Wanted /\ Pools' = Pools
    BY <1>1, WantedKept
  <2>2. QED
    BY <1>1, <2>1 DEF Admitted, Tickets, Chunk
<1>3. /\ t \in active /\ chunks' \in Seq(Chunk) /\ Len(chunks') >= 1
      /\ \E k0, i0 \in Nat : \A k, i \in Nat, m \in Pools, u \in active :
           At(k, i, m, u)' <=> \/ At(k, i, m, u)
                               \/ k = k0 /\ i = i0 /\ m = n /\ u = t
  BY PackPlaces
<1>4. curChunkSize' \in Nat
  <2>1. curChunkSize \in Nat /\ scenario.emptySize \in Nat /\ scenario.size[t] \in Nat
    BY ScenarioProperties DEF TicketsOK, StageOK
  <2>2. QED
    BY <2>1 DEF Pack
<1>5. StageOK'
  BY <1>1, <1>2, <1>3, <1>4 DEF StageOK
<1>6. PackedOK'
  <2>1. PICK k0 \in Nat, i0 \in Nat :
          \A k, i \in Nat, m \in Pools, u \in active :
            At(k, i, m, u)' <=> \/ At(k, i, m, u)
                                \/ k = k0 /\ i = i0 /\ m = n /\ u = t
    BY <1>3
  <2>2. \A k, i \in Nat : ~ At(k, i, n, t)
    BY <1>1, <1>3 DEF PackedOK
  <2>3. <<t, n>> \in Wanted
    BY <1>1 DEF StageOK
  <2>4. ASSUME NEW u \in active, NEW m \in Pools
        PROVE  /\ <<u, m>> \in Wanted \ todo' <=> \E k, i \in Nat : At(k, i, m, u)'
               /\ \A j, h, k, i \in Nat :
                    At(j, h, m, u)' /\ At(k, i, m, u)' => j = k /\ h = i
    <3>1. /\ <<u, m>> \in Wanted \ todo <=> \E k, i \in Nat : At(k, i, m, u)
          /\ \A j, h, k, i \in Nat : At(j, h, m, u) /\ At(k, i, m, u) => j = k /\ h = i
      BY DEF PackedOK
    <3>2. CASE u = t /\ m = n
      <4>1. \A k, i \in Nat : At(k, i, m, u)' <=> k = k0 /\ i = i0
        BY <2>1, <2>2, <3>2
      <4>2. <<u, m>> \in Wanted \ todo'
        BY <1>1, <2>3, <3>2
      <4>3. QED
        BY <4>1, <4>2
    <3>3. CASE ~ (u = t /\ m = n)
      <4>1. \A k, i \in Nat : At(k, i, m, u)' <=> At(k, i, m, u)
        BY <2>1, <3>3
      <4>2. <<u, m>> \in todo' <=> <<u, m>> \in todo
        BY <1>1, <3>3
      <4>3. QED
        BY <3>1, <4>1, <4>2
    <3>4. QED
      BY <3>2, <3>3
  <2>5. QED
    BY <1>1, <1>2, <2>4 DEF PackedOK
<1>7. BuiltOK'
  BY <1>1, <1>2 DEF BuiltOK
<1>8. QED
  BY <1>5, <1>6, <1>7

\* The steps after everything is packed.
LEMMA StartBuildingKeepsBooks ==
  ASSUME StageOK, PackedOK, BuiltOK, StartBuilding
  PROVE  StageOK' /\ PackedOK' /\ BuiltOK'
<1>1. /\ UNCHANGED <<scenario, ticket, active, todo, chunks, curChunkSize,
                     participants, built>>
      /\ stage = "pack" /\ stage' = "build" /\ todo = {}
  BY DEF StartBuilding, createVars
<1>2. Wanted' = Wanted /\ Pools' = Pools /\ Admitted' = Admitted /\ Chunk' = Chunk
  <2>1. Wanted' = Wanted /\ Pools' = Pools
    BY <1>1, WantedKept
  <2>2. QED
    BY <1>1, <2>1 DEF Admitted, Tickets, Chunk
<1>3. PackedOK' /\ BuiltOK'
  BY <1>1, <1>2, BooksKept
<1>4. StageOK'
  <2>1. Len(built) < Len(chunks)
    BY <1>1 DEF StageOK
  <2>2. QED
    BY <1>1, <1>2, <2>1 DEF StageOK
<1>5. QED
  BY <1>3, <1>4

LEMMA BuildKeepsBooks ==
  ASSUME StageOK, PackedOK, BuiltOK, Build
  PROVE  StageOK' /\ PackedOK' /\ BuiltOK'
<1> DEFINE b == Len(built) + 1
           chunk == chunks[b]
<1>1. /\ UNCHANGED <<scenario, ticket, active, todo, chunks, curChunkSize>>
      /\ stage = "build" /\ participants' = Fill(participants, chunk)
      /\ built' = Append(built, DOMAIN chunk)
      /\ stage' = IF Len(built') = Len(chunks) THEN "built" ELSE "build"
  BY DEF Build, createVars
<1>2. Wanted' = Wanted /\ Pools' = Pools /\ Admitted' = Admitted /\ Chunk' = Chunk
  <2>1. Wanted' = Wanted /\ Pools' = Pools
    BY <1>1, WantedKept
  <2>2. QED
    BY <1>1, <2>1 DEF Admitted, Tickets, Chunk
<1>3. /\ chunks \in Seq(Chunk) /\ built \in Seq(SUBSET Pools)
      /\ Len(built) \in Nat /\ Len(chunks) \in Nat /\ Len(built) < Len(chunks)
      /\ b \in 1 .. Len(chunks)
  BY <1>1 DEF StageOK
<1>4. chunk \in Chunk /\ DOMAIN chunk \subseteq Pools
  <2>1. chunk \in Chunk
    BY <1>3
  <2>2. QED
    BY <2>1 DEF Chunk
<1> HIDE DEF chunk
<1>5. /\ built' \in Seq(SUBSET Pools) /\ Len(built') = b /\ built'[b] = DOMAIN chunk
      /\ \A k \in 1 .. Len(built) : built'[k] = built[k]
  BY <1>1, <1>3, <1>4
<1>6. StageOK'
  BY <1>1, <1>2, <1>3, <1>5 DEF StageOK
<1>7. PackedOK'
  <2>1. \A k, i, n, t : At(k, i, n, t)' <=> At(k, i, n, t)
    BY <1>1 DEF At
  <2>2. QED
    BY <1>1, <1>2, <2>1 DEF PackedOK
<1>8. BuiltOK'
  <2>1. /\ DOMAIN participants' = DOMAIN participants \cup DOMAIN chunk
        /\ \A n \in DOMAIN chunk : participants'[n] = chunk[n]
        /\ \A n \in DOMAIN participants \ DOMAIN chunk :
             participants'[n] = participants[n]
    BY <1>1 DEF Fill
  <2>2. DOMAIN participants \subseteq Pools
    BY DEF BuiltOK
  <2>3. ASSUME NEW k \in 1 .. b
        PROVE  /\ built'[k] = DOMAIN chunks[k]
               /\ built'[k] \subseteq DOMAIN participants'
               /\ \A n \in built'[k] :
                    (\A j \in 1 .. b : k < j => n \notin DOMAIN chunks[j])
                      => participants'[n] = chunks[k][n]
    <3>1. CASE k = b
      BY <1>5, <2>1, <3>1 DEF chunk
    <3>2. CASE k # b
      <4>1. k \in 1 .. Len(built) /\ built'[k] = built[k] /\ k < b
        BY <1>3, <1>5, <3>2
      <4>2. /\ built[k] = DOMAIN chunks[k]
            /\ built[k] \subseteq DOMAIN participants
            /\ \A n \in built[k] :
                 (\A j \in 1 .. Len(built) : k < j => n \notin DOMAIN chunks[j])
                   => participants[n] = chunks[k][n]
        BY <4>1 DEF BuiltOK
      <4>3. ASSUME NEW n \in built[k],
                   \A j \in 1 .. b : k < j => n \notin DOMAIN chunks[j]
            PROVE  participants'[n] = chunks[k][n]
        <5>1. n \notin DOMAIN chunk /\ n \in DOMAIN participants
          <6>1. b \in 1 .. b
            BY <1>3
          <6>2. QED
            BY <4>1, <4>2, <4>3, <6>1 DEF chunk
        <5>2. \A j \in 1 .. Len(built) : j \in 1 .. b
          BY <1>3
        <5>3. participants[n] = chunks[k][n]
          BY <4>2, <4>3, <5>2
        <5>4. QED
          BY <2>1, <5>1, <5>3
      <4>4. QED
        BY <2>1, <4>1, <4>2, <4>3
    <3>3. QED
      BY <3>1, <3>2
  <2>4. QED
    BY <1>1, <1>2, <1>4, <1>5, <2>1, <2>2, <2>3 DEF BuiltOK
<1>9. QED
  BY <1>6, <1>7, <1>8

LEMMA IInvInit == Init => IInv
BY TicketsInit, StageInit DEF IInv

LEMMA IInvStep == IInv /\ [Next]_vars => IInv'
<1> SUFFICES ASSUME IInv, [Next]_vars PROVE IInv'
  OBVIOUS
<1>1. TicketsOK'
  BY TicketsStep DEF IInv
<1>2. CASE Tick \/ (\E t \in Tickets : Create(t)) \/ UNCHANGED vars
  BY <1>1, <1>2, ValidationKeepsBooks DEF IInv
<1>3. CASE RefuseRequest \/ StartPacking
  BY <1>1, <1>3, StartKeepsBooks DEF IInv
<1>4. ASSUME NEW t \in Tickets, NEW n \in Pools, Pack(t, n) PROVE IInv'
  BY <1>1, <1>4, PackKeepsBooks DEF IInv
<1>5. CASE StartBuilding
  BY <1>1, <1>5, StartBuildingKeepsBooks DEF IInv
<1>6. CASE Build
  BY <1>1, <1>6, BuildKeepsBooks DEF IInv
<1>7. QED
  BY <1>2, <1>3, <1>4, <1>5, <1>6 DEF Next

THEOREM Invariant == Spec => []IInv
BY IInvInit, IInvStep, PTL DEF Spec

-----------------------------------------------------------------------------
\* What the invariant is for.

\* The rosters of every chunk, the state of every ticket: TypeOK.
THEOREM FillingTypeCorrect == Spec => []TypeOK
<1>1. IInv => TypeOK
  <2> SUFFICES ASSUME IInv PROVE TypeOK
    OBVIOUS
  <2>1. /\ now \in Start .. End /\ scenario \in Scenario
        /\ ticket \in [Tickets -> ValidatedTicket]
        /\ active \subseteq Admitted /\ curChunkSize \in Nat
        /\ stage \in {"start", "pack", "build", "built", "refused"}
    BY DEF IInv, TicketsOK, StageOK
  <2>2. todo \subseteq active \X Pools
    BY DEF IInv, StageOK, Wanted, ValidPools
  <2>3. ASSUME NEW k \in DOMAIN chunks
        PROVE  /\ DOMAIN chunks[k] \subseteq Pools
               /\ \A n \in DOMAIN chunks[k] : chunks[k][n] \in Seq(active) \ {<< >>}
    <3>1. chunks[k] \in Chunk
      BY DEF IInv, StageOK
    <3>2. QED
      BY <3>1 DEF Chunk
  <2>4. /\ DOMAIN participants \subseteq Pools
        /\ \A k \in DOMAIN built : built[k] \subseteq DOMAIN participants
    BY DEF IInv, StageOK, BuiltOK
  <2>5. QED
    BY <2>1, <2>2, <2>3, <2>4 DEF TypeOK, ValidatedTicket
<1>2. QED
  BY <1>1, Invariant, PTL

\* Once packing is over, a ticket has one place in a pool that wants it and none
\* in the others.
LEMMA WantedPlaces ==
  ASSUME IInv, stage \in {"build", "built"}, NEW n \in Pools, NEW t \in active
  PROVE  /\ <<t, n>> \in Wanted => \E p : Places(chunks, n, t) = {p}
         /\ <<t, n>> \notin Wanted => Places(chunks, n, t) = {}
<1>1. /\ <<t, n>> \in Wanted <=> \E k, i \in Nat : At(k, i, n, t)
      /\ \A j, h, k, i \in Nat : At(j, h, n, t) /\ At(k, i, n, t) => j = k /\ h = i
  BY DEF IInv, StageOK, PackedOK
<1>2. \A k, i : <<k, i>> \in Places(chunks, n, t) <=> k \in Nat /\ i \in Nat /\ At(k, i, n, t)
  <2>1. chunks \in Seq(Chunk) /\ Len(chunks) \in Nat
    BY DEF IInv, StageOK
  <2>2. ASSUME NEW k \in 1 .. Len(chunks), n \in DOMAIN chunks[k]
        PROVE  DOMAIN chunks[k][n] = 1 .. Len(chunks[k][n]) /\ Len(chunks[k][n]) \in Nat
    <3>1. chunks[k] \in Chunk
      BY <2>1
    <3>2. chunks[k][n] \in Seq(active)
      BY <2>2, <3>1 DEF Chunk
    <3>3. QED
      BY <3>2
  <2>3. QED
    BY <2>1, <2>2 DEF Places, At
<1>3. \A p \in Places(chunks, n, t) : p = <<p[1], p[2]>>
  BY DEF Places
<1>4. ASSUME <<t, n>> \in Wanted PROVE \E p : Places(chunks, n, t) = {p}
  <2>1. PICK k \in Nat, i \in Nat : At(k, i, n, t)
    BY <1>1, <1>4
  <2>2. Places(chunks, n, t) = {<<k, i>>}
    BY <1>1, <1>2, <1>3, <2>1
  <2>3. QED
    BY <2>2
<1>5. ASSUME <<t, n>> \notin Wanted PROVE Places(chunks, n, t) = {}
  BY <1>1, <1>2, <1>3, <1>5
<1>6. QED
  BY <1>4, <1>5

LEMMA PackedPlaces ==
  ASSUME IInv, stage \in {"build", "built"}, NEW n \in Pools
  PROVE  Reassembles(chunks, n)
<1> SUFFICES ASSUME NEW t \in active
             PROVE  Cardinality(Places(chunks, n, t)) =
                      IF n \in ValidPools /\ In(scenario.pools[n], Attributes(t))
                        THEN 1 ELSE 0
  BY DEF Reassembles
<1>1. <<t, n>> \in Wanted <=> n \in ValidPools /\ In(scenario.pools[n], Attributes(t))
  BY DEF Wanted
<1>2. CASE <<t, n>> \in Wanted
  <2>1. PICK p : Places(chunks, n, t) = {p}
    BY <1>2, WantedPlaces
  <2>2. Cardinality({p}) = 1
    BY FS_Singleton
  <2>3. QED
    BY <1>1, <1>2, <2>1, <2>2
<1>3. CASE <<t, n>> \notin Wanted
  BY <1>1, <1>3, WantedPlaces, FS_EmptySet
<1>4. QED
  BY <1>2, <1>3

\* The chunks hold what the pools asked for, each ticket once.
THEOREM PackingLosesNothing == Spec => []PackedOnce
<1>1. IInv => PackedOnce
  BY PackedPlaces DEF PackedOnce
<1>2. QED
  BY <1>1, Invariant, PTL

\* A pool that has tickets in one chunk only is what the MMFs read of it.
LEMMA UnbrokenPlaces ==
  ASSUME IInv, stage = "built", NEW n \in Pools,
         \A j, k \in DOMAIN chunks :
           n \in DOMAIN chunks[j] /\ n \in DOMAIN chunks[k] => j = k
  PROVE  \A t : Places(MmfInput, n, t) = Places(chunks, n, t)
<1>1. /\ DOMAIN chunks = 1 .. Len(chunks) /\ DOMAIN built = 1 .. Len(built)
      /\ Len(built) = Len(chunks) /\ Len(chunks) \in Nat
  BY DEF IInv, StageOK
<1>2. \A k \in 1 .. Len(built) : built[k] = DOMAIN chunks[k]
  BY DEF IInv, BuiltOK
<1>3. DOMAIN MmfInput = DOMAIN chunks
  BY <1>1 DEF MmfInput
<1>4. ASSUME NEW k \in DOMAIN chunks
      PROVE  /\ DOMAIN MmfInput[k] = DOMAIN chunks[k]
             /\ n \in DOMAIN chunks[k] => MmfInput[k][n] = chunks[k][n]
  <2>1. MmfInput[k] = [m \in built[k] |-> participants[m]]
    BY <1>1 DEF MmfInput
  <2>2. k \in 1 .. Len(built) /\ built[k] = DOMAIN chunks[k]
    BY <1>1, <1>2
  <2>3. ASSUME n \in DOMAIN chunks[k] PROVE participants[n] = chunks[k][n]
    <3>1. \A j \in 1 .. Len(built) : k < j => n \notin DOMAIN chunks[j]
      BY <1>1, <2>3
    <3>2. QED
      BY <2>2, <2>3, <3>1 DEF IInv, BuiltOK
  <2>4. QED
    BY <2>1, <2>2, <2>3
<1>5. QED
  BY <1>3, <1>4 DEF Places

THEOREM UnbrokenPoolsReassemble == Spec => []UnbrokenPoolsArrive
<1>1. IInv => UnbrokenPoolsArrive
  <2> SUFFICES ASSUME IInv, stage = "built", NEW n \in Pools,
                      Cardinality({k \in DOMAIN chunks : n \in DOMAIN chunks[k]}) <= 1
               PROVE  Reassembles(MmfInput, n)
    BY DEF UnbrokenPoolsArrive
  <2> DEFINE S == {k \in DOMAIN chunks : n \in DOMAIN chunks[k]}
  <2>1. DOMAIN chunks = 1 .. Len(chunks) /\ Len(chunks) \in Nat
    BY DEF IInv, StageOK
  <2>2. \A j, k \in S : j = k
    <3>1. IsFiniteSet(S)
      <4>1. IsFiniteSet(1 .. Len(chunks))
        BY <2>1, FS_Interval
      <4>2. QED
        BY <2>1, <4>1, FS_Subset
    <3>2. SUFFICES ASSUME NEW j \in S, NEW k \in S, j # k PROVE FALSE
      OBVIOUS
    <3>3. IsFiniteSet({j, k}) /\ Cardinality({j, k}) <= Cardinality(S)
      BY <3>1, FS_Subset
    <3>4. Cardinality({j, k}) = 2
      <4>1. IsFiniteSet({k}) /\ Cardinality({k}) = 1
        BY FS_Singleton
      <4>2. {j, k} = {k} \cup {j} /\ j \notin {k}
        BY <3>2
      <4>3. Cardinality({k} \cup {j}) = Cardinality({k}) + 1
        BY <4>1, <4>2, FS_AddElement
      <4>4. QED
        BY <4>1, <4>2, <4>3
    <3>5. Cardinality(S) \in Nat
      BY <3>1, FS_CardinalityType
    <3>6. QED
      BY <3>3, <3>4, <3>5
  <2>3. \A t : Places(MmfInput, n, t) = Places(chunks, n, t)
    BY <2>2, UnbrokenPlaces
  <2>4. Reassembles(chunks, n)
    BY PackedPlaces
  <2>5. QED
    BY <2>3, <2>4 DEF Reassembles
<1>2. QED
  BY <1>1, Invariant, PTL

-----------------------------------------------------------------------------
\* The size of a chunk.

\* Every chunk has finitely many places and bytes and is below the limit, or as
\* small as it can be; the size counted is the size of the last chunk.
SizesOK ==
  /\ \A k \in 1 .. Len(chunks) :
       /\ IsFiniteSet(Entries(chunks[k])) /\ IsFiniteSet(Bytes(chunks[k]))
       /\ ChunkSize(chunks[k]) < MaxPbSize \/ Cardinality(Entries(chunks[k])) <= 1
  /\ stage = "pack" => curChunkSize = ChunkSize(chunks[Len(chunks)])

\* A ticket that is added takes one new place.
LEMMA EntriesAdd ==
  ASSUME NEW chunk \in Chunk, NEW n \in Pools, NEW t \in active
  PROVE  \E i \in Nat :
           /\ <<n, i>> \notin Entries(chunk)
           /\ Entries(AddTo(chunk, n, t)) = Entries(chunk) \cup {<<n, i>>}
           /\ \A p \in Entries(chunk) : AddTo(chunk, n, t)[p[1]][p[2]] = chunk[p[1]][p[2]]
           /\ AddTo(chunk, n, t)[n][i] = t
<1> DEFINE new == AddTo(chunk, n, t)
           i == IF n \in DOMAIN chunk THEN Len(chunk[n]) + 1 ELSE 1
<1>1. \A m \in DOMAIN chunk : chunk[m] \in Seq(active)
  BY DEF Chunk
<1>2. /\ new \in Chunk
      /\ DOMAIN new = DOMAIN chunk \cup {n}
      /\ \A m \in DOMAIN chunk : m # n => new[m] = chunk[m]
      /\ n \in DOMAIN chunk => new[n] = Append(chunk[n], t)
      /\ n \notin DOMAIN chunk => new[n] = <<t>>
  BY AddToRoster
<1> HIDE DEF new
<1>3. /\ i \in Nat /\ DOMAIN new[n] = (IF n \in DOMAIN chunk THEN DOMAIN chunk[n] ELSE {}) \cup {i}
      /\ n \in DOMAIN chunk => i \notin DOMAIN chunk[n]
      /\ new[n][i] = t
      /\ n \in DOMAIN chunk => \A j \in DOMAIN chunk[n] : new[n][j] = chunk[n][j]
  <2>1. CASE n \in DOMAIN chunk
    <3> DEFINE roster == chunk[n]
    <3>1. roster \in Seq(active) /\ Len(roster) \in Nat /\ DOMAIN roster = 1 .. Len(roster)
      BY <1>1, <2>1
    <3>2. new[n] = Append(roster, t) /\ i = Len(roster) + 1
      BY <1>2, <2>1
    <3> HIDE DEF roster
    <3>3. /\ DOMAIN new[n] = 1 .. Len(roster) + 1 /\ new[n][Len(roster) + 1] = t
          /\ \A j \in 1 .. Len(roster) : new[n][j] = roster[j]
      BY <3>1, <3>2
    <3>4. /\ 1 .. Len(roster) + 1 = (1 .. Len(roster)) \cup {Len(roster) + 1}
          /\ Len(roster) + 1 \notin 1 .. Len(roster)
      BY <3>1
    <3> HIDE DEF i
    <3>5. /\ DOMAIN new[n] = DOMAIN roster \cup {i} /\ i \notin DOMAIN roster
          /\ new[n][i] = t /\ i \in Nat
          /\ \A j \in DOMAIN roster : new[n][j] = roster[j]
      BY <3>1, <3>2, <3>3, <3>4
    <3>6. QED
      BY <2>1, <3>5 DEF roster
  <2>2. CASE n \notin DOMAIN chunk
    BY <1>2, <2>2
  <2>3. QED
    BY <2>1, <2>2
<1> HIDE DEF i
<1>4. <<n, i>> \notin Entries(chunk)
  BY <1>3 DEF Entries
<1>5. Entries(new) = Entries(chunk) \cup {<<n, i>>}
  <2>1. ASSUME NEW p PROVE p \in Entries(new) <=> p \in Entries(chunk) \cup {<<n, i>>}
    <3>1. /\ p \in Entries(new) <=> \E m \in DOMAIN new : p \in {m} \X DOMAIN new[m]
          /\ p \in Entries(chunk) <=> \E m \in DOMAIN chunk : p \in {m} \X DOMAIN chunk[m]
      BY DEF Entries
    <3>2. ASSUME NEW m \in DOMAIN new
          PROVE  p \in {m} \X DOMAIN new[m] <=>
                   \/ m \in DOMAIN chunk /\ p \in {m} \X DOMAIN chunk[m]
                   \/ m = n /\ p = <<n, i>>
      <4>1. CASE m = n
        BY <1>3, <4>1
      <4>2. CASE m # n
        BY <1>2, <4>2
      <4>3. QED
        BY <4>1, <4>2
    <3>3. n \in DOMAIN new /\ DOMAIN chunk \subseteq DOMAIN new
      BY <1>2
    <3>4. QED
      BY <3>1, <3>2, <3>3
  <2>2. QED
    BY <2>1
<1>6. ASSUME NEW p \in Entries(chunk) PROVE new[p[1]][p[2]] = chunk[p[1]][p[2]]
  <2>1. p[1] \in DOMAIN chunk /\ p[2] \in DOMAIN chunk[p[1]]
    BY DEF Entries
  <2>2. QED
    BY <1>2, <1>3, <2>1
<1>7. i \in Nat /\ new[n][i] = t
  BY <1>3
<1>8. QED
  BY <1>4, <1>5, <1>6, <1>7 DEF new

\* Its size is added to the size of the chunk.
LEMMA SizeAdd ==
  ASSUME scenario \in Scenario, active \subseteq Tickets,
         NEW chunk \in Chunk, NEW n \in Pools, NEW t \in active,
         IsFiniteSet(Entries(chunk)), IsFiniteSet(Bytes(chunk))
  PROVE  /\ IsFiniteSet(Entries(AddTo(chunk, n, t)))
         /\ IsFiniteSet(Bytes(AddTo(chunk, n, t)))
         /\ Cardinality(Entries(AddTo(chunk, n, t))) = Cardinality(Entries(chunk)) + 1
         /\ ChunkSize(AddTo(chunk, n, t)) = ChunkSize(chunk) + scenario.size[t]
<1> DEFINE new == AddTo(chunk, n, t)
<1>1. PICK i \in Nat :
        /\ <<n, i>> \notin Entries(chunk)
        /\ Entries(new) = Entries(chunk) \cup {<<n, i>>}
        /\ \A p \in Entries(chunk) : new[p[1]][p[2]] = chunk[p[1]][p[2]]
        /\ new[n][i] = t
  BY EntriesAdd
<1>2. scenario.size[t] \in Nat /\ scenario.emptySize \in Nat
  BY ScenarioProperties
<1> DEFINE added == {<<n, i>>} \X (1 .. scenario.size[t])
<1> HIDE DEF new
<1>3. Bytes(new) = Bytes(chunk) \cup added
  <2>1. ASSUME NEW b PROVE b \in Bytes(new) <=> b \in Bytes(chunk) \cup added
    <3>1. b \in Bytes(new) <=>
            \E p \in Entries(new) : b \in {p} \X (1 .. scenario.size[new[p[1]][p[2]]])
      BY DEF Bytes
    <3>2. b \in Bytes(chunk) <=>
            \E p \in Entries(chunk) : b \in {p} \X (1 .. scenario.size[chunk[p[1]][p[2]]])
      BY DEF Bytes
    <3>3. \A p \in Entries(new) :
            \/ p \in Entries(chunk) /\ new[p[1]][p[2]] = chunk[p[1]][p[2]]
            \/ p = <<n, i>> /\ new[p[1]][p[2]] = t
      <4> SUFFICES ASSUME NEW p \in Entries(new)
                   PROVE  \/ p \in Entries(chunk) /\ new[p[1]][p[2]] = chunk[p[1]][p[2]]
                          \/ p = <<n, i>> /\ new[p[1]][p[2]] = t
        OBVIOUS
      <4>1. CASE p \in Entries(chunk)
        BY <1>1, <4>1
      <4>2. CASE p = <<n, i>>
        <5>1. p[1] = n /\ p[2] = i
          BY <4>2
        <5>2. QED
          BY <1>1, <4>2, <5>1
      <4>3. QED
        BY <1>1, <4>1, <4>2
    <3>4. <<n, i>> \in Entries(new) /\ Entries(chunk) \subseteq Entries(new)
      BY <1>1
    <3>5. ASSUME b \in Bytes(new) PROVE b \in Bytes(chunk) \cup added
      <4>1. PICK p \in Entries(new) : b \in {p} \X (1 .. scenario.size[new[p[1]][p[2]]])
        BY <3>1, <3>5
      <4>2. CASE p \in Entries(chunk) /\ new[p[1]][p[2]] = chunk[p[1]][p[2]]
        BY <3>2, <4>1, <4>2
      <4>3. CASE p = <<n, i>> /\ new[p[1]][p[2]] = t
        BY <4>1, <4>3
      <4>4. QED
        BY <3>3, <4>2, <4>3
    <3>6. ASSUME b \in Bytes(chunk) PROVE b \in Bytes(new)
      <4>1. PICK p \in Entries(chunk) :
              b \in {p} \X (1 .. scenario.size[chunk[p[1]][p[2]]])
        BY <3>2, <3>6
      <4>2. new[p[1]][p[2]] = chunk[p[1]][p[2]]
        BY <1>1
      <4>3. b \in {p} \X (1 .. scenario.size[new[p[1]][p[2]]])
        BY <4>1, <4>2
      <4>4. QED
        BY <3>1, <3>4, <4>3
    <3>7. ASSUME b \in added PROVE b \in Bytes(new)
      <4> DEFINE p == <<n, i>>
      <4>1. new[p[1]][p[2]] = t
        BY <1>1
      <4>2. p \in Entries(new) /\ b \in {p} \X (1 .. scenario.size[new[p[1]][p[2]]])
        BY <3>4, <3>7, <4>1
      <4> HIDE DEF p
      <4>3. QED
        BY <3>1, <4>2
    <3>8. QED
      BY <3>5, <3>6, <3>7
  <2>2. QED
    BY <2>1
<1>4. Bytes(chunk) \cap added = {}
  BY <1>1 DEF Bytes
<1>5. IsFiniteSet(added) /\ Cardinality(added) = scenario.size[t]
  <2> DEFINE size == scenario.size[t]
  <2>0. size \in Nat
    BY <1>2
  <2> HIDE DEF size
  <2>1. IsFiniteSet(1 .. size) /\ Cardinality(1 .. size) = size
    <3>1. /\ IsFiniteSet(1 .. size)
          /\ Cardinality(1 .. size) = IF 1 > size THEN 0 ELSE size - 1 + 1
      BY <2>0, FS_Interval
    <3>2. QED
      BY <2>0, <3>1
  <2>2. IsFiniteSet({<<n, i>>}) /\ Cardinality({<<n, i>>}) = 1
    BY FS_Singleton
  <2>3. /\ IsFiniteSet({<<n, i>>} \X (1 .. size))
        /\ Cardinality({<<n, i>>} \X (1 .. size)) = 1 * size
    BY <2>1, <2>2, FS_Product
  <2>4. 1 * size = size
    BY <2>0
  <2>5. QED
    BY <2>3, <2>4 DEF size
<1> HIDE DEF added
<1>6. /\ IsFiniteSet(Bytes(new))
      /\ Cardinality(Bytes(new)) = Cardinality(Bytes(chunk)) + scenario.size[t]
  <2>1. /\ IsFiniteSet(Bytes(chunk) \cup added)
        /\ Cardinality(Bytes(chunk) \cup added) =
             Cardinality(Bytes(chunk)) + Cardinality(added)
               - Cardinality(Bytes(chunk) \cap added)
    BY <1>5, FS_Union
  <2>2. Cardinality(Bytes(chunk) \cap added) = 0 /\ Cardinality(Bytes(chunk)) \in Nat
    BY <1>4, FS_EmptySet, FS_CardinalityType
  <2>3. QED
    BY <1>2, <1>3, <1>5, <2>1, <2>2
<1>7. /\ IsFiniteSet(Entries(new))
      /\ Cardinality(Entries(new)) = Cardinality(Entries(chunk)) + 1
  BY <1>1, FS_AddElement
<1>8. ChunkSize(new) = ChunkSize(chunk) + scenario.size[t]
  <2>1. Cardinality(Bytes(chunk)) \in Nat
    BY FS_CardinalityType
  <2>2. QED
    BY <1>2, <1>6, <2>1 DEF ChunkSize
<1>9. QED
  BY <1>6, <1>7, <1>8 DEF new

LEMMA EmptyChunk ==
  ASSUME scenario \in Scenario
  PROVE  /\ << >> \in Chunk
         /\ Entries(<< >>) = {} /\ IsFiniteSet(Entries(<< >>))
         /\ IsFiniteSet(Bytes(<< >>))
         /\ ChunkSize(<< >>) = scenario.emptySize
<1>1. << >> \in [{} -> Seq(active) \ {<< >>}] /\ {} \in SUBSET Pools
  OBVIOUS
<1>2. << >> \in Chunk
  BY <1>1 DEF Chunk
<1>3. Entries(<< >>) = {} /\ Bytes(<< >>) = {}
  BY DEF Entries, Bytes
<1>4. scenario.emptySize + 0 = scenario.emptySize
  BY ScenarioProperties
<1>5. QED
  BY <1>2, <1>3, <1>4, FS_EmptySet DEF ChunkSize

\* The other steps change neither the chunks nor the sizes in them.
LEMMA SizesKept ==
  ASSUME SizesOK, UNCHANGED <<scenario, chunks, curChunkSize>>,
         stage' = "pack" => stage = "pack"
  PROVE  SizesOK'
<1>1. ASSUME NEW k
      PROVE  /\ Entries(chunks[k])' = Entries(chunks[k])
             /\ Bytes(chunks[k])' = Bytes(chunks[k])
             /\ ChunkSize(chunks[k])' = ChunkSize(chunks[k])
  BY DEF Entries, Bytes, ChunkSize
<1>2. ChunkSize(chunks[Len(chunks)])' = ChunkSize(chunks[Len(chunks)])
  BY DEF Entries, Bytes, ChunkSize
<1>3. QED
  BY <1>1, <1>2 DEF SizesOK

LEMMA PackKeepsSizes ==
  ASSUME IInv, SizesOK, NEW t \in Tickets, NEW n \in Pools, Pack(t, n)
  PROVE  SizesOK'
<1>1. /\ stage = "pack" /\ UNCHANGED <<scenario, stage>>
      /\ t \in active /\ chunks \in Seq(Chunk) /\ Len(chunks) \in Nat
      /\ Len(chunks) >= 1 /\ scenario \in Scenario /\ active \subseteq Tickets
      /\ curChunkSize = ChunkSize(chunks[Len(chunks)]) /\ MaxPbSize \in Nat
  BY PoolAssumption DEF Pack, IInv, TicketsOK, StageOK, Wanted, Admitted, SizesOK
<1>2. \A k \in 1 .. Len(chunks) :
        /\ IsFiniteSet(Entries(chunks[k])) /\ IsFiniteSet(Bytes(chunks[k]))
        /\ ChunkSize(chunks[k]) < MaxPbSize \/ Cardinality(Entries(chunks[k])) <= 1
  BY DEF SizesOK
\* The last chunk is replaced, or a chunk added, by one that is sized as counted.
<1>3. PICK base \in Chunk :
        /\ IsFiniteSet(Entries(base)) /\ IsFiniteSet(Bytes(base))
        /\ curChunkSize' = ChunkSize(base) + scenario.size[t]
        /\ \/ /\ Full(t) /\ base = << >>
              /\ chunks' = Append(chunks, AddTo(base, n, t))
           \/ /\ ~ Full(t) /\ base = chunks[Len(chunks)]
              /\ chunks' = [chunks EXCEPT ![Len(chunks)] = AddTo(base, n, t)]
  <2>1. CASE Full(t)
    <3>1. /\ chunks' = Append(chunks, AddTo(<< >>, n, t))
          /\ curChunkSize' = scenario.emptySize + scenario.size[t]
      BY <2>1 DEF Pack
    <3>2. /\ << >> \in Chunk
          /\ IsFiniteSet(Entries(<< >>)) /\ IsFiniteSet(Bytes(<< >>))
          /\ ChunkSize(<< >>) = scenario.emptySize
      BY <1>1, EmptyChunk
    <3>3. QED
      BY <2>1, <3>1, <3>2
  <2>2. CASE ~ Full(t)
    <3>1. /\ chunks' = [chunks EXCEPT ![Len(chunks)] = AddTo(chunks[Len(chunks)], n, t)]
          /\ curChunkSize' = curChunkSize + scenario.size[t]
      BY <2>2 DEF Pack
    <3>2. Len(chunks) \in 1 .. Len(chunks) /\ chunks[Len(chunks)] \in Chunk
      BY <1>1
    <3>3. QED
      BY <1>1, <1>2, <2>2, <3>1, <3>2
  <2>3. QED
    BY <2>1, <2>2
<1> DEFINE new == AddTo(base, n, t)
<1>4. /\ new \in Chunk
      /\ IsFiniteSet(Entries(new)) /\ IsFiniteSet(Bytes(new))
      /\ Cardinality(Entries(new)) = Cardinality(Entries(base)) + 1
      /\ ChunkSize(new) = ChunkSize(base) + scenario.size[t]
  BY <1>1, <1>3, SizeAdd, AddToRoster
<1>5. ChunkSize(new) < MaxPbSize \/ Cardinality(Entries(new)) <= 1
  <2>1. CASE Full(t)
    <3>1. base = << >>
      BY <1>3, <2>1
    <3>2. Cardinality(Entries(base)) = 0
      BY <1>1, <3>1, EmptyChunk, FS_EmptySet
    <3>3. QED
      BY <1>4, <3>2
  <2>2. CASE ~ Full(t)
    <3>1. base = chunks[Len(chunks)]
      BY <1>3, <2>2
    <3>2. ChunkSize(new) = curChunkSize + scenario.size[t]
      BY <1>1, <1>4, <3>1
    <3>3. curChunkSize \in Nat /\ scenario.size[t] \in Nat
      BY <1>1, ScenarioProperties DEF IInv, StageOK
    <3>4. QED
      BY <1>1, <2>2, <3>2, <3>3 DEF Full
  <2>3. QED
    BY <2>1, <2>2
<1> HIDE DEF new
<1>6. /\ Len(chunks') \in Nat /\ Len(chunks') >= 1 /\ chunks'[Len(chunks')] = new
      /\ \A k \in 1 .. Len(chunks') :
           chunks'[k] = new \/ (k \in 1 .. Len(chunks) /\ chunks'[k] = chunks[k])
  <2>1. CASE chunks' = Append(chunks, new)
    <3>1. /\ Len(chunks') = Len(chunks) + 1 /\ chunks'[Len(chunks) + 1] = new
          /\ \A k \in 1 .. Len(chunks) : chunks'[k] = chunks[k]
      BY <1>1, <1>4, <2>1
    <3>2. \A k \in 1 .. Len(chunks) + 1 : k = Len(chunks) + 1 \/ k \in 1 .. Len(chunks)
      BY <1>1
    <3>3. Len(chunks') \in Nat /\ Len(chunks') >= 1 /\ chunks'[Len(chunks')] = new
      BY <1>1, <3>1
    <3>4. ASSUME NEW k \in 1 .. Len(chunks')
          PROVE  chunks'[k] = new \/ (k \in 1 .. Len(chunks) /\ chunks'[k] = chunks[k])
      <4>1. k \in 1 .. Len(chunks) + 1
        BY <3>1
      <4>2. QED
        BY <3>1, <3>2, <4>1
    <3>5. QED
      BY <3>3, <3>4
  <2>2. CASE chunks' = [chunks EXCEPT ![Len(chunks)] = new]
    <3>1. DOMAIN chunks = 1 .. Len(chunks) /\ Len(chunks) \in 1 .. Len(chunks)
      BY <1>1
    <3>2. chunks' \in Seq(Chunk)
      BY <1>1, <1>4, <2>2
    <3>3. DOMAIN chunks' = 1 .. Len(chunks) /\ DOMAIN chunks' = 1 .. Len(chunks')
      BY <2>2, <3>1, <3>2
    <3>4. Len(chunks') = Len(chunks)
      BY <1>1, <3>2, <3>3
    <3>5. /\ chunks'[Len(chunks)] = new
          /\ \A k \in 1 .. Len(chunks) : k # Len(chunks) => chunks'[k] = chunks[k]
      BY <2>2, <3>1
    <3>6. Len(chunks') \in Nat /\ Len(chunks') >= 1 /\ chunks'[Len(chunks')] = new
      BY <1>1, <3>4, <3>5
    <3>7. \A k \in 1 .. Len(chunks') :
            chunks'[k] = new \/ (k \in 1 .. Len(chunks) /\ chunks'[k] = chunks[k])
      BY <3>4, <3>5
    <3>8. QED
      BY <3>6, <3>7
  <2>3. QED
    BY <1>3, <2>1, <2>2 DEF new
<1>7. ASSUME NEW k \in 1 .. Len(chunks')
      PROVE  /\ IsFiniteSet(Entries(chunks'[k])) /\ IsFiniteSet(Bytes(chunks'[k]))
             /\ \/ ChunkSize(chunks'[k]) < MaxPbSize
                \/ Cardinality(Entries(chunks'[k])) <= 1
  BY <1>2, <1>4, <1>5, <1>6
<1>8. curChunkSize' = ChunkSize(chunks'[Len(chunks')])
  BY <1>3, <1>4, <1>6
<1>9. ASSUME NEW k
      PROVE  /\ Entries(chunks[k])' = Entries(chunks'[k])
             /\ Bytes(chunks[k])' = Bytes(chunks'[k])
             /\ ChunkSize(chunks[k])' = ChunkSize(chunks'[k])
  BY <1>1 DEF Entries, Bytes, ChunkSize
<1>10. ChunkSize(chunks[Len(chunks)])' = ChunkSize(chunks'[Len(chunks')])
  BY <1>1 DEF Entries, Bytes, ChunkSize
<1>11. QED
  BY <1>7, <1>8, <1>9, <1>10 DEF SizesOK

LEMMA SizesStep == IInv /\ SizesOK /\ [Next]_vars => SizesOK'
<1> SUFFICES ASSUME IInv, SizesOK, [Next]_vars PROVE SizesOK'
  OBVIOUS
<1>1. CASE StartPacking
  <2>1. /\ chunks' = << << >> >> /\ curChunkSize' = scenario.emptySize
        /\ UNCHANGED scenario
    BY <1>1 DEF StartPacking
  <2>2. /\ IsFiniteSet(Entries(<< >>)) /\ IsFiniteSet(Bytes(<< >>))
        /\ Cardinality(Entries(<< >>)) <= 1
        /\ ChunkSize(<< >>) = scenario.emptySize
    BY EmptyChunk, FS_EmptySet DEF IInv, TicketsOK
  <2>3. Len(chunks') = 1 /\ chunks'[1] = << >>
    BY <2>1
  <2>4. ASSUME NEW k
        PROVE  /\ Entries(chunks[k])' = Entries(chunks'[k])
               /\ Bytes(chunks[k])' = Bytes(chunks'[k])
               /\ ChunkSize(chunks[k])' = ChunkSize(chunks'[k])
    BY <2>1 DEF Entries, Bytes, ChunkSize
  <2>5. ChunkSize(chunks[Len(chunks)])' = ChunkSize(chunks'[Len(chunks')])
    BY <2>1 DEF Entries, Bytes, ChunkSize
  <2>6. \A k \in 1 .. Len(chunks') : chunks'[k] = << >>
    BY <2>3
  <2>7. QED
    BY <2>1, <2>2, <2>3, <2>4, <2>5, <2>6 DEF SizesOK
<1>2. ASSUME NEW t \in Tickets, NEW n \in Pools, Pack(t, n) PROVE SizesOK'
  BY <1>2, PackKeepsSizes
<1>3. ASSUME NEW t \in Tickets, Create(t) PROVE SizesOK'
  BY <1>3, CreateStep, SizesKept DEF IInv, invokeVars
<1>4. CASE Tick \/ RefuseRequest \/ StartBuilding \/ Build \/ UNCHANGED vars
  BY <1>4, SizesKept DEF Tick, RefuseRequest, StartBuilding, Build, vars, invokeVars
<1>5. QED
  BY <1>1, <1>2, <1>3, <1>4 DEF Next

\* main.go:687.  Whatever the sizes of the tickets and in whatever order they come,
\* a chunk stays below the limit unless a single ticket is too large for it.
THEOREM ChunksStayBelowLimit == Spec => []ChunksFit
<1>1. Init => SizesOK
  BY DEF Init, SizesOK
<1>2. IInv /\ SizesOK => ChunksFit
  <2> SUFFICES ASSUME IInv, SizesOK PROVE ChunksFit
    OBVIOUS
  <2>1. DOMAIN chunks = 1 .. Len(chunks)
    BY DEF IInv, StageOK
  <2>2. QED
    BY <2>1 DEF SizesOK, ChunksFit
<1>3. QED
  BY <1>1, <1>2, Invariant, SizesStep, PTL DEF Spec

-----------------------------------------------------------------------------
\* What the filters decide.

\* The creation times that CreateTicket can leave in a ticket that asks for one.
CreationTimes(asked) ==
  {IF asked \in {Absent, Invalid} THEN look
   ELSE IF asked > look THEN look ELSE asked : look \in Start .. End}

\* Scenario s has one ticket and one pool at most, and the filters decide as
\* expected on the ticket whenever it is created.
FiltersDecide(s) ==
  LET pools == IF s.pools = Absent THEN {} ELSE DOMAIN s.pools
  IN  /\ \A t, u \in DOMAIN s.creates : t = u
      /\ \A m, n \in pools : m = n
      /\ \A t \in DOMAIN s.creates :
           \A c \in CreationTimes(s.creates[t].attributes.created) :
             s.expect = "in" <=>
               \E n \in pools :
                 /\ ValidatePoolFilters(s.pools[n])
                 /\ In(s.pools[n], [s.creates[t].attributes EXCEPT !.created = c])

StampsOK ==
  \A t \in Tickets :
    ticket[t].step \in {"stamped", "limited", "admitted"} =>
      ticket[t].created \in CreationTimes(scenario.creates[t].attributes.created)

LEMMA StampsStep == TicketsOK /\ StampsOK /\ [Next]_vars => StampsOK'
<1> SUFFICES ASSUME TicketsOK, StampsOK, [Next]_vars PROVE StampsOK'
  OBVIOUS
<1>1. ASSUME NEW t \in Tickets, Create(t) PROVE StampsOK'
  <2>1. /\ UNCHANGED scenario /\ Tickets' = Tickets
        /\ \A u \in Tickets : u # t => ticket'[u] = ticket[u]
        /\ now \in Start .. End
        /\ ticket \in [Tickets -> ValidatedTicket] /\ ticket[t] \in ValidatedTicket
    BY <1>1, CreateStep DEF TicketsOK
  <2>2. CASE SetCreationTime(t)
    <3>1. ticket'[t].created = CreationTime(t)
      BY <2>1, <2>2 DEF SetCreationTime, ValidatedTicket
    <3>2. CreationTime(t) \in CreationTimes(scenario.creates[t].attributes.created)
      BY <2>1 DEF CreationTime, CreationTimes
    <3>3. QED
      BY <2>1, <3>1, <3>2 DEF StampsOK
  <2>3. CASE SetMaxExpiration(t) \/ CheckExpiration(t)
    <3>1. /\ ticket'[t].created = ticket[t].created
          /\ ticket[t].step \in {"stamped", "limited"}
      BY <2>1, <2>3 DEF SetMaxExpiration, CheckExpiration, ValidatedTicket
    <3>2. QED
      BY <2>1, <3>1 DEF StampsOK
  <2>4. QED
    BY <1>1, <2>2, <2>3 DEF Create
<1>2. CASE Tick \/ Invoke \/ UNCHANGED vars
  <2>1. UNCHANGED <<scenario, ticket>>
    BY <1>2 DEF Tick, Invoke, RefuseRequest, StartPacking, StartBuilding, Build, Pack,
           vars, createVars
  <2>2. QED
    BY <2>1 DEF StampsOK, Tickets
<1>3. QED
  BY <1>1, <1>2 DEF Next, Invoke

\* filter.go:40 and testcases.go.  Between the attributes that a client asks for
\* and the pools that an MMF reads nothing changes what the filters decide: if they
\* decide a test case as expected on its ticket, whenever that is created, then
\* so do the pools of the requests.
THEOREM TestCasesDecidedByFilters ==
  ASSUME \A s \in Scenario : s.expect # "any" => FiltersDecide(s)
  PROVE  Spec => []TestCasesDecided
<1>1. Init => StampsOK
  BY DEF Init, StampsOK
<1>2. IInv /\ StampsOK => TestCasesDecided
  <2> SUFFICES ASSUME IInv, StampsOK, stage = "built", scenario.expect # "any",
                      NEW t \in active
               PROVE  scenario.expect = "in" <=>
                        \E n \in Pools : Places(MmfInput, n, t) # {}
    BY DEF TestCasesDecided
  <2>1. /\ scenario \in Scenario /\ active \subseteq Admitted /\ todo = {}
        /\ t \in Tickets /\ ticket[t].step = "admitted"
    BY DEF IInv, TicketsOK, StageOK, Admitted
  <2>2. FiltersDecide(scenario)
    BY <2>1
  <2>3. ticket[t].created \in CreationTimes(scenario.creates[t].attributes.created)
    BY <2>1 DEF StampsOK
  <2>4. scenario.expect = "in" <=>
          \E n \in Pools : /\ ValidatePoolFilters(scenario.pools[n])
                            /\ In(scenario.pools[n], Attributes(t))
    BY <2>1, <2>2, <2>3 DEF FiltersDecide, Pools, Tickets, Attributes
  <2>5. \A n \in Pools : <<t, n>> \in Wanted <=>
                            /\ ValidatePoolFilters(scenario.pools[n])
                            /\ In(scenario.pools[n], Attributes(t))
    BY DEF Wanted, ValidPools
  <2>6. ASSUME NEW n \in Pools
        PROVE  Places(MmfInput, n, t) # {} <=> <<t, n>> \in Wanted
    <3>1. ASSUME NEW j \in DOMAIN chunks, NEW k \in DOMAIN chunks,
                 n \in DOMAIN chunks[j], n \in DOMAIN chunks[k]
          PROVE  j = k
      <4>1. \A h \in DOMAIN chunks : n \in DOMAIN chunks[h] => At(h, 1, n, t)
        <5> SUFFICES ASSUME NEW h \in DOMAIN chunks, n \in DOMAIN chunks[h]
                     PROVE  At(h, 1, n, t)
          OBVIOUS
        <5>1. h \in 1 .. Len(chunks) /\ chunks[h] \in Chunk
          BY DEF IInv, StageOK
        <5> DEFINE roster == chunks[h][n]
        <5>2. roster \in Seq(active) \ {<< >>}
          BY <5>1 DEF Chunk
        <5> HIDE DEF roster
        <5>3. 1 \in 1 .. Len(roster) /\ roster[1] \in active
          BY <5>2
        <5>4. roster[1] = t
          BY <2>1, <2>2, <5>3 DEF FiltersDecide, Tickets, Admitted
        <5>5. QED
          BY <5>1, <5>3, <5>4 DEF At, roster
      <4>2. j \in Nat /\ k \in Nat /\ At(j, 1, n, t) /\ At(k, 1, n, t)
        BY <3>1, <4>1 DEF At
      <4>3. QED
        BY <4>2 DEF IInv, PackedOK
    <3>2. Places(MmfInput, n, t) = Places(chunks, n, t)
      BY <3>1, UnbrokenPlaces
    <3>3. QED
      BY <3>2, WantedPlaces
  <2>7. QED
    BY <2>4, <2>5, <2>6
<1>3. QED
  BY <1>1, <1>2, Invariant, TicketsInit, TicketsStep, StampsStep, PTL DEF Spec, IInv

-----------------------------------------------------------------------------
\* The table of filter tests, case by case.

\* A test case whose ticket is created at time c is found to be in the pool.
Decided(case, c) ==
  /\ ValidatePoolFilters(case.pool)
  /\ In(case.pool, [case.attributes EXCEPT !.created = c])

LEMMA DoubleCase ==
  ASSUME NEW v, NEW min, NEW max, NEW b, NEW c
  PROVE  Decided(SimpleDoubleRange(v, min, max, b), c) <=>
               /\ IF "min" \in b THEN Less(min, v) ELSE AtMost(min, v)
               /\ IF "max" \in b THEN Less(v, max) ELSE AtMost(v, max)
<1> DEFINE case == SimpleDoubleRange(v, min, max, b)
           attributes == [case.attributes EXCEPT !.created = c]
           filter == [arg |-> "field", min |-> min, max |-> max, bounds |-> b]
           doubles == [field |-> v]
<1>1. case.pool = [created |-> Absent, doubles |-> {filter}, strings |-> {}, tags |-> {}]
  BY DEF SimpleDoubleRange, TestCase, NoFilters
<1>2. /\ attributes.tags = {}
      /\ attributes.strings = << >>
      /\ attributes.doubles = doubles
  BY DEF SimpleDoubleRange, TestCase, NoAttributes
<1>3. Decided(case, c) <=> DoubleInRange(doubles, filter)
  BY <1>1, <1>2 DEF In, Decided, ValidatePoolFilters
<1>4. "field" \in DOMAIN doubles /\ doubles["field"] = v
  OBVIOUS
<1>5. QED
  BY <1>3, <1>4 DEF DoubleInRange

LEMMA StringCase ==
  ASSUME NEW arg, NEW v, NEW wanted, NEW c
  PROVE  Decided(SimpleStringEquals(arg, v, wanted), c) <=> arg = "field" /\ v = wanted
<1> DEFINE case == SimpleStringEquals(arg, v, wanted)
           attributes == [case.attributes EXCEPT !.created = c]
           filter == [arg |-> "field", value |-> wanted]
           strings == [a \in {arg} |-> v]
<1>1. case.pool = [created |-> Absent, doubles |-> {}, strings |-> {filter}, tags |-> {}]
  BY DEF SimpleStringEquals, TestCase, NoFilters
<1>2. /\ attributes.tags = {}
      /\ attributes.strings = strings
      /\ attributes.doubles = << >>
  BY DEF SimpleStringEquals, TestCase, NoAttributes
<1>3. Decided(case, c) <=> StringEquals(strings, filter)
  BY <1>1, <1>2 DEF In, Decided, ValidatePoolFilters
<1>4. QED
  BY <1>3 DEF StringEquals

LEMMA TagCase ==
  ASSUME NEW tags, NEW filters, NEW c
  PROVE  Decided(SimpleTagPresent(tags, filters), c) <=> filters \subseteq tags
<1> DEFINE case == SimpleTagPresent(tags, filters)
           attributes == [case.attributes EXCEPT !.created = c]
<1>1. case.pool = [created |-> Absent, doubles |-> {}, strings |-> {}, tags |-> filters]
  BY DEF SimpleTagPresent, TestCase, NoFilters
<1>2. /\ attributes.tags = tags
      /\ attributes.strings = << >>
      /\ attributes.doubles = << >>
  BY DEF SimpleTagPresent, TestCase, NoAttributes
<1>3. QED
  BY <1>1, <1>2 DEF In, Decided, ValidatePoolFilters

LEMMA MultipleCase ==
  ASSUME NEW d \in BOOLEAN, NEW s \in BOOLEAN, NEW t \in BOOLEAN, NEW k \in BOOLEAN,
         NEW c \in Int
  PROVE  Decided(MultipleFilters(d, s, t, k), c) <=> d /\ s /\ t /\ 30 <= c /\ c <= 54
<1> DEFINE case == MultipleFilters(d, s, t, k)
           attributes == [case.attributes EXCEPT !.created = c]
<1>1. /\ case.pool.created = [start |-> 30, end |-> 54, bounds |-> EXCLUDE_NONE]
      /\ case.pool.doubles = {[arg |-> "a", min |-> -1, max |-> 1, bounds |-> EXCLUDE_NONE]}
      /\ case.pool.strings = {[arg |-> "b", value |-> "hi"]}
      /\ case.pool.tags = {"yo"}
  BY DEF MultipleFilters, TestCase
<1>2. /\ attributes.doubles = [a |-> IF d THEN 0 ELSE 10]
      /\ attributes.strings = [b |-> IF s THEN "hi" ELSE "bye"]
      /\ attributes.tags = {IF t THEN "yo" ELSE "cya"}
      /\ attributes.created = c
  BY DEF MultipleFilters, TestCase
<1>3. case.pool.created # Absent
  <2>1. [start |-> 30, end |-> 54, bounds |-> EXCLUDE_NONE] \in CreatedFilters
    BY DEF CreatedFilters, Times, EXCLUDE_NONE, EXCLUDE_BOTH
  <2>2. QED
    BY <1>1, <2>1, FilterAssumption
<1> HIDE DEF case, attributes
<1>4. CreatedInRange(attributes.created, case.pool.created) <=> 30 <= c /\ c <= 54
  <2>1. /\ case.pool.created.start = 30 /\ case.pool.created.end = 54
        /\ case.pool.created.bounds = {} /\ attributes.created = c
    BY <1>1, <1>2 DEF EXCLUDE_NONE
  <2>2. AsTime(c) = c /\ AsTime(30) = 30 /\ AsTime(54) = 54
    BY FilterAssumption DEF AsTime
  <2>3. QED
    BY <2>1, <2>2 DEF CreatedInRange
<1>5. (\A filter \in case.pool.doubles : DoubleInRange(attributes.doubles, filter)) <=> d
  <2> DEFINE filter == [arg |-> "a", min |-> -1, max |-> 1, bounds |-> EXCLUDE_NONE]
             v == IF d THEN 0 ELSE 10
  <2>1. /\ "a" \in DOMAIN attributes.doubles /\ attributes.doubles["a"] = v
        /\ filter.arg = "a" /\ filter.min = -1 /\ filter.max = 1 /\ filter.bounds = {}
    BY <1>2 DEF EXCLUDE_NONE
  <2>2. AtMost(-1, v) /\ (AtMost(v, 1) <=> d)
    BY FilterAssumption DEF AtMost
  <2> HIDE DEF filter, v
  <2>3. DoubleInRange(attributes.doubles, filter) <=> d
    BY <2>1, <2>2 DEF DoubleInRange
  <2>4. QED
    BY <1>1, <2>3 DEF filter
<1>6. (\A filter \in case.pool.strings : StringEquals(attributes.strings, filter)) <=> s
  BY <1>1, <1>2 DEF StringEquals
<1>7. (\A tag \in case.pool.tags : tag \in attributes.tags) <=> t
  BY <1>1, <1>2
<1>8. Decided(case, c) <=> In(case.pool, attributes)
  <2>1. 30 # Invalid /\ 54 # Invalid
    BY FilterAssumption
  <2>2. QED
    BY <1>1, <2>1 DEF Decided, attributes, ValidatePoolFilters
<1>9. QED
  BY <1>3, <1>4, <1>5, <1>6, <1>7, <1>8 DEF In, case

\* The two halves of the table, whatever the greatest double is.
LEMMA IncludedDecided ==
  ASSUME NEW case \in IncludedTestCases, NEW c \in Int,
         case = MultipleFilters(TRUE, TRUE, TRUE, TRUE) => 30 <= c /\ c <= 54
  PROVE  Decided(case, c)
<1> USE FilterAssumption DEF Less, AtMost
<1>1. ASSUME NEW b \in AllBounds, case = SimpleDoubleRange(5, 0, 10, b) PROVE Decided(case, c)
  BY <1>1, DoubleCase
<1>2. CASE case = SimpleDoubleRange(5, 5, 5, EXCLUDE_NONE)
  BY <1>2, DoubleCase DEF EXCLUDE_NONE
<1>3. ASSUME NEW b \in {EXCLUDE_NONE, EXCLUDE_MIN},
             case = SimpleDoubleRange(Infinity, 0, Infinity, b)
      PROVE Decided(case, c)
  BY <1>3, DoubleCase DEF EXCLUDE_NONE, EXCLUDE_MIN
<1>4. ASSUME NEW b \in {EXCLUDE_NONE, EXCLUDE_MAX},
             case = SimpleDoubleRange(-Infinity, -Infinity, 0, b)
      PROVE Decided(case, c)
  BY <1>4, DoubleCase DEF EXCLUDE_NONE, EXCLUDE_MAX
<1>5. ASSUME NEW v \in {0, 1}, case = SimpleDoubleRange(v, 0, 1, EXCLUDE_NONE)
      PROVE Decided(case, c)
  BY <1>5, DoubleCase DEF EXCLUDE_NONE
<1>6. CASE case = SimpleDoubleRange(1, 0, 1, EXCLUDE_MIN)
  BY <1>6, DoubleCase DEF EXCLUDE_MIN
<1>7. CASE case = SimpleDoubleRange(0, 0, 1, EXCLUDE_MAX)
  BY <1>7, DoubleCase DEF EXCLUDE_MAX
<1>8. ASSUME NEW v \in {1, 2}, case = SimpleDoubleRange(v, 0, 3, EXCLUDE_BOTH)
      PROVE Decided(case, c)
  BY <1>8, DoubleCase DEF EXCLUDE_BOTH
<1>9. CASE case = SimpleStringEquals("field", "value", "value")
  BY <1>9, StringCase
<1>10. CASE \/ case = SimpleTagPresent({"mytag"}, {"mytag"})
            \/ case = SimpleTagPresent({"A", "B", "C"}, {"A", "C", "B"})
  BY <1>10, TagCase
<1>11. CASE case = MultipleFilters(TRUE, TRUE, TRUE, TRUE)
  BY <1>11, MultipleCase
<1>12. QED
  BY <1>1, <1>2, <1>3, <1>4, <1>5, <1>6, <1>7, <1>8, <1>9, <1>10, <1>11
     DEF IncludedTestCases

LEMMA ExcludedDecided ==
  ASSUME NEW case \in ExcludedTestCases, NEW c \in Int,
         case = MultipleFilters(TRUE, TRUE, TRUE, FALSE) => c < 30
  PROVE  ~ Decided(case, c)
<1> USE FilterAssumption DEF Less, AtMost
<1> DEFINE attributes == [case.attributes EXCEPT !.created = c]
           range == [arg |-> "field", min |-> -Infinity, max |-> Infinity,
                     bounds |-> EXCLUDE_NONE]
<1> DEFINE S2 == {[SimpleDoubleRange(0, -Infinity, Infinity, EXCLUDE_NONE) EXCEPT
                 !.attributes.doubles = [otherfield |-> 0]]}
           S3 == {SimpleDoubleRange(5, 5, 5, b) : b \in AllBounds \ {EXCLUDE_NONE}}
           S4 == {SimpleDoubleRange(e[1], e[2], e[3], b) :
                 e \in ExcludedWithAnyBounds, b \in AllBounds}
           S5 == {SimpleDoubleRange(Infinity, 0, Infinity, b) :
                 b \in {EXCLUDE_MAX, EXCLUDE_BOTH}}
           S6 == {SimpleDoubleRange(-Infinity, -Infinity, 0, b) :
                 b \in {EXCLUDE_MIN, EXCLUDE_BOTH}}
           S7 == {SimpleDoubleRange(1, 0, 1, EXCLUDE_MAX),
                 SimpleDoubleRange(0, 0, 1, EXCLUDE_MIN),
                 SimpleDoubleRange(0, 0, 1, EXCLUDE_BOTH),
                 SimpleDoubleRange(1, 0, 1, EXCLUDE_BOTH)}
           S8 == {SimpleStringEquals("field", "value", "VALUE"),
                 SimpleStringEquals("otherfield", "othervalue", "value"),
                 SimpleTagPresent({"MYTAG"}, {"mytag"}),
                 SimpleTagPresent({"A", "B", "C"}, {"A", "D", "C"})}
           S9 == {MultipleFilters(FALSE, TRUE, TRUE, TRUE),
                 MultipleFilters(TRUE, FALSE, TRUE, TRUE),
                 MultipleFilters(TRUE, TRUE, FALSE, TRUE),
                 MultipleFilters(TRUE, TRUE, TRUE, FALSE)}
<1>1. CASE case \in ExcludedWithoutTicket
  <2> DEFINE equal == [arg |-> "field", value |-> "value"]
  <2>1. case.attributes = NoAttributes
    BY <1>1 DEF ExcludedWithoutTicket, TestCase
  <2>2. /\ attributes.doubles = << >> /\ attributes.strings = << >>
        /\ attributes.tags = {}
    BY <2>1 DEF NoAttributes
  <2>3. DOMAIN attributes.doubles = {} /\ DOMAIN attributes.strings = {}
    BY <2>2
  <2>4. \/ range \in case.pool.doubles
        \/ equal \in case.pool.strings
        \/ "value" \in case.pool.tags
    BY <1>1 DEF ExcludedWithoutTicket, TestCase, SimpleDoubleRange, SimpleStringEquals,
                SimpleTagPresent, NoFilters
  <2> HIDE DEF attributes, range, equal
  <2>5. Decided(case, c) => In(case.pool, attributes)
    BY DEF Decided, attributes
  <2>6. QED
    BY <2>2, <2>3, <2>4, <2>5 DEF In, DoubleInRange, StringEquals
<1>2. CASE case \in S2
  <2> DEFINE base == SimpleDoubleRange(0, -Infinity, Infinity, EXCLUDE_NONE)
  <2>0. /\ DOMAIN base = {"attributes", "pool"} /\ "doubles" \in DOMAIN base.attributes
        /\ range \in base.pool.doubles
    BY DEF TestCase, SimpleDoubleRange, NoFilters, NoAttributes
  <2> HIDE DEF base
  <2>1. attributes.doubles = [otherfield |-> 0] /\ range \in case.pool.doubles
    <3>1. case = [base EXCEPT !.attributes.doubles = [otherfield |-> 0]]
      BY <1>2 DEF base
    <3>2. case.pool = base.pool /\ case.attributes.doubles = [otherfield |-> 0]
      BY <2>0, <3>1
    <3>3. attributes.doubles = case.attributes.doubles
      OBVIOUS
    <3>4. QED
      BY <2>0, <3>2, <3>3
  <2>2. range.arg = "field" /\ "field" \notin DOMAIN attributes.doubles
    BY <2>1
  <2> HIDE DEF attributes, range
  <2>3. Decided(case, c) => In(case.pool, attributes)
    BY DEF Decided, attributes
  <2>4. QED
    BY <2>1, <2>2, <2>3 DEF In, DoubleInRange
<1>3. CASE case \in S3
  <2>1. PICK b \in AllBounds \ {EXCLUDE_NONE} : case = SimpleDoubleRange(5, 5, 5, b)
    BY <1>3
  <2>2. QED
    BY <2>1, DoubleCase DEF AllBounds, EXCLUDE_NONE, EXCLUDE_MIN, EXCLUDE_MAX, EXCLUDE_BOTH
<1>4. CASE case \in S4
  <2>1. PICK e \in ExcludedWithAnyBounds, b \in AllBounds :
          case = SimpleDoubleRange(e[1], e[2], e[3], b)
    BY <1>4
  <2>2. QED
    BY <2>1, DoubleCase DEF ExcludedWithAnyBounds
<1>5. CASE case \in S5
  BY <1>5, DoubleCase DEF EXCLUDE_MAX, EXCLUDE_BOTH
<1>6. CASE case \in S6
  BY <1>6, DoubleCase DEF EXCLUDE_MIN, EXCLUDE_BOTH
<1>7. CASE case \in S7
  BY <1>7, DoubleCase DEF EXCLUDE_MIN, EXCLUDE_MAX, EXCLUDE_BOTH
<1>8. CASE case \in S8
  BY <1>8, StringCase, TagCase
<1>9. CASE case \in S9
  <2>1. ASSUME case = MultipleFilters(TRUE, TRUE, TRUE, FALSE), Decided(case, c)
        PROVE  FALSE
    <3>1. 30 <= c
      BY <2>1, MultipleCase, Zenon
    <3>2. c < 30
      BY <2>1
    <3>3. QED
      BY <3>1, <3>2
  <2>2. CASE \/ case = MultipleFilters(FALSE, TRUE, TRUE, TRUE)
             \/ case = MultipleFilters(TRUE, FALSE, TRUE, TRUE)
             \/ case = MultipleFilters(TRUE, TRUE, FALSE, TRUE)
    BY <2>2, MultipleCase
  <2>3. QED
    BY <1>9, <2>1, <2>2, Zenon
<1>10. ExcludedTestCases = ExcludedWithoutTicket \cup S2 \cup S3 \cup S4
                            \cup S5 \cup S6 \cup S7 \cup S8 \cup S9
  BY DEF ExcludedTestCases
<1> HIDE DEF S2, S3, S4, S5, S6, S7, S8, S9
<1>11. QED
  BY <1>1, <1>2, <1>3, <1>4, <1>5, <1>6, <1>7, <1>8, <1>9, <1>10

\* Scenario s is a test case: one ticket, whatever its name, its size and the
\* expiration time it asks for, and one pool.
IsTestScene(s) ==
  \E t \in Ticket, n \in Pool :
    /\ s.pools # Absent /\ DOMAIN s.creates = {t} /\ DOMAIN s.pools = {n}
    /\ \E case \in IncludedTestCases \cup ExcludedTestCases :
         /\ s.creates[t].attributes = case.attributes /\ s.pools[n] = case.pool
         /\ \/ s.expect = "in" /\ case \in IncludedTestCases
            \/ s.expect = "out" /\ case \in ExcludedTestCases

LEMMA TestSceneDecided ==
  ASSUME NEW s \in Scenario, IsTestScene(s), 39 <= Start
  PROVE  FiltersDecide(s)
<1>1. PICK t \in Ticket, n \in Pool :
        /\ s.pools # Absent /\ DOMAIN s.creates = {t} /\ DOMAIN s.pools = {n}
        /\ \E case \in IncludedTestCases \cup ExcludedTestCases :
             /\ s.creates[t].attributes = case.attributes /\ s.pools[n] = case.pool
             /\ \/ s.expect = "in" /\ case \in IncludedTestCases
                \/ s.expect = "out" /\ case \in ExcludedTestCases
  BY DEF IsTestScene
<1>2. PICK case \in IncludedTestCases \cup ExcludedTestCases :
        /\ s.creates[t].attributes = case.attributes /\ s.pools[n] = case.pool
        /\ \/ s.expect = "in" /\ case \in IncludedTestCases
           \/ s.expect = "out" /\ case \in ExcludedTestCases
  BY <1>1
<1>3. ASSUME NEW c \in CreationTimes(case.attributes.created)
      PROVE  s.expect = "in" <=> Decided(case, c)
  <2>1. /\ case.attributes.created \in Times
        /\ Start \in Nat /\ End \in Nat /\ Absent \notin Int /\ Invalid \notin Int
    BY <1>1, <1>2, PoolAssumption, FilterAssumption DEF ScenarioType
  <2>2. PICK look \in Start .. End :
          c = IF case.attributes.created \in {Absent, Invalid} THEN look
              ELSE IF case.attributes.created > look THEN look
              ELSE case.attributes.created
    BY DEF CreationTimes
  <2>3. c \in Int
    BY <2>1, <2>2 DEF Times
  <2> DEFINE past   == case = MultipleFilters(TRUE, TRUE, TRUE, TRUE)
             before == case = MultipleFilters(TRUE, TRUE, TRUE, FALSE)
  <2>4. past => case.attributes.created = 39
    BY DEF MultipleFilters, TestCase
  <2>5. before => case.attributes.created = -61
    BY DEF MultipleFilters, TestCase
  <2> HIDE DEF past, before
  <2>6. (past => 30 <= c /\ c <= 54) /\ (before => c < 30)
    BY <2>1, <2>2, <2>4, <2>5
  <2>7. CASE s.expect = "in" /\ case \in IncludedTestCases
    <3>1. Decided(case, c)
      BY <2>3, <2>6, <2>7, IncludedDecided, Zenon DEF past
    <3>2. QED
      BY <2>7, <3>1
  <2>8. CASE s.expect = "out" /\ case \in ExcludedTestCases
    <3>1. ~ Decided(case, c)
      BY <2>3, <2>6, <2>8, ExcludedDecided, Zenon DEF before
    <3>2. QED
      BY <2>8, <3>1
  <2>9. QED
    BY <1>2, <2>7, <2>8
<1>4. QED
  BY <1>1, <1>2, <1>3 DEF FiltersDecide, Decided

\* testcases.go.  Tickets made of the test cases, created by CreateTicket after the
\* times in the table and packed with sizes of any kind, reach the MMFs exactly if
\* their case says that they are in the pool.
THEOREM TestCasesAreDecided ==
  ASSUME \A s \in Scenario : s.expect # "any" => IsTestScene(s),
         39 <= Start
  PROVE  Spec => []TestCasesDecided
<1>1. \A s \in Scenario : s.expect # "any" => FiltersDecide(s)
  BY TestSceneDecided
<1>2. QED
  BY <1>1, TestCasesDecidedByFilters

=============================================================================
