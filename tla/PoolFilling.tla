----------------------------- MODULE PoolFilling ----------------------------
(***************************************************************************)
(* How a ticket gets from CreateTicket into the pools that an MMF receives.*)
(*                                                                         *)
(* CreateTicket sets the creation and expiration times of each ticket,     *)
(* reading the clock several times on the way, or refuses the ticket.      *)
(* InvokeMatchmakingFunctions takes the active tickets, goes through them  *)
(* and the pools of the requested profile in any order (Go maps), and      *)
(* packs the tickets that pass a pool's filters into chunks of limited     *)
(* size.  Each chunk becomes a request to the MMFs, made of the pool       *)
(* objects of the request itself: a later chunk that holds tickets of the  *)
(* same pool overwrites the participants of the earlier one.               *)
(***************************************************************************)
EXTENDS TicketFilter, Sequences, FiniteSets

CONSTANTS
  Ticket,      \* tickets that clients create
  Pool,        \* names of pools
  Scenario,    \* what clients and the matchmaker ask for: see ScenarioType
  TTL,         \* OM_CACHE_TICKET_TTL_MS
  MaxPbSize,   \* size at which a chunk is full
  Start, End   \* bounds of the clock

\* creates: what each ticket was asked to be.  pools: the filters of the pools of
\* the profile.  size: the encoded size of each ticket, and of the request with
\* its pools empty.  mmfs: there are MMFs to invoke.
ScenarioType(s) ==
  /\ DOMAIN s.creates \subseteq Ticket
  /\ \A t \in DOMAIN s.creates : /\ s.creates[t].attributes.created \in Times
                                /\ s.creates[t].expires \in Times
  /\ s.pools = Absent \/ DOMAIN s.pools \subseteq Pool
  /\ \A t \in DOMAIN s.creates : s.size[t] \in Nat
  /\ s.emptySize \in Nat
  /\ s.mmfs \in BOOLEAN

ASSUME PoolAssumption ==
  /\ \A s \in Scenario : ScenarioType(s)
  /\ TTL \in Nat /\ MaxPbSize \in Nat
  /\ Start \in Nat /\ End \in Nat /\ Start <= End

VARIABLES
  now,           \* the clock
  scenario,      \* the requests of this behaviour
  ticket,        \* ticket[t]: how far CreateTicket is, and the times it set
  stage,         \* how far InvokeMatchmakingFunctions is
  active,        \* activeTickets
  todo,          \* <<ticket, pool>> pairs that pass the filters, not yet packed
  chunks,        \* chunkedPools: in each chunk, the tickets of some pools
  curChunkSize,  \* the size counted for the last chunk
  participants,  \* participants[n]: Participants of pool n of the request
  built          \* chunkedRequest: in each request, the names of its pools

createVars == <<now, ticket>>
invokeVars == <<stage, active, todo, chunks, curChunkSize, participants, built>>
vars == <<scenario, createVars, invokeVars>>

Tickets == DOMAIN scenario.creates
Pools == IF scenario.pools = Absent THEN {} ELSE DOMAIN scenario.pools

\* The attributes of ticket t as they are cached: CreateTicket keeps them, with
\* the creation time it set.
Attributes(t) ==
  [scenario.creates[t].attributes EXCEPT !.created = ticket[t].created]

Admitted == {t \in Tickets : ticket[t].step = "admitted"}

-----------------------------------------------------------------------------
Init ==
  /\ now = Start
  /\ scenario \in Scenario
  /\ ticket = [t \in Tickets |->
                 [step |-> "received", created |-> Absent, limit |-> Absent,
                  expires |-> Absent]]
  /\ stage = "start"
  /\ active = {}
  /\ todo = {}
  /\ chunks = << >>
  /\ curChunkSize = 0
  /\ participants = << >>
  /\ built = << >>

TypeOK ==
  /\ now \in Start .. End
  /\ scenario \in Scenario
  /\ ticket \in [Tickets -> [step : {"received", "stamped", "limited", "admitted",
                                     "refused"},
                             created : Times, limit : Times, expires : Times]]
  /\ stage \in {"start", "pack", "build", "built", "refused"}
  /\ active \subseteq Admitted
  /\ todo \subseteq active \X Pools
  /\ \A k \in DOMAIN chunks : /\ DOMAIN chunks[k] \subseteq Pools
                              /\ \A n \in DOMAIN chunks[k] :
                                   chunks[k][n] \in Seq(active) \ {<< >>}
  /\ curChunkSize \in Nat
  /\ DOMAIN participants \subseteq Pools
  /\ \A k \in DOMAIN built : built[k] \subseteq DOMAIN participants

Tick ==
  /\ now < End
  /\ now' = now + 1
  /\ UNCHANGED <<scenario, ticket, invokeVars>>

-----------------------------------------------------------------------------
\* validateAndMarshalIncomingTicket, in the steps between its looks at the clock.

\* Mutant: a creation time in the future is kept.
KeptCreationTime(t) ==
  LET asked == scenario.creates[t].attributes.created
  IN  IF asked \in {Absent, Invalid} THEN now ELSE asked

\* A creation time that is missing, invalid or in the future becomes the current
\* time; any other, however old, is kept.
CreationTime(t) ==
  LET asked == scenario.creates[t].attributes.created
  IN  IF asked \in {Absent, Invalid} THEN now
      ELSE IF asked > now THEN now ELSE asked

SetCreationTime(t) ==
  /\ ticket[t].step = "received"
  /\ ticket' = [ticket EXCEPT ![t].created = CreationTime(t),
                              ![t].step = "stamped"]
  /\ UNCHANGED <<now, scenario, invokeVars>>

SetMaxExpiration(t) ==
  /\ ticket[t].step = "stamped"
  /\ ticket' = [ticket EXCEPT ![t].limit = now + TTL, ![t].step = "limited"]
  /\ UNCHANGED <<now, scenario, invokeVars>>

AllowedExpiration(t, asked) ==
  asked # Invalid /\ asked <= ticket[t].limit /\ asked >= now

\* An expiration time that is missing becomes the limit, one that is not allowed
\* refuses the ticket.
CheckExpiration(t) ==
  LET asked == scenario.creates[t].expires
  IN  /\ ticket[t].step = "limited"
      /\ \/ /\ asked = Absent
            /\ ticket' = [ticket EXCEPT ![t].expires = ticket[t].limit,
                                        ![t].step = "admitted"]
         \/ /\ asked # Absent
            /\ AllowedExpiration(t, asked)
            /\ ticket' = [ticket EXCEPT ![t].expires = asked,
                                        ![t].step = "admitted"]
         \/ /\ asked # Absent
            /\ ~ AllowedExpiration(t, asked)
            /\ ticket' = [ticket EXCEPT ![t].step = "refused"]
      /\ UNCHANGED <<now, scenario, invokeVars>>

Create(t) == SetCreationTime(t) \/ SetMaxExpiration(t) \/ CheckExpiration(t)

-----------------------------------------------------------------------------
\* InvokeMatchmakingFunctions, up to the requests for the MMFs.

\* No profile, or no MMFs.
RefuseRequest ==
  /\ stage = "start"
  /\ scenario.pools = Absent \/ ~ scenario.mmfs
  /\ stage' = "refused"
  /\ UNCHANGED <<scenario, createVars, active, todo, chunks, curChunkSize,
                 participants, built>>

ValidPools == {n \in Pools : ValidatePoolFilters(scenario.pools[n])}

\* A copy of the active tickets is taken: of those created, any that were
\* activated.  Pools with invalid filters are left out, and the first chunk is
\* begun.
StartPacking ==
  /\ stage = "start"
  /\ scenario.pools # Absent /\ scenario.mmfs
  /\ active' \in SUBSET Admitted
  /\ todo' = {p \in active' \X ValidPools :
                In(scenario.pools[p[2]], Attributes(p[1]))}
  /\ chunks' = << << >> >>
  /\ curChunkSize' = scenario.emptySize
  /\ stage' = "pack"
  /\ UNCHANGED <<scenario, createVars, participants, built>>

InChunk(t, k) == \E n \in DOMAIN chunks[k] :
                   \E i \in DOMAIN chunks[k][n] : chunks[k][n][i] = t

\* The inner loop is not done with ticket t.
Underway(t) ==
  /\ \E n \in Pools : <<t, n>> \in todo
  /\ \E k \in DOMAIN chunks : InChunk(t, k)

\* Append to the roster of a pool, which is nil at first.
AddTo(chunk, n, t) ==
  LET roster == IF n \in DOMAIN chunk THEN chunk[n] ELSE << >>
  IN  [m \in DOMAIN chunk \cup {n} |->
         IF m = n THEN Append(roster, t) ELSE chunk[m]]

\* Mutant: a full chunk is noticed one ticket late.
FullAfterwards(t) == curChunkSize >= MaxPbSize

\* With this ticket the chunk would reach the limit.
Full(t) == curChunkSize + scenario.size[t] >= MaxPbSize

\* Mutant: the ticket that does not fit is dropped when a chunk is begun.
PackOrBegin(t, n) ==
  /\ stage = "pack"
  /\ <<t, n>> \in todo
  /\ \A u \in active : Underway(u) => u = t
  /\ IF Full(t)
       THEN /\ chunks' = Append(chunks, << >>)
            /\ curChunkSize' = scenario.emptySize
       ELSE /\ chunks' = [chunks EXCEPT ![Len(chunks)] = AddTo(@, n, t)]
            /\ curChunkSize' = curChunkSize + scenario.size[t]
  /\ todo' = todo \ {<<t, n>>}
  /\ UNCHANGED <<scenario, createVars, stage, active, participants, built>>

\* The next ticket that passes the filters of pool n is put into the last chunk,
\* or into a new one, even if the last is still empty.
Pack(t, n) ==
  /\ stage = "pack"
  /\ <<t, n>> \in todo
  /\ \A u \in active : Underway(u) => u = t
  /\ IF Full(t)
       THEN /\ chunks' = Append(chunks, AddTo(<< >>, n, t))
            /\ curChunkSize' = scenario.emptySize + scenario.size[t]
       ELSE /\ chunks' = [chunks EXCEPT ![Len(chunks)] = AddTo(@, n, t)]
            /\ curChunkSize' = curChunkSize + scenario.size[t]
  /\ todo' = todo \ {<<t, n>>}
  /\ UNCHANGED <<scenario, createVars, stage, active, participants, built>>

StartBuilding ==
  /\ stage = "pack"
  /\ todo = {}
  /\ stage' = "build"
  /\ UNCHANGED <<scenario, createVars, active, todo, chunks, curChunkSize,
                 participants, built>>

\* The participants of some pools are replaced.
Fill(pools, rosters) ==
  [n \in DOMAIN pools \cup DOMAIN rosters |->
     IF n \in DOMAIN rosters THEN rosters[n] ELSE pools[n]]

\* Mutant: the rosters of a chunk share one variable of the loop.
BuildSharingRoster ==
  LET chunk == chunks[Len(built) + 1]
      roster == chunk[CHOOSE n \in DOMAIN chunk : TRUE]
  IN  /\ stage = "build"
      /\ participants' = Fill(participants, [n \in DOMAIN chunk |-> roster])
      /\ built' = Append(built, DOMAIN chunk)
      /\ stage' = IF Len(built') = Len(chunks) THEN "built" ELSE "build"
      /\ UNCHANGED <<scenario, createVars, active, todo, chunks, curChunkSize>>

\* The request of the next chunk gets the pools that have tickets in it: the pool
\* objects of the matchmaker's request, with new participants.
Build ==
  LET chunk == chunks[Len(built) + 1]
  IN  /\ stage = "build"
      /\ participants' = Fill(participants, chunk)
      /\ built' = Append(built, DOMAIN chunk)
      /\ stage' = IF Len(built') = Len(chunks) THEN "built" ELSE "build"
      /\ UNCHANGED <<scenario, createVars, active, todo, chunks, curChunkSize>>

Next ==
  \/ Tick
  \/ \E t \in Tickets : Create(t)
  \/ RefuseRequest
  \/ StartPacking
  \/ \E t \in Tickets, n \in Pools : Pack(t, n)
  \/ StartBuilding
  \/ Build

Spec == Init /\ [][Next]_vars

-----------------------------------------------------------------------------
\* Where ticket t stands in the pool n of a sequence of requests.
Places(rosters, n, t) ==
  UNION {{k} \X {i \in DOMAIN rosters[k][n] : rosters[k][n][i] = t} :
           k \in {j \in DOMAIN rosters : n \in DOMAIN rosters[j]}}

\* Pool n, put together again from the requests, has each of its tickets once.
Reassembles(rosters, n) ==
  \A t \in active :
    Cardinality(Places(rosters, n, t)) =
      IF n \in ValidPools /\ In(scenario.pools[n], Attributes(t)) THEN 1 ELSE 0

\* What the MMFs receive: the participants are read when the requests are sent.
MmfInput ==
  [k \in DOMAIN built |-> [n \in built[k] |-> participants[n]]]

\* The places of the tickets in a chunk, and the bytes that they take there.
Entries(chunk) == UNION {{n} \X (DOMAIN chunk[n]) : n \in DOMAIN chunk}
Bytes(chunk) ==
  UNION {{p} \X (1 .. scenario.size[chunk[p[1]][p[2]]]) : p \in Entries(chunk)}

ChunkSize(chunk) == scenario.emptySize + Cardinality(Bytes(chunk))

\* Packing loses no ticket, takes none twice, and puts none where it does not
\* belong, in whatever order Go goes through the tickets and the pools.
PackedOnce ==
  stage \in {"build", "built"} => \A n \in Pools : Reassembles(chunks, n)

\* A chunk stays below the limit, by the sizes counted, unless a single ticket is
\* too large for it.
ChunksFit ==
  \A k \in DOMAIN chunks :
    ChunkSize(chunks[k]) < MaxPbSize \/ Cardinality(Entries(chunks[k])) <= 1

\* A pool all of whose tickets are in one chunk reaches the MMFs as it was
\* filled, even if other pools of that chunk are overwritten by later ones.
UnbrokenPoolsArrive ==
  stage = "built" =>
    \A n \in Pools :
      Cardinality({k \in DOMAIN chunks : n \in DOMAIN chunks[k]}) <= 1
        => Reassembles(MmfInput, n)

\* filter.go:55: "CreateTime is validated by Open Match on ticket ingestion and
\* hence expected to be valid."  Whatever the client asks for and however time
\* passes between the looks at the clock, the creation time of an admitted
\* ticket is a valid time of the past, and it does not come after the
\* expiration time, which leaves the ticket no longer than its time to live; and
\* no ticket is admitted that had expired when its call began.
AdmittedTimesSound ==
  \A t \in Admitted :
    /\ ticket[t].created \notin {Absent, Invalid}
    /\ ticket[t].created <= now
    /\ ticket[t].created <= ticket[t].expires
    /\ ticket[t].expires <= now + TTL
    /\ ticket[t].expires >= Start

\* The test cases of the filter package are decided as they say, for tickets that
\* come from CreateTicket and end in the pools of a request.
TestCasesDecided ==
  stage = "built" /\ scenario.expect # "any" =>
    \A t \in active :
      scenario.expect = "in" <=> \E n \in Pools : Places(MmfInput, n, t) # {}

\* main.go:676: "MMFs need to re-assemble the pools with a simple loop+concat over
\* all chunks".  A pool whose tickets are in several chunks arrives with the
\* tickets of the last of them, as often as there are chunks.
PoolsReassemble ==
  stage = "built" => \A n \in Pools : Reassembles(MmfInput, n)

=============================================================================
