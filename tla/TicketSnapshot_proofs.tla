------------------------ MODULE TicketSnapshot_proofs -----------------------
(***************************************************************************)
(* TicketSnapshot's invariants hold for any set of tickets and any number  *)
(* of concurrent calls.                                                    *)
(*                                                                         *)
(* The argument has two halves.  The applier keeps Active within activated *)
(* because a half-created ticket is on the inactive list before it is in   *)
(* Tickets, and a half-expired one has left Tickets before it leaves the   *)
(* list.  A reader's pool is sound because a ticket it did not see on the  *)
(* inactive list was then active, or not there yet: to be found in Tickets *)
(* afterwards it must have been created during the call.                   *)
(***************************************************************************)
EXTENDS TicketSnapshot, TLAPS

-----------------------------------------------------------------------------
\* The inductive invariant.

WriterInv ==
  /\ ActiveWasActivated
  /\ \A t \in Ticket :
       /\ writer = [op |-> "storeTicket", id |-> t] => t \in inactive
       /\ writer = [op |-> "deleteInactive", id |-> t] => t \notin tickets

\* What r did not see on the inactive list.
SeenFree(r) == dumped[r] \ inactiveIds[r]

ReaderInv(r) ==
  /\ call[r] = "idle" => /\ dumped[r] = {} /\ inactiveIds[r] = {}
                         /\ ranged[r] = {} /\ pool[r] = {}
  /\ call[r] = "dump" => ranged[r] = {} /\ pool[r] = {}
  /\ call[r] \in {"range", "done"} => dumped[r] = Ticket
  /\ call[r] = "done" => ranged[r] = Ticket
  /\ r \in Running =>
       /\ Active \subseteq wasActive[r]
       /\ stayedActive[r] \subseteq Active
       /\ SeenFree(r) \cap tickets \subseteq wasActive[r] \cup createdMeanwhile[r]
  /\ call[r] # "idle" =>
       /\ stayedActive[r] \cap inactiveIds[r] = {}
       /\ pool[r] \subseteq wasActive[r] \cup createdMeanwhile[r]
       /\ stayedActive[r] \cap ranged[r] \subseteq pool[r]

IInv == TypeOK /\ WriterInv /\ \A r \in Reader : ReaderInv(r)

-----------------------------------------------------------------------------
\* Type correctness.

\* The histories keep their type in every step that observes the active set.
LEMMA ObserveType ==
  ASSUME TypeOK, tickets' \in SUBSET Ticket, Observe
  PROVE  /\ wasActive' \in [Reader -> SUBSET Ticket]
         /\ stayedActive' \in [Reader -> SUBSET Ticket]
  BY DEF TypeOK, Observe, Active, Running

LEMMA TypeInit == Init => TypeOK
  BY DEF Init, TypeOK, WriterState, Idle

LEMMA TypeStep == TypeOK /\ [Next]_vars => TypeOK'
<1> SUFFICES ASSUME TypeOK, [Next]_vars PROVE TypeOK'
  OBVIOUS
<1> USE DEF cacheVars, writerVars, clockVars, readerVars, histVars
<1>1. ASSUME NEW t \in Ticket, CreateInactive(t) PROVE TypeOK'
  BY <1>1, ObserveType DEF CreateInactive, ObserveWithout, TypeOK, WriterState
<1>2. ASSUME NEW t \in Ticket, StoreTicket(t) PROVE TypeOK'
  <2>1. tickets' \in SUBSET Ticket
    BY <1>2 DEF StoreTicket, TypeOK
  <2>2. createdMeanwhile' \in [Reader -> SUBSET Ticket]
    BY <1>2 DEF StoreTicket, ObserveCreation, TypeOK, Running
  <2>3. QED
    BY <1>2, <2>1, <2>2, ObserveType
       DEF StoreTicket, ObserveCreation, TypeOK, WriterState, Idle
<1>3. ASSUME NEW t \in Ticket, Activate(t) PROVE TypeOK'
  BY <1>3, ObserveType DEF Activate, ObserveWithout, TypeOK
<1>4. ASSUME NEW t \in Ticket, Deactivate(t) PROVE TypeOK'
  BY <1>4, ObserveType DEF Deactivate, ObserveWithout, TypeOK
<1>5. CASE StartExpiration
  BY <1>5 DEF StartExpiration, TypeOK, WriterState
<1>6. ASSUME NEW t \in Ticket, VisitInactive(t) PROVE TypeOK'
  <2>1. tickets' \in SUBSET Ticket /\ writer' \in WriterState
    BY <1>6 DEF VisitInactive, TypeOK, WriterState
  <2>2. QED
    BY <1>6, <2>1, ObserveType DEF VisitInactive, ObserveWithout, TypeOK
<1>7. ASSUME NEW t \in Ticket, DeleteInactive(t) PROVE TypeOK'
  BY <1>7, ObserveType DEF DeleteInactive, ObserveWithout, TypeOK, WriterState
<1>8. CASE StartTicketExpiration
  BY <1>8 DEF StartTicketExpiration, TypeOK, WriterState
<1>9. ASSUME NEW t \in Ticket, VisitTicket(t) PROVE TypeOK'
  BY <1>9, ObserveType DEF VisitTicket, ObserveWithout, TypeOK
<1>10. CASE EndExpiration
  BY <1>10 DEF EndExpiration, TypeOK, WriterState, Idle
<1>11. CASE Clock
  BY <1>11 DEF Clock, Expire, Age, TypeOK
<1>12. ASSUME NEW r \in Reader, Invoke(r) PROVE TypeOK'
  BY <1>12 DEF Invoke, StartCall, DumpInactive, FinishDump, RangeTickets,
               FinishCall, TypeOK, Active
<1>13. CASE UNCHANGED vars
  BY <1>13 DEF vars, TypeOK
<1>14. QED
  BY <1>1, <1>2, <1>3, <1>4, <1>5, <1>6, <1>7, <1>8, <1>9, <1>10, <1>11,
     <1>12, <1>13 DEF Next, Writer

-----------------------------------------------------------------------------
\* The applier never shows an inactive ticket as active.

LEMMA WriterStep == TypeOK /\ WriterInv /\ [Next]_vars => WriterInv'
<1> SUFFICES ASSUME TypeOK, WriterInv, [Next]_vars PROVE WriterInv'
  OBVIOUS
<1> USE DEF cacheVars, writerVars, WriterInv, ActiveWasActivated, Active, Idle
<1>1. ASSUME NEW t \in Ticket, CreateInactive(t) PROVE WriterInv'
  BY <1>1 DEF CreateInactive
<1>2. ASSUME NEW t \in Ticket, StoreTicket(t) PROVE WriterInv'
  BY <1>2 DEF StoreTicket
<1>3. ASSUME NEW t \in Ticket, Activate(t) PROVE WriterInv'
  BY <1>3 DEF Activate
<1>4. ASSUME NEW t \in Ticket, Deactivate(t) PROVE WriterInv'
  BY <1>4 DEF Deactivate
<1>5. CASE StartExpiration \/ StartTicketExpiration \/ EndExpiration
  BY <1>5 DEF StartExpiration, StartTicketExpiration, EndExpiration
<1>6. ASSUME NEW t \in Ticket, VisitInactive(t) PROVE WriterInv'
  BY <1>6 DEF VisitInactive
<1>7. ASSUME NEW t \in Ticket, DeleteInactive(t) PROVE WriterInv'
  BY <1>7 DEF DeleteInactive
<1>8. ASSUME NEW t \in Ticket, VisitTicket(t) PROVE WriterInv'
  BY <1>8 DEF VisitTicket
<1>9. CASE Clock
  BY <1>9 DEF Clock, Expire, Age
<1>10. ASSUME NEW r \in Reader, Invoke(r) PROVE WriterInv'
  BY <1>10 DEF Invoke, StartCall, DumpInactive, FinishDump, RangeTickets,
               FinishCall
<1>11. CASE UNCHANGED vars
  BY <1>11 DEF vars
<1>12. QED
  BY <1>1, <1>2, <1>3, <1>4, <1>5, <1>6, <1>7, <1>8, <1>9, <1>10, <1>11
     DEF Next, Writer

-----------------------------------------------------------------------------
\* A reader's knowledge survives what the applier does meanwhile, as long as
\* the tickets that appear are recorded as created during the call.

LEMMA ReaderUndisturbed ==
  ASSUME TypeOK, NEW r \in Reader, ReaderInv(r),
         UNCHANGED readerVars, Observe,
         NEW new \in SUBSET Ticket,
         tickets' \subseteq tickets \cup new,
         createdMeanwhile'[r] =
           createdMeanwhile[r] \cup (IF r \in Running THEN new ELSE {})
  PROVE  ReaderInv(r)'
<1> USE DEF readerVars, ReaderInv, Running, SeenFree
<1>1. CASE r \in Running
  <2>1. /\ wasActive'[r] = wasActive[r] \cup Active'
        /\ stayedActive'[r] = stayedActive[r] \cap Active'
        /\ createdMeanwhile'[r] = createdMeanwhile[r] \cup new
    BY <1>1 DEF Observe, TypeOK
  <2>2. SeenFree(r)' \cap tickets' \subseteq wasActive'[r] \cup createdMeanwhile'[r]
    BY <1>1, <2>1
  <2>3. QED
    BY <1>1, <2>1, <2>2
<1>2. CASE r \notin Running
  <2>1. /\ wasActive'[r] = wasActive[r]
        /\ stayedActive'[r] = stayedActive[r]
        /\ createdMeanwhile'[r] = createdMeanwhile[r]
    BY <1>2 DEF Observe, TypeOK
  <2>2. QED
    BY <1>2, <2>1
<1>3. QED
  BY <1>1, <1>2

\* A step of the applier that creates nothing.
LEMMA ReaderUndisturbedWithout ==
  ASSUME TypeOK, NEW r \in Reader, ReaderInv(r),
         UNCHANGED readerVars, ObserveWithout, tickets' \subseteq tickets
  PROVE  ReaderInv(r)'
<1>1. createdMeanwhile'[r] = createdMeanwhile[r] \cup (IF r \in Running THEN {} ELSE {})
  BY DEF ObserveWithout
<1>2. Observe /\ tickets' \subseteq tickets \cup {}
  BY DEF ObserveWithout
<1>3. {} \in SUBSET Ticket
  OBVIOUS
<1>4. QED
  BY ONLY TypeOK, ReaderInv(r), UNCHANGED readerVars, <1>1, <1>2, <1>3,
          ReaderUndisturbed

\* A step that leaves the cache and the readers alone.
LEMMA ReaderUnchanged ==
  ASSUME NEW r \in Reader, ReaderInv(r),
         UNCHANGED <<cacheVars, readerVars, histVars>>
  PROVE  ReaderInv(r)'
  BY DEF ReaderInv, SeenFree, Running, Active, cacheVars, readerVars, histVars

\* A step of a reader itself.
LEMMA ReaderMoves ==
  ASSUME TypeOK, NEW r \in Reader, ReaderInv(r), NEW q \in Reader, Invoke(q)
  PROVE  ReaderInv(r)'
<1> USE DEF cacheVars, ReaderInv, SeenFree, Running, Active, TypeOK
<1>1. CASE StartCall(q)
  BY <1>1 DEF StartCall
<1>2. CASE FinishDump(q)
  BY <1>2 DEF FinishDump, histVars
<1>3. CASE FinishCall(q)
  BY <1>3 DEF FinishCall, histVars
<1>4. ASSUME NEW t \in Ticket, DumpInactive(q, t) PROVE ReaderInv(r)'
  BY <1>4 DEF DumpInactive, histVars
<1>5. ASSUME NEW t \in Ticket, RangeTickets(q, t) PROVE ReaderInv(r)'
  BY <1>5 DEF RangeTickets, histVars
<1>6. QED
  BY <1>1, <1>2, <1>3, <1>4, <1>5 DEF Invoke

LEMMA ReaderStep ==
  TypeOK /\ (\A r \in Reader : ReaderInv(r)) /\ [Next]_vars
    => (\A r \in Reader : ReaderInv(r))'
<1> SUFFICES ASSUME TypeOK, \A r \in Reader : ReaderInv(r), [Next]_vars,
                    NEW r \in Reader
             PROVE  ReaderInv(r)'
  OBVIOUS
<1>1. ASSUME NEW t \in Ticket, CreateInactive(t) PROVE ReaderInv(r)'
  BY <1>1, ReaderUndisturbedWithout DEF CreateInactive
<1>2. ASSUME NEW t \in Ticket, StoreTicket(t) PROVE ReaderInv(r)'
  <2>1. /\ UNCHANGED readerVars
        /\ Observe
        /\ {t} \in SUBSET Ticket
        /\ tickets' \subseteq tickets \cup {t}
    BY <1>2 DEF StoreTicket, ObserveCreation
  <2>2. createdMeanwhile'[r] =
          createdMeanwhile[r] \cup (IF r \in Running THEN {t} ELSE {})
    BY <1>2 DEF StoreTicket, ObserveCreation
  <2>3. QED
    BY <2>1, <2>2, ReaderUndisturbed
<1>3. ASSUME NEW t \in Ticket, Activate(t) \/ Deactivate(t) PROVE ReaderInv(r)'
  BY <1>3, ReaderUndisturbedWithout DEF Activate, Deactivate
<1>4. ASSUME NEW t \in Ticket,
             VisitInactive(t) \/ DeleteInactive(t) \/ VisitTicket(t)
      PROVE  ReaderInv(r)'
  <2>1. tickets' \subseteq tickets
    BY <1>4 DEF VisitInactive, DeleteInactive, VisitTicket
  <2>2. QED
    BY <1>4, <2>1, ReaderUndisturbedWithout
       DEF VisitInactive, DeleteInactive, VisitTicket
<1>5. CASE StartExpiration \/ StartTicketExpiration \/ EndExpiration
  BY <1>5, ReaderUnchanged
     DEF StartExpiration, StartTicketExpiration, EndExpiration
<1>6. CASE Clock
  BY <1>6, ReaderUnchanged DEF Clock, Expire, Age
<1>7. ASSUME NEW q \in Reader, Invoke(q) PROVE ReaderInv(r)'
  BY <1>7, ReaderMoves
<1>8. CASE UNCHANGED vars
  BY <1>8, ReaderUnchanged DEF vars
<1>9. QED
  BY <1>1, <1>2, <1>3, <1>4, <1>5, <1>6, <1>7, <1>8 DEF Next, Writer

-----------------------------------------------------------------------------
\* The types of the cache, the applier's program counter, the readers' local
\* copies and the histories, in every reachable state.
THEOREM SnapshotTypeCorrect == Spec => []TypeOK
<1>1. QED
  BY TypeInit, TypeStep, PTL DEF Spec

LEMMA InductiveInvariant == Spec => []IInv
<1>1. Init => IInv
  <2>1. ASSUME Init PROVE WriterInv /\ \A r \in Reader : ReaderInv(r)
    BY <2>1 DEF Init, WriterInv, ActiveWasActivated, Active, Idle, ReaderInv,
                Running, SeenFree
  <2>2. QED
    BY <2>1, TypeInit DEF IInv
<1>2. IInv /\ [Next]_vars => IInv'
  BY TypeStep, WriterStep, ReaderStep DEF IInv
<1>3. QED
  BY <1>1, <1>2, PTL DEF Spec

\* No interleaving of the applier's Stores and Deletes makes a ticket whose last
\* update is not an Activate look active.
THEOREM OnlyActivatedActive == Spec => []ActiveWasActivated
<1>1. IInv => ActiveWasActivated
  BY DEF IInv, WriterInv
<1>2. QED
  BY <1>1, InductiveInvariant, PTL

\* The pools of InvokeMatchmakingFunctions hold tickets that were active, or
\* created, during the call.
THEOREM PoolsAreSound == Spec => []PoolSound
<1>1. IInv => PoolSound
  BY DEF IInv, ReaderInv, PoolSound
<1>2. QED
  BY <1>1, InductiveInvariant, PTL

\* The pools hold every ticket that was active all through the call.
THEOREM PoolsAreComplete == Spec => []PoolComplete
<1>1. IInv => PoolComplete
  <2>1. ASSUME IInv, NEW r \in Reader, call[r] = "done"
        PROVE  stayedActive[r] \subseteq pool[r]
    BY <2>1 DEF IInv, ReaderInv, TypeOK
  <2>2. QED
    BY <2>1 DEF PoolComplete
<1>2. QED
  BY <1>1, InductiveInvariant, PTL

=============================================================================
