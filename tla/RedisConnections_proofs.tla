----------------------- MODULE RedisConnections_proofs ----------------------
(***************************************************************************)
(* RedisConnections' safety properties hold for any number of dials.       *)
(*                                                                         *)
(* The argument follows New: a pool is left with a connection only by a    *)
(* dial that reached the endpoint (HeldReached), main leaves each stage    *)
(* with an answer of the pool it waited for (StagesInv), and what is       *)
(* neither a connection nor an error does not pass the last stage.  A      *)
(* signal that is taken leaves such an answer behind, and only a panic     *)
(* consumes it.                                                            *)
(***************************************************************************)
EXTENDS RedisConnections, TLAPS

-----------------------------------------------------------------------------
\* The inductive invariant.

\* A connection in use was dialled.
HeldReached == \A s \in Side : use[s] = "held" => s \in reached

\* What the pools may have answered at each stage of New.
StagesInv ==
  /\ stage = "write" => use["read"] \in {"held", "nil"}
  /\ stage = "check" => \A s \in Side : use[s] \in {"held", "nil"}
  /\ use["write"] # "error"

IInv ==
  /\ TypeOK
  /\ HeldReached
  /\ StagesInv
  /\ ConnectedBeforeRunning
  /\ SignalsEndOutagesDoNot

-----------------------------------------------------------------------------
\* Type correctness.

LEMMA TypeInit == Init => TypeOK
<1> SUFFICES ASSUME Init PROVE TypeOK
  OBVIOUS
<1>1. 0 \in 0 .. MaxDials
  BY ConnectionsAssumption
<1>2. \A s \in Side : use[s] # "held"
  BY DEF Init
<1>3. QED
  BY <1>1, <1>2 DEF Init, TypeOK

LEMMA DialType == TypeOK /\ Dial => TypeOK'
<1> SUFFICES ASSUME TypeOK, Dial PROVE TypeOK'
  OBVIOUS
<1> USE ConnectionsAssumption DEF TypeOK, Side, Ended, Interrupted
<1>1. ASSUME NEW s \in Side, TakeSignal(s), UNCHANGED <<up, stage, startSig>>
      PROVE  TypeOK'
  BY <1>1 DEF TakeSignal
<1>2. ASSUME NEW s \in Side, Connect(s), UNCHANGED <<up, stage, startSig>>
      PROVE  TypeOK'
  BY <1>2 DEF Connect
<1>3. CASE RetryOrGiveUp /\ UNCHANGED <<up, stage, startSig>>
  BY <1>3 DEF RetryOrGiveUp
<1>4. CASE ReturnNothing /\ UNCHANGED <<up, stage, startSig>>
  BY <1>4 DEF ReturnNothing
<1>5. QED
  BY <1>1, <1>2, <1>3, <1>4 DEF Dial, ReadDial, WriteDial

LEMMA TypeStep == TypeOK /\ [Next]_vars => TypeOK'
<1> SUFFICES ASSUME TypeOK, [Next]_vars PROVE TypeOK'
  OBVIOUS
<1> USE DEF TypeOK, Side, signalVars, poolVars
<1>1. ASSUME NEW s \in Side, Down(s) PROVE TypeOK'
  BY <1>1 DEF Down
<1>2. ASSUME NEW s \in Side, Up(s) PROVE TypeOK'
  BY <1>2 DEF Up
<1>3. CASE Signal
  BY <1>3 DEF Signal
<1>4. CASE Dial
  BY <1>4, DialType
<1>5. CASE ReadTested
  BY <1>5 DEF ReadTested
<1>6. CASE WriteTested
  BY <1>6 DEF WriteTested
<1>7. CASE NewReturns
  BY <1>7, ConnectionsAssumption DEF NewReturns
<1>8. CASE Serve
  BY <1>8 DEF Serve
<1>9. CASE Stop
  BY <1>9 DEF Stop
<1>10. ASSUME NEW s \in Side, Borrow(s) PROVE TypeOK'
  BY <1>10 DEF Borrow
<1>11. ASSUME NEW s \in Side, Command(s) PROVE TypeOK'
  BY <1>11, ConnectionsAssumption DEF Command, Returned
<1>12. ASSUME NEW s \in Side, CommandOnNil(s) PROVE TypeOK'
  BY <1>12 DEF CommandOnNil
<1>13. CASE UNCHANGED vars
  BY <1>13 DEF vars
<1>14. QED
  BY <1>1, <1>2, <1>3, <1>4, <1>5, <1>6, <1>7, <1>8, <1>9, <1>10, <1>11,
     <1>12, <1>13 DEF Next, Main

-----------------------------------------------------------------------------
\* The rest of the invariant.

LEMMA DialStep == IInv /\ Dial => IInv'
<1> SUFFICES ASSUME IInv, Dial PROVE IInv'
  OBVIOUS
<1>1. TypeOK'
  BY DialType DEF IInv
<1> USE DEF IInv, TypeOK, HeldReached, StagesInv, ConnectedBeforeRunning,
            SignalsEndOutagesDoNot, Running, Side
<1>2. ASSUME NEW s \in Side, use[s] = "dial", TakeSignal(s),
             UNCHANGED <<up, stage, startSig>>
      PROVE  IInv'
  BY <1>1, <1>2 DEF TakeSignal
<1>3. ASSUME NEW s \in Side, use[s] = "dial", Connect(s),
             UNCHANGED <<up, stage, startSig>>
      PROVE  IInv'
  BY <1>1, <1>3 DEF Connect
<1>4. CASE use["read"] = "dial" /\ RetryOrGiveUp /\ UNCHANGED <<up, stage, startSig>>
  BY <1>1, <1>4 DEF RetryOrGiveUp
<1>5. CASE use["write"] = "dial" /\ ReturnNothing /\ UNCHANGED <<up, stage, startSig>>
  BY <1>1, <1>5 DEF ReturnNothing
<1>6. QED
  BY <1>2, <1>3, <1>4, <1>5 DEF Dial, ReadDial, WriteDial

LEMMA InvariantStep == IInv /\ [Next]_vars => IInv'
<1> SUFFICES ASSUME IInv, [Next]_vars PROVE IInv'
  OBVIOUS
<1>1. TypeOK'
  BY TypeStep DEF IInv
<1>2. CASE Dial
  BY <1>2, DialStep
<1> USE DEF IInv, TypeOK, HeldReached, StagesInv, ConnectedBeforeRunning,
            SignalsEndOutagesDoNot, Running, Side, signalVars, poolVars
<1>3. ASSUME NEW s \in Side, Down(s) \/ Up(s) PROVE IInv'
  BY <1>1, <1>3 DEF Down, Up
<1>4. CASE Signal
  BY <1>1, <1>4 DEF Signal
<1>5. CASE ReadTested
  BY <1>1, <1>5 DEF ReadTested
<1>6. CASE WriteTested
  BY <1>1, <1>6 DEF WriteTested
<1>7. CASE NewReturns
  BY <1>1, <1>7 DEF NewReturns
<1>8. CASE Serve \/ Stop
  BY <1>1, <1>8 DEF Serve, Stop
<1>9. ASSUME NEW s \in Side, Borrow(s) PROVE IInv'
  BY <1>1, <1>9 DEF Borrow
<1>10. ASSUME NEW s \in Side, Command(s) PROVE IInv'
  BY <1>1, <1>10 DEF Command, Returned
<1>11. ASSUME NEW s \in Side, CommandOnNil(s) PROVE IInv'
  BY <1>1, <1>11 DEF CommandOnNil
<1>12. CASE UNCHANGED vars
  BY <1>1, <1>12 DEF vars
<1>13. QED
  BY <1>2, <1>3, <1>4, <1>5, <1>6, <1>7, <1>8, <1>9, <1>10, <1>11, <1>12
     DEF Next, Main

LEMMA InductiveInvariant == Spec => []IInv
<1>1. Init => IInv
  BY TypeInit DEF Init, IInv, HeldReached, StagesInv, ConnectedBeforeRunning,
                  SignalsEndOutagesDoNot, Running, Side
<1>2. QED
  BY <1>1, InvariantStep, PTL DEF Spec

-----------------------------------------------------------------------------
\* The endpoints, main, the signals and the pools keep their types; a pool's user
\* never holds a connection the pool does not have, and dials no more often than
\* the backoff allows.
THEOREM ConnectionsTypeCorrect == Spec => []TypeOK
<1>1. QED
  BY TypeInit, TypeStep, PTL DEF Spec

\* However outages, retries and signals interleave with New, no instance serves
\* that was not connected to both Redis endpoints.
THEOREM RunsOnlyConnected == Spec => []ConnectedBeforeRunning
<1>1. IInv => ConnectedBeforeRunning
  BY DEF IInv
<1>2. QED
  BY <1>1, InductiveInvariant, PTL

\* A signal taken by a dial ends the process, and an outage of the read endpoint
\* does not.
THEOREM SignalsAreNotForgotten == Spec => []SignalsEndOutagesDoNot
<1>1. IInv => SignalsEndOutagesDoNot
  BY DEF IInv
<1>2. QED
  BY <1>1, InductiveInvariant, PTL

=============================================================================
