------------------------- MODULE ModbusClient_proofs -------------------------
(***************************************************************************)
(* Proofs about ModbusClient, for any coils, any MinDuration and Transit,  *)
(* and any Grace that is not shorter than both together.                   *)
(***************************************************************************)
EXTENDS ModbusClient, TLAPS

USE MinDurationAssumption, GraceAssumption

\* An age grows by at most one tick, and stops at MinDuration.
LEMMA OlderAge ==
  ASSUME NEW n \in 0..MinDuration
  PROVE  /\ Older(n) \in 0..MinDuration
         /\ Older(n) = n + 1 \/ (Older(n) = n /\ n = MinDuration)
BY DEF Older

\* A client that has written nothing has nothing to remember.
LEMMA InitIInv == Init => IInv
<1> SUFFICES ASSUME Init PROVE TypeOK /\ SpacingInv
  BY DEF IInv
<1>1. TypeOK
  <2>1. coil \in [Coil -> BOOLEAN] /\ val \in BOOLEAN
    BY DEF Init
  <2>2. 0 \in 0..MinDuration /\ MinDuration \in 0..MinDuration /\ 0 \in 0..Grace
    OBVIOUS
  <2> QED
    BY <2>1, <2>2 DEF Init, TypeOK
<1>2. SpacingInv
  BY DEF Init, SpacingInv
<1> QED
  BY <1>1, <1>2

\* No write, failure or tick makes the client remember a write as older than it
\* was for the PLC.
LEMMA StepIInv == IInv /\ [Next]_vars => IInv'
<1> SUFFICES ASSUME TypeOK, SpacingInv, [Next]_vars PROVE TypeOK' /\ SpacingInv'
  BY DEF IInv
<1> USE DEF TypeOK, request
<1>1. ASSUME NEW a \in Coil, NEW v \in BOOLEAN, Begin(a, v)
      PROVE  TypeOK' /\ SpacingInv'
  BY <1>1 DEF Begin, SpacingInv
<1>2. CASE Wake
  BY <1>2 DEF Wake, SpacingInv
<1>3. CASE Apply
  BY <1>3 DEF Apply, Effect, SpacingInv
<1>4. CASE Respond
  BY <1>4 DEF Respond, SpacingInv
<1>5. CASE Fail
  BY <1>5 DEF Fail, SpacingInv
<1>6. CASE Land
  <2>1. /\ sinceEffect' = [sinceEffect EXCEPT ![addr] = 0] /\ downFor <= Transit
        /\ coil' = [coil EXCEPT ![addr] = val] /\ pc' = "down" /\ stray' = FALSE
        /\ UNCHANGED <<sinceLast, addr, val, delay, downFor>>
    BY <1>6 DEF Land, Effect
  <2>2. TypeOK'
    <3>1. sinceEffect' \in [Coil -> 0..MinDuration]
      BY <2>1
    <3>2. coil' \in [Coil -> BOOLEAN]
      BY <2>1
    <3> QED BY <2>1, <3>1, <3>2
  <2>3. \A a \in Coil: sinceEffect'[a] >= MinDuration \/ sinceEffect'[a] + Transit >= downFor'
    <3> SUFFICES ASSUME NEW a \in Coil
                 PROVE  sinceEffect'[a] >= MinDuration \/ sinceEffect'[a] + Transit >= downFor'
      OBVIOUS
    <3>1. CASE a = addr
      BY <2>1, <3>1
    <3>2. CASE a # addr
      BY <1>6, <2>1, <3>2 DEF Land, SpacingInv
    <3> QED BY <3>1, <3>2
  <2> QED BY <2>1, <2>2, <2>3 DEF SpacingInv
<1>7. CASE connect
  <2>1. /\ pc = "down" /\ downFor >= Grace /\ pc' = "idle" /\ stray' = FALSE
        /\ sinceLast' = [a \in Coil |-> MinDuration]
        /\ UNCHANGED <<coil, sinceEffect, addr, val, delay, downFor>>
    BY <1>7 DEF connect
  <2>2. TypeOK'
    <3>1. sinceLast' \in [Coil -> 0..MinDuration]
      BY <2>1
    <3> QED BY <2>1, <3>1
  <2>3. ASSUME NEW a \in Coil PROVE sinceEffect[a] >= MinDuration
    <3>1. sinceEffect[a] >= MinDuration \/ sinceEffect[a] + Transit >= downFor
      BY <2>1 DEF SpacingInv
    <3>2. sinceEffect[a] \in Nat
      OBVIOUS
    <3> QED BY <2>1, <3>1, <3>2
  <2> QED BY <2>1, <2>2, <2>3 DEF SpacingInv
<1>8. CASE Tick
  <2>1. TypeOK'
    BY <1>8, OlderAge DEF Tick
  <2>2. SpacingInv'
    <3>1. ASSUME NEW a \in Coil
          PROVE  /\ sinceEffect'[a] = Older(sinceEffect[a])
                 /\ sinceLast'[a] = Older(sinceLast[a])
      BY <1>8 DEF Tick
    <3> QED
      BY <1>8, <3>1 DEF Tick, SpacingInv, Older
  <2> QED
    BY <2>1, <2>2
<1>9. CASE UNCHANGED vars
  BY <1>9 DEF vars, SpacingInv
<1> QED
  BY <1>1, <1>2, <1>3, <1>4, <1>5, <1>6, <1>7, <1>8, <1>9 DEF Next

\* What the client remembers bounds what the PLC did, in every state.
THEOREM Invariance == Spec => []IInv
BY InitIInv, StepIInv, PTL DEF Spec

\* Only Apply and Land switch a relay; the one finds pc = "sent", the other a stray
\* request: either way the last write to that coil is at least MinDuration old.
LEMMA StepSpared ==
  ASSUME IInv, [Next]_vars, NEW a \in Coil, coil'[a] # coil[a]
  PROVE  sinceEffect[a] = MinDuration
<1>1. Apply \/ Land
  BY DEF Next, Begin, Wake, Respond, Fail, connect, Tick, vars
<1>2. a = addr /\ (pc = "sent" \/ stray)
  BY <1>1 DEF Apply, Land, Effect, IInv, TypeOK
<1> QED
  BY <1>2 DEF IInv, TypeOK, SpacingInv

\* No relay is switched within MinDuration of the last write to it, across
\* failed writes, requests that outlive their client, and restarts.
THEOREM RelaySparedHolds == Spec => RelaySpared
<1>1. ASSUME IInv, [Next]_vars
      PROVE  \A a \in Coil: coil'[a] # coil[a] => sinceEffect[a] = MinDuration
  BY <1>1, StepSpared
<1> QED
  BY <1>1, Invariance, PTL DEF Spec, RelaySpared
=============================================================================
